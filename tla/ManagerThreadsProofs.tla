------------------------ MODULE ManagerThreadsProofs ------------------------
(***************************************************************************)
(* Proofs about ManagerThreads, for any threads, managers and buffers:     *)
(* that the types are kept; that the threads of one manager write events   *)
(* with different ids; and, where no manager both writes and reads, that   *)
(* no two threads have one buffer, no call detaches, and no threads wait   *)
(* for each other in a circle.                                             *)
(***************************************************************************)
EXTENDS ManagerThreads, TLAPS

\* One process writes.
OneWritingManager == \A t, u \in Producers : M(t) = M(u)

\* No process both writes and reads.
SeparateRoles == \A t \in Producers, u \in Consumers : M(t) # M(u)

-----------------------------------------------------------------------------
(* The invariants *)

Claiming == {"cas_id", "cas_sem", "check", "store_seq"}
Searching == {"scan", "load", "reload"} \cup Claiming
Handling == {"lock", "copy", "store_sem", "store_id"}

\* search_mutex_ is what lets a thread search.
SearchInv == \A t \in Threads : frame[t].pc \in Searching => search_mutex[M(t)] = t

Readers == {"GetBufferForReading", "Read", "MarkBufferEmpty"}
Writers == {"GetBufferForWriting", "Write", "MarkBufferFull"}

\* The points of a call, and who makes it.
FrameOK(t, f) ==
    /\ f.pc \in Claiming \cup Handling => f.buf \in Buffers
    /\ f.pc = "reload" => f.call = "GetBufferForReading"
    /\ f.pc = "store_seq" => f.call = "GetBufferForWriting"
    /\ f.pc \in Claiming => f.call \in {"GetBufferForReading", "GetBufferForWriting"}
    /\ f.pc \in Searching \cup {"search", "register"} => f.call \in Searches
    /\ f.pc \in {"search", "register"} => f.buf = NoBuffer
    /\ f.pc = "lock" => f.call \in Uses
    /\ f.pc = "copy" => f.call \in {"Write", "Read"}
    /\ f.pc \in {"store_sem", "store_id"} => f.call \in {"MarkBufferFull", "MarkBufferEmpty"}
    /\ f.call = "GetBufferForWriting" => f.id = NoOne
    /\ f.pc = "cas_id" => f.id \in {NoOne, M(t)}
    /\ f.call \in Readers => t \in Consumers
    /\ f.call \in Writers => t \in Producers

CallInv ==
    \A t \in Threads :
        /\ FrameOK(t, frame[t])
        /\ writing[t] # NoBuffer => t \in Producers
        /\ reading[t] # NoBuffer => t \in Consumers
        /\ frame[t].call = "MarkBufferFull" => writing[t] = NoBuffer
        /\ frame[t].call = "MarkBufferEmpty" => reading[t] = NoBuffer

\* Every id that was given out is below the next one.
IdInv ==
    /\ \A t \in Threads : frame[t].pc = "store_seq" => frame[t].seq = next_sequence_id + 1
    /\ \A b \in Buffers : sequence_id[b] <= next_sequence_id

HasToWrite(t, b) ==
    \/ writing[t] = b
    \/ /\ frame[t].buf = b
       /\ \/ frame[t].call \in {"Write", "MarkBufferFull"} /\ frame[t].pc \in {"lock", "copy", "store_sem"}
          \/ frame[t].call = "GetBufferForWriting" /\ frame[t].pc \in {"check", "store_seq"}

HasRead(t, b) ==
    \/ reading[t] = b
    \/ /\ frame[t].buf = b /\ frame[t].call \in {"Read", "MarkBufferEmpty"}
       /\ frame[t].pc \in {"lock", "copy", "store_sem"}

HasToRead(t, b) ==
    \/ HasRead(t, b)
    \/ frame[t].buf = b /\ frame[t].call = "GetBufferForReading" /\ frame[t].pc = "check"

Leaves(t, b) == frame[t].buf = b /\ frame[t].pc = "store_id"

\* The thread that has a buffer, from the second compare-and-swap on to the store of
\* another owner.
Has(t, b) == HasToWrite(t, b) \/ HasToRead(t, b) \/ Leaves(t, b)

LeftAs(t) == IF frame[t].call = "MarkBufferEmpty" /\ destructive_read_mode THEN "Empty" ELSE "Full"

\* Its manager is on the buffer.
OwnedInv ==
    \A t \in Threads, b \in Buffers :
        /\ HasToWrite(t, b) => Holds(t, b, "Writing")
        /\ HasToRead(t, b) => Holds(t, b, "Reading")
        /\ Leaves(t, b) => Holds(t, b, LeftAs(t))

AloneInv == \A t, u \in Threads, b \in Buffers : Has(t, b) /\ Has(u, b) => t = u

Candidate(t, b) ==
    /\ frame[t].buf = b /\ frame[t].pc \in {"scan", "load", "reload", "cas_id", "cas_sem"}

\* No thread of the same process has the buffer that a search wants: it is this that
\* the owner on the buffer does not tell.
CandidateInv ==
    \A t, u \in Threads, b \in Buffers : Candidate(t, b) /\ M(t) = M(u) => ~Has(u, b)

ClaimInv == \A t \in Threads : frame[t].pc = "cas_sem" => sem_id[frame[t].buf] = M(t)

\* In broadcast mode the manager has seen what its threads have read, and a search goes
\* for what it has not.
Wants(t, b) ==
    /\ frame[t].buf = b /\ frame[t].call = "GetBufferForReading"
    /\ frame[t].pc \in {"scan", "load", "reload", "cas_id", "cas_sem", "check"}

HasSeen(t, b) == HasRead(t, b) \/ (Leaves(t, b) /\ frame[t].call = "MarkBufferEmpty")

SeenInv ==
    ~destructive_read_mode =>
        \A t \in Threads, b \in Buffers :
            /\ HasSeen(t, b) => sequence_id[b] <= last_seen_id[M(t)]
            /\ Wants(t, b) => /\ frame[t].seq = sequence_id[b]
                             /\ sequence_id[b] > last_seen_id[M(t)]
                             /\ sem[b] \in {"Full", "Reading"}

NoDetach == \A t \in Threads : frame[t].pc # "detach"

BufferInv ==
    /\ SearchInv /\ CallInv /\ NoDetach
    /\ OwnedInv /\ AloneInv /\ CandidateInv /\ ClaimInv /\ SeenInv

-----------------------------------------------------------------------------
(* Types *)

\* NoBuffer is no buffer.
LEMMA BuffersInt == 0 \in Buffers /\ Buffers \subseteq Nat /\ NoBuffer \notin Buffers
  BY BuffersAssumption DEF Buffers, NoBuffer

\* A thread calls a manager, and -1 is none.
LEMMA OwnManager == \A t \in Threads : M(t) \in Managers /\ M(t) \in Nat /\ M(t) # NoOne
  BY ThreadsAssumption DEF M, Managers, NoOne

\* A thread that makes no call has a frame.
LEMMA IdleType == Idle \in Frames
  BY BuffersInt DEF Idle, Frames, Points, NoBuffer, NoOne

\* Where a scan is.
LEMMA VisitedBuffer == ASSUME TypeOK, NEW t \in Threads PROVE Visited(t) \in Buffers
  <1>1. frame[t].pos \in Nat /\ frame[t].ii \in Nat
    BY BuffersInt DEF TypeOK, Frames
  <1>2. \A n \in Nat \ {0}, x \in Nat : x % n \in 0 .. (n - 1)
    OBVIOUS
  <1>3. frame[t].pos + frame[t].ii \in Nat
    BY <1>1
  <1> QED BY <1>2, <1>3, BuffersAssumption DEF Visited, Buffers

\* What is written into a frame is a frame.
LEMMA GotoType ==
  ASSUME TypeOK, NEW t \in Threads, NEW f \in Frames, Goto(t, f)
  PROVE  frame' \in [Threads -> Frames]
  BY DEF TypeOK, Goto

\* A new point in the same call.
LEMMA SetType ==
  ASSUME TypeOK, NEW t \in Threads, NEW point \in Points, Set(t, point)
  PROVE  frame' \in [Threads -> Frames]
  <1>1. [frame[t] EXCEPT !.pc = point] \in Frames
    BY DEF TypeOK, Frames
  <1> QED BY <1>1, GotoType DEF Set

SearchType == frame' \in [Threads -> Frames] /\ search_mutex' \in [Managers -> Threads \cup {NoThread}]

\* The ends of a search, and the ways it goes on, keep the types.
LEMMA ReturnType == ASSUME TypeOK, NEW t \in Threads, Return(t) PROVE SearchType
  <1>1. frame' \in [Threads -> Frames]
    BY IdleType, GotoType DEF Return
  <1> QED BY <1>1, OwnManager DEF Return, TypeOK, SearchType

\* After a buffer.
LEMMA NextBufferType ==
  ASSUME TypeOK, NEW t \in Threads, NEW f \in Frames, NextBuffer(t, f) PROVE SearchType
  <1>1. f.ii + 1 \in Nat
    BY DEF Frames
  <1>2. /\ [f EXCEPT !.pc = "scan", !.ii = f.ii + 1] \in Frames
        /\ [f EXCEPT !.pc = "reload"] \in Frames
    BY <1>1 DEF Frames, Points
  <1> QED BY <1>2, GotoType, ReturnType DEF NextBuffer, TypeOK, SearchType

\* After a failed claim.
LEMMA ContinueType == ASSUME TypeOK, NEW t \in Threads, Continue(t) PROVE SearchType
  <1>1. frame[t] \in Frames
    BY DEF TypeOK
  <1>2. frame[t].retry + 1 \in Nat
    BY <1>1 DEF Frames
  <1>3. /\ [frame[t] EXCEPT !.buf = NoBuffer] \in Frames
        /\ [frame[t] EXCEPT !.pc = "scan", !.buf = NoBuffer, !.seq = 0,
                            !.ii = 0, !.retry = frame[t].retry + 1] \in Frames
    BY <1>1, <1>2 DEF Frames, Points
  <1> QED BY <1>3, GotoType, ReturnType, NextBufferType DEF Continue, TypeOK, SearchType

\* The searches keep the types.
LEMMA SearchTypes == ASSUME TypeOK, NEW t \in Threads, Search(t) PROVE TypeOK'
  <1>1. frame[t] \in Frames /\ Visited(t) \in Buffers
    BY VisitedBuffer DEF TypeOK
  <1>2. CASE Register(t)
    <2>1. frame' \in [Threads -> Frames]
      BY <1>2, SetType DEF Register, Points
    <2> QED BY <1>2, <2>1, OwnManager DEF Register, TypeOK, mutexes, clients
  <1>3. CASE ResetBuffer(t)
    <2>1. frame' \in [Threads -> Frames]
      BY <1>3, SetType DEF ResetBuffer, Points
    <2> QED BY <1>3, <2>1 DEF ResetBuffer, TypeOK, segment, mutexes, managers, clients
  <1>4. CASE LoadForReading(t)
    <2> DEFINE b == Visited(t)
               found == [frame[t] EXCEPT !.buf = b, !.seq = sequence_id[b]]
    <2>1. found \in Frames /\ [found EXCEPT !.pc = "reload"] \in Frames
      BY <1>1 DEF TypeOK, Frames, Points
    <2>2. SearchType
      BY <1>1, <1>4, <2>1, GotoType, NextBufferType DEF LoadForReading, TypeOK, SearchType
    <2> QED BY <1>4, <2>2 DEF LoadForReading, TypeOK, SearchType, segment, managers, clients
  <1>5. CASE LoadForWriting(t)
    <2>1. [frame[t] EXCEPT !.pc = "cas_id", !.buf = Visited(t)] \in Frames
      BY <1>1 DEF Frames, Points
    <2>2. SearchType
      BY <1>1, <1>5, <2>1, GotoType, NextBufferType DEF LoadForWriting, TypeOK, SearchType
    <2> QED BY <1>5, <2>2 DEF LoadForWriting, TypeOK, SearchType, segment, managers, clients
  <1>6. CASE LoadToAsk(t)
    <2>1. SearchType
      BY <1>1, <1>6, ReturnType, NextBufferType DEF LoadToAsk
    <2> QED BY <1>6, <2>1 DEF LoadToAsk, TypeOK, SearchType, segment, managers, clients
  <1>7. CASE Reload(t)
    <2>1. CASE frame[t].buf # NoBuffer
      <3>1. frame[t].buf \in Buffers
        BY <1>1, <2>1 DEF Frames
      <3>2. [frame[t] EXCEPT !.pc = "cas_id", !.id = sem_id[frame[t].buf],
                             !.seq = sequence_id[frame[t].buf]] \in Frames
        BY <1>1, <3>1 DEF TypeOK, Frames, Points
      <3>3. SearchType
        BY <1>7, <3>2, GotoType, ContinueType DEF Reload, TypeOK, SearchType
      <3> QED BY <1>7, <3>3 DEF Reload, TypeOK, SearchType, segment, managers, clients
    <2>2. CASE frame[t].buf = NoBuffer
      <3>1. SearchType
        BY <1>7, <2>2, ContinueType DEF Reload
      <3> QED BY <1>7, <3>1 DEF Reload, TypeOK, SearchType, segment, managers, clients
    <2> QED BY <2>1, <2>2
  <1>8. CASE CasId(t)
    <2>1. SearchType
      BY <1>8, SetType, ContinueType DEF CasId, Points, TypeOK, SearchType
    <2>2. sem_id' \in [Buffers -> Managers \cup {NoOne}]
      BY <1>8, OwnManager DEF CasId, TypeOK
    <2> QED BY <1>8, <2>1, <2>2 DEF CasId, TypeOK, SearchType, managers, clients
  <1>9. CASE CasSem(t)
    <2>1. SearchType
      BY <1>9, SetType, ContinueType DEF CasSem, Points, TypeOK, SearchType
    <2>2. sem' \in [Buffers -> {"Empty", "Writing", "Full", "Reading"}]
      BY <1>9 DEF CasSem, TypeOK
    <2> QED BY <1>9, <2>1, <2>2 DEF CasSem, TypeOK, SearchType, managers, clients
  <1>10. CASE CheckReading(t)
    <2>1. SearchType
      BY <1>10, ReturnType, ContinueType DEF CheckReading
    <2>2. /\ reading' \in [Threads -> Buffers \cup {NoBuffer}]
          /\ last_seen_id' \in [Managers -> Nat]
      BY <1>1, <1>10, OwnManager DEF CheckReading, TypeOK, Frames
    <2> QED BY <1>10, <2>1, <2>2 DEF CheckReading, TypeOK, SearchType, segment
  <1>11. CASE CheckWriting(t)
    <2>1. next_sequence_id + 1 \in Nat
      BY DEF TypeOK
    <2>2. [frame[t] EXCEPT !.pc = "store_seq", !.seq = next_sequence_id + 1] \in Frames
      BY <1>1, <2>1 DEF Frames, Points
    <2>3. SearchType
      BY <1>11, <2>2, GotoType, ContinueType DEF CheckWriting, TypeOK, SearchType
    <2> QED BY <1>11, <2>3 DEF CheckWriting, TypeOK, SearchType, segment, managers, clients
  <1>12. CASE StoreSequenceId(t)
    <2>1. SearchType
      BY <1>12, ReturnType, ContinueType DEF StoreSequenceId
    <2>2. /\ writing' \in [Threads -> Buffers \cup {NoBuffer}]
          /\ next_sequence_id' \in Nat /\ sequence_id' \in [Buffers -> Nat]
      BY <1>1, <1>12 DEF StoreSequenceId, TypeOK, Frames
    <2> QED BY <1>12, <2>1, <2>2 DEF StoreSequenceId, TypeOK, SearchType, managers
  <1> QED BY <1>2, <1>3, <1>4, <1>5, <1>6, <1>7, <1>8, <1>9, <1>10, <1>11, <1>12 DEF Search

\* So do the mutexes and what is done with a buffer.
LEMMA UseTypes ==
  ASSUME TypeOK, CallInv, NEW t \in Threads, LockSearch(t) \/ LockForUse(t) \/ UseBuffer(t)
  PROVE  TypeOK'
  <1>1. frame[t] \in Frames
    BY DEF TypeOK
  <1>2. CASE LockSearch(t)
    <2>1. \A b \in Buffers : [frame[t] EXCEPT !.pc = "scan", !.pos = b] \in Frames
      BY <1>1 DEF Frames, Points
    <2>2. frame' \in [Threads -> Frames]
      BY <1>2, <2>1, GotoType DEF LockSearch
    <2> QED BY <1>2, <2>2, OwnManager DEF LockSearch, TypeOK, segment, managers, clients
  <1>3. CASE LockForUse(t)
    <2>1. frame' \in [Threads -> Frames]
      BY <1>3, IdleType, GotoType, SetType DEF LockForUse, Points
    <2>2. buffer_mutexes' \in [Managers -> [Buffers -> Threads \cup {NoThread}]]
      <3>1. CASE UNCHANGED buffer_mutexes
        BY <3>1 DEF TypeOK
      <3>2. CASE LockBuffer(t, frame[t].buf)
        BY <3>2, OwnManager DEF LockBuffer, TypeOK
      <3> QED BY <1>3, <3>1, <3>2 DEF LockForUse
    <2> QED BY <1>3, <2>1, <2>2 DEF LockForUse, TypeOK, segment, managers, clients
  <1>4. CASE CopyEnd(t)
    <2>1. frame' \in [Threads -> Frames]
      BY <1>4, IdleType, GotoType DEF CopyEnd
    <2>2. buffer_mutexes' \in [Managers -> [Buffers -> Threads \cup {NoThread}]]
      BY <1>4, OwnManager DEF CopyEnd, UnlockBuffer, TypeOK
    <2>3. last_seen_id' \in [Managers -> Nat]
      <3>1. frame[t].buf \in Buffers
        BY <1>4 DEF CopyEnd, At, CallInv, FrameOK, Handling
      <3> QED BY <1>4, <3>1, OwnManager DEF CopyEnd, TypeOK
    <2> QED BY <1>4, <2>1, <2>2, <2>3 DEF CopyEnd, TypeOK, segment, clients
  <1>5. CASE StoreSem(t)
    <2>1. frame' \in [Threads -> Frames]
      BY <1>5, SetType DEF StoreSem, Points
    <2>2. sem' \in [Buffers -> {"Empty", "Writing", "Full", "Reading"}]
      BY <1>5 DEF StoreSem, MarkSem, TypeOK
    <2> QED BY <1>5, <2>1, <2>2 DEF StoreSem, TypeOK, mutexes, managers, clients
  <1>6. CASE StoreId(t)
    <2>1. frame' \in [Threads -> Frames]
      BY <1>6, IdleType, GotoType DEF StoreId
    <2>2. buffer_mutexes' \in [Managers -> [Buffers -> Threads \cup {NoThread}]]
      BY <1>6, OwnManager DEF StoreId, UnlockBuffer, TypeOK
    <2>3. sem_id' \in [Buffers -> Managers \cup {NoOne}]
      BY <1>1, <1>6 DEF StoreId, TypeOK, Frames
    <2> QED BY <1>6, <2>1, <2>2, <2>3 DEF StoreId, TypeOK, managers, clients
  <1> QED BY <1>2, <1>3, <1>4, <1>5, <1>6 DEF UseBuffer

\* And so do the calls.
LEMMA ClientTypes == ASSUME TypeOK, NEW t \in Threads, Client(t) PROVE TypeOK'
  <1>1. \A c \in Searches : [Idle EXCEPT !.call = c, !.pc = "search"] \in Frames
    BY IdleType DEF Frames, Points
  <1>2. CASE GetBufferForReading(t)
    <2>1. \A point \in {"search", "register"} :
            [Idle EXCEPT !.call = "GetBufferForReading", !.pc = point] \in Frames
      BY IdleType DEF Frames, Points, Searches
    <2>2. frame' \in [Threads -> Frames]
      BY <1>2, <2>1, GotoType DEF GetBufferForReading
    <2> QED BY <1>2, <2>2 DEF GetBufferForReading, TypeOK, segment, mutexes, managers, clients
  <1>3. CASE GetBufferForWriting(t)
    <2>1. frame' \in [Threads -> Frames]
      BY <1>1, <1>3, GotoType DEF GetBufferForWriting, Searches
    <2> QED BY <1>3, <2>1 DEF GetBufferForWriting, TypeOK, segment, mutexes, managers, clients
  <1>4. CASE ReadyForRead(t)
    <2>1. frame' \in [Threads -> Frames]
      BY <1>1, <1>4, GotoType DEF ReadyForRead, Searches
    <2> QED BY <1>4, <2>1 DEF ReadyForRead, TypeOK, segment, mutexes, managers, clients
  <1>5. \A c \in Uses, b \in Buffers, i \in Managers \cup {NoOne} :
          Use(t, c, b, i) => frame' \in [Threads -> Frames]
    <2>1. \A c \in Uses, b \in Buffers, i \in Managers \cup {NoOne} :
            [Idle EXCEPT !.call = c, !.pc = "lock", !.buf = b, !.id = i] \in Frames
      BY IdleType DEF Frames, Points
    <2> QED BY <2>1, GotoType DEF Use
  <1>6. CASE Write(t)
    <2>1. frame' \in [Threads -> Frames]
      BY <1>5, <1>6 DEF Write, TypeOK, Uses
    <2> QED BY <1>6, <2>1 DEF Write, Use, TypeOK, segment, mutexes, managers, clients
  <1>7. CASE Read(t)
    <2>1. frame' \in [Threads -> Frames]
      BY <1>5, <1>7 DEF Read, TypeOK, Uses
    <2> QED BY <1>7, <2>1 DEF Read, Use, TypeOK, segment, mutexes, managers, clients
  <1>8. CASE MarkBufferEmpty(t)
    <2>1. frame' \in [Threads -> Frames]
      BY <1>5, <1>8 DEF MarkBufferEmpty, TypeOK, Uses
    <2> QED BY <1>8, <2>1 DEF MarkBufferEmpty, Use, TypeOK, segment, mutexes, managers
  <1>9. ASSUME NEW d \in Destinations, MarkBufferFull(t, d) PROVE TypeOK'
    <2>1. frame' \in [Threads -> Frames]
      BY <1>5, <1>9, BuffersAssumption DEF MarkBufferFull, TypeOK, Uses
    <2> QED BY <1>9, <2>1 DEF MarkBufferFull, Use, TypeOK, segment, mutexes, managers
  <1> QED BY <1>2, <1>3, <1>4, <1>6, <1>7, <1>8, <1>9 DEF Client

-----------------------------------------------------------------------------
(* Who makes which call, and who has a search mutex *)

\* A step changes one thread's frame.
LEMMA OneFrame ==
  ASSUME TypeOK, NEW t \in Threads, Step(t) \/ Client(t)
  PROVE  /\ \A u \in Threads : u # t => frame'[u] = frame[u]
         /\ \A u \in Threads : u # t => writing'[u] = writing[u] /\ reading'[u] = reading[u]
  <1>1. \A f : Goto(t, f) => \A u \in Threads : u # t => frame'[u] = frame[u]
    BY DEF Goto, TypeOK
  <1>2. \A point : Set(t, point) => \A u \in Threads : u # t => frame'[u] = frame[u]
    BY <1>1 DEF Set
  <1>3. Return(t) => \A u \in Threads : u # t => frame'[u] = frame[u]
    BY <1>1 DEF Return
  <1>4. \A f : NextBuffer(t, f) => \A u \in Threads : u # t => frame'[u] = frame[u]
    BY <1>1, <1>3 DEF NextBuffer
  <1>5. Continue(t) => \A u \in Threads : u # t => frame'[u] = frame[u]
    BY <1>1, <1>3, <1>4 DEF Continue
  <1>6. CASE Search(t)
    BY <1>6, <1>1, <1>2, <1>3, <1>4, <1>5
       DEF Search, Register, ResetBuffer, LoadForReading, LoadForWriting, LoadToAsk, Reload, CasId,
           CasSem, CheckReading, CheckWriting, StoreSequenceId, clients, TypeOK
  <1>7. CASE LockSearch(t) \/ LockForUse(t) \/ UseBuffer(t)
    BY <1>7, <1>1, <1>2
       DEF LockSearch, LockForUse, UseBuffer, CopyEnd, StoreSem, StoreId, clients
  <1>8. CASE Client(t)
    BY <1>8, <1>1
       DEF Client, GetBufferForReading, GetBufferForWriting, ReadyForRead, Write, Read,
           MarkBufferFull, MarkBufferEmpty, Use, clients, TypeOK
  <1> QED BY <1>6, <1>7, <1>8 DEF Step

Releases(t) == search_mutex' = [search_mutex EXCEPT ![M(t)] = NoThread]

\* How a search goes on after a buffer, and with which candidate; or it ends.
GoesOn(t, buf, seq) ==
    \/ frame'[t] = Idle /\ Releases(t)
    \/ /\ UNCHANGED search_mutex
       /\ frame'[t].call = frame[t].call /\ frame'[t].id = frame[t].id
       /\ frame'[t].buf = buf
       /\ buf # NoBuffer => frame'[t].seq = seq
       /\ frame'[t].pc = "scan" \/ (frame'[t].pc = "reload" /\ frame[t].call = "GetBufferForReading")

\* What a step writes is what the frame is then.
LEMMA FrameOf ==
  ASSUME TypeOK, NEW t \in Threads
  PROVE  /\ \A f : Goto(t, f) => frame'[t] = f
         /\ \A point : Set(t, point) => frame'[t] = [frame[t] EXCEPT !.pc = point]
         /\ frame[t] \in Frames
  BY DEF Goto, Set, TypeOK

\* NextBuffer goes on with the candidate it is given.
LEMMA NextBufferGoesOn ==
  ASSUME TypeOK, NEW t \in Threads, NEW f \in Frames, f.call = frame[t].call, f.id = frame[t].id,
         NextBuffer(t, f)
  PROVE  GoesOn(t, f.buf, f.seq)
  <1>1. \/ frame'[t] = Idle /\ Releases(t)
        \/ frame'[t] = [f EXCEPT !.pc = "scan", !.ii = f.ii + 1] /\ UNCHANGED search_mutex
        \/ /\ f.call = "GetBufferForReading"
           /\ frame'[t] = [f EXCEPT !.pc = "reload"] /\ UNCHANGED search_mutex
    BY FrameOf DEF NextBuffer, Return, Releases
  <1>2. CASE frame'[t] = [f EXCEPT !.pc = "scan", !.ii = f.ii + 1] /\ UNCHANGED search_mutex
    BY <1>2 DEF GoesOn, Frames
  <1>3. CASE /\ f.call = "GetBufferForReading"
             /\ frame'[t] = [f EXCEPT !.pc = "reload"] /\ UNCHANGED search_mutex
    BY <1>3 DEF GoesOn, Frames
  <1> QED BY <1>1, <1>2, <1>3 DEF GoesOn

\* A "continue" goes on without a candidate.
LEMMA ContinueGoesOn ==
  ASSUME TypeOK, NEW t \in Threads, Continue(t) PROVE GoesOn(t, NoBuffer, 0)
  <1>1. frame[t] \in Frames
    BY DEF TypeOK
  <1>2. CASE frame[t].call = "GetBufferForWriting"
    <2> DEFINE f == [frame[t] EXCEPT !.buf = NoBuffer]
    <2>1. f \in Frames /\ f.call = frame[t].call /\ f.id = frame[t].id /\ f.buf = NoBuffer /\ NextBuffer(t, f)
      BY <1>1, <1>2 DEF Frames, Continue
    <2> HIDE DEF f
    <2>2. GoesOn(t, f.buf, f.seq)
      BY <2>1, NextBufferGoesOn
    <2> QED BY <2>1, <2>2 DEF GoesOn
  <1>3. CASE frame[t].call # "GetBufferForWriting"
    <2> DEFINE g == [frame[t] EXCEPT !.pc = "scan", !.buf = NoBuffer, !.seq = 0,
                                     !.ii = 0, !.retry = frame[t].retry + 1]
    <2>1. \/ frame'[t] = Idle /\ Releases(t)
          \/ frame'[t] = g /\ UNCHANGED search_mutex
      BY <1>3, FrameOf DEF Continue, Return, Releases
    <2>2. g.call = frame[t].call /\ g.id = frame[t].id /\ g.buf = NoBuffer /\ g.pc = "scan"
      BY <1>1 DEF Frames
    <2> HIDE DEF g
    <2> QED BY <2>1, <2>2 DEF GoesOn
  <1> QED BY <1>2, <1>3

\* What each step of a search makes of the thread's frame.
LEMMA SearchFrames ==
  ASSUME TypeOK, NEW t \in Threads
  PROVE  LET f == frame[t]
             g == frame'[t]
             b == Visited(t) IN
         /\ Register(t) => UNCHANGED search_mutex /\ g = [f EXCEPT !.pc = "search"]
         /\ ResetBuffer(t) => UNCHANGED search_mutex /\ g = [f EXCEPT !.pc = "load"]
         /\ LoadForReading(t) =>
               \/ GoesOn(t, f.buf, f.seq)
               \/ /\ Readable(t, b)
                  /\ \/ GoesOn(t, b, sequence_id[b])
                     \/ /\ UNCHANGED search_mutex
                        /\ g = [f EXCEPT !.pc = "reload", !.buf = b, !.seq = sequence_id[b]]
         /\ LoadForWriting(t) =>
               \/ GoesOn(t, f.buf, f.seq)
               \/ /\ sem[b] = "Empty" /\ sem_id[b] = NoOne
                  /\ UNCHANGED search_mutex /\ g = [f EXCEPT !.pc = "cas_id", !.buf = b]
         /\ LoadToAsk(t) => GoesOn(t, f.buf, f.seq)
         /\ Reload(t) =>
               \/ GoesOn(t, NoBuffer, 0)
               \/ /\ f.buf # NoBuffer /\ sem[f.buf] = "Full" /\ sem_id[f.buf] \in {NoOne, M(t)}
                  /\ UNCHANGED search_mutex
                  /\ g = [f EXCEPT !.pc = "cas_id", !.id = sem_id[f.buf], !.seq = sequence_id[f.buf]]
  <1> DEFINE f == frame[t]
             b == Visited(t)
             found == [f EXCEPT !.buf = b, !.seq = sequence_id[b]]
  <1>1. f \in Frames /\ b \in Buffers
    BY VisitedBuffer DEF TypeOK
  <1>2. found \in Frames /\ found.call = f.call /\ found.id = f.id /\ found.buf = b /\ found.seq = sequence_id[b]
    BY <1>1 DEF TypeOK, Frames
  <1>3. NextBuffer(t, f) => GoesOn(t, f.buf, f.seq)
    BY <1>1, NextBufferGoesOn
  <1>4. NextBuffer(t, found) => GoesOn(t, b, sequence_id[b])
    <2> HIDE DEF found
    <2> QED BY <1>2, NextBufferGoesOn
  <1>5. Register(t) => UNCHANGED search_mutex /\ frame'[t] = [f EXCEPT !.pc = "search"]
    BY FrameOf DEF Register, mutexes
  <1>6. ResetBuffer(t) => UNCHANGED search_mutex /\ frame'[t] = [f EXCEPT !.pc = "load"]
    BY FrameOf DEF ResetBuffer, mutexes
  <1>7. ASSUME LoadForReading(t)
        PROVE  \/ GoesOn(t, f.buf, f.seq)
               \/ /\ Readable(t, b)
                  /\ \/ GoesOn(t, b, sequence_id[b])
                     \/ /\ UNCHANGED search_mutex
                        /\ frame'[t] = [f EXCEPT !.pc = "reload", !.buf = b, !.seq = sequence_id[b]]
    <2>1. \/ NextBuffer(t, f)
          \/ Readable(t, b) /\ Goto(t, [found EXCEPT !.pc = "reload"]) /\ UNCHANGED search_mutex
          \/ Readable(t, b) /\ NextBuffer(t, found)
      BY <1>7 DEF LoadForReading
    <2>2. [found EXCEPT !.pc = "reload"] = [f EXCEPT !.pc = "reload", !.buf = b, !.seq = sequence_id[b]]
      BY <1>1 DEF Frames
    <2> HIDE DEF found
    <2> QED BY <2>1, <2>2, <1>3, <1>4, FrameOf
  <1>8. LoadForWriting(t) =>
               \/ GoesOn(t, f.buf, f.seq)
               \/ /\ sem[b] = "Empty" /\ sem_id[b] = NoOne /\ UNCHANGED search_mutex
                  /\ frame'[t] = [f EXCEPT !.pc = "cas_id", !.buf = b]
    BY <1>3, FrameOf DEF LoadForWriting
  <1>9. Return(t) => GoesOn(t, f.buf, f.seq)
    BY FrameOf DEF Return, GoesOn, Releases
  <1>10. LoadToAsk(t) => GoesOn(t, f.buf, f.seq)
    BY <1>3, <1>9 DEF LoadToAsk
  <1>11. Reload(t) =>
               \/ GoesOn(t, NoBuffer, 0)
               \/ /\ f.buf # NoBuffer /\ sem[f.buf] = "Full" /\ sem_id[f.buf] \in {NoOne, M(t)}
                  /\ UNCHANGED search_mutex
                  /\ frame'[t] = [f EXCEPT !.pc = "cas_id", !.id = sem_id[f.buf],
                                           !.seq = sequence_id[f.buf]]
    BY ContinueGoesOn, FrameOf DEF Reload
  <1> HIDE DEF found
  <1> QED BY <1>5, <1>6, <1>7, <1>8, <1>10, <1>11

\* What each step of a claim makes of it.
LEMMA ClaimFrames ==
  ASSUME TypeOK, NEW t \in Threads
  PROVE  LET f == frame[t]
             g == frame'[t] IN
         /\ CasId(t) =>
               \/ sem_id[f.buf] # f.id /\ UNCHANGED sem_id /\ GoesOn(t, NoBuffer, 0)
               \/ /\ sem_id[f.buf] = f.id /\ sem_id' = [sem_id EXCEPT ![f.buf] = M(t)]
                  /\ UNCHANGED search_mutex /\ g = [f EXCEPT !.pc = "cas_sem"]
         /\ CasSem(t) =>
               \/ UNCHANGED sem /\ GoesOn(t, NoBuffer, 0)
               \/ UNCHANGED search_mutex /\ g = [f EXCEPT !.pc = "check"]
         /\ CheckReading(t) =>
               \/ UNCHANGED <<reading, last_seen_id>> /\ GoesOn(t, NoBuffer, 0)
               \/ Releases(t) /\ g = Idle /\ reading' = [reading EXCEPT ![t] = f.buf]
         /\ CheckWriting(t) =>
               \/ GoesOn(t, NoBuffer, 0)
               \/ /\ UNCHANGED search_mutex
                  /\ g = [f EXCEPT !.pc = "store_seq", !.seq = next_sequence_id + 1]
         /\ StoreSequenceId(t) =>
               \/ UNCHANGED writing /\ GoesOn(t, NoBuffer, 0)
               \/ Releases(t) /\ g = Idle /\ writing' = [writing EXCEPT ![t] = f.buf]
  <1>1. Continue(t) => GoesOn(t, NoBuffer, 0)
    BY ContinueGoesOn
  <1> QED BY <1>1, FrameOf DEF CasId, CasSem, CheckReading, CheckWriting, StoreSequenceId, Return, Releases
-----------------------------------------------------------------------------
(* The calls, and the search mutex *)

\* Each step leads to a point of the same call, or ends it.
LEMMA CallStep ==
  ASSUME TypeOK, CallInv, NEW t \in Threads, Step(t) \/ Client(t) PROVE CallInv'
  <1> USE DEF Claiming, Searching, Handling
  <1> DEFINE f == frame[t]
             g == frame'[t]
             ClientOK(u) == /\ FrameOK(u, frame'[u])
                            /\ writing'[u] # NoBuffer => u \in Producers
                            /\ reading'[u] # NoBuffer => u \in Consumers
                            /\ frame'[u].call = "MarkBufferFull" => writing'[u] = NoBuffer
                            /\ frame'[u].call = "MarkBufferEmpty" => reading'[u] = NoBuffer
  <1>1. ASSUME NEW u \in Threads, u # t PROVE ClientOK(u)
    <2>1. frame'[u] = frame[u] /\ writing'[u] = writing[u] /\ reading'[u] = reading[u]
      BY <1>1, OneFrame
    <2> QED BY <2>1 DEF CallInv
  <1>2. /\ FrameOK(t, f) /\ f \in Frames
        /\ writing[t] # NoBuffer => t \in Producers
        /\ reading[t] # NoBuffer => t \in Consumers
        /\ f.call = "MarkBufferFull" => writing[t] = NoBuffer
        /\ f.call = "MarkBufferEmpty" => reading[t] = NoBuffer
    BY DEF CallInv, TypeOK
  <1>3. \A buf, seq : GoesOn(t, buf, seq) /\ f.pc \in Searching /\ UNCHANGED <<writing, reading>>
                      => ClientOK(t)
    BY <1>2 DEF FrameOK, GoesOn, Idle, M, Readers, Writers
  <1>4. ASSUME Register(t) \/ ResetBuffer(t)
         PROVE  ClientOK(t)
    <2>1. UNCHANGED <<writing, reading>>
      BY <1>4 DEF Register, ResetBuffer, clients
    <2>2. CASE Register(t)
      <3>1. g = [f EXCEPT !.pc = "search"] /\ f.pc = "register"
        BY <2>2, SearchFrames DEF Register, At
      <3> QED BY <1>2, <2>1, <3>1 DEF FrameOK, Frames
    <2>3. CASE ResetBuffer(t)
      <3>1. g = [f EXCEPT !.pc = "load"] /\ f.pc = "scan"
        BY <2>3, SearchFrames DEF ResetBuffer, At
      <3> QED BY <1>2, <2>1, <3>1 DEF FrameOK, Frames
    <2> QED BY <1>4, <2>2, <2>3
  <1>5. ASSUME LoadForReading(t) \/ LoadForWriting(t) \/ LoadToAsk(t)
         PROVE  ClientOK(t)
    <2>1. f.pc = "load" /\ UNCHANGED <<writing, reading>>
      BY <1>5 DEF LoadForReading, LoadForWriting, LoadToAsk, At, clients
    <2>2. \A buf, seq : GoesOn(t, buf, seq) => ClientOK(t)
      BY <1>3, <2>1
    <2>3. \/ \E buf, seq : GoesOn(t, buf, seq)
          \/ \E b \in Buffers : /\ f.call = "GetBufferForReading"
                /\ g = [f EXCEPT !.pc = "reload", !.buf = b, !.seq = sequence_id[b]]
          \/ \E b \in Buffers : /\ f.call = "GetBufferForWriting"
                /\ g = [f EXCEPT !.pc = "cas_id", !.buf = b]
      <3>1. Visited(t) \in Buffers
        BY VisitedBuffer
      <3>2. /\ LoadForReading(t) => f.call = "GetBufferForReading"
            /\ LoadForWriting(t) => f.call = "GetBufferForWriting"
        BY DEF LoadForReading, LoadForWriting
      <3> QED BY <1>5, <3>1, <3>2, SearchFrames
    <2> QED BY <1>2, <2>1, <2>2, <2>3 DEF FrameOK, Frames, Readers, Writers
  <1>6. ASSUME Reload(t)
         PROVE  ClientOK(t)
    <2>1. f.pc = "reload" /\ UNCHANGED <<writing, reading>>
      BY <1>6 DEF Reload, At, clients
    <2>2. \/ GoesOn(t, NoBuffer, 0)
          \/ /\ f.buf # NoBuffer /\ sem_id[f.buf] \in {NoOne, M(t)}
             /\ g = [f EXCEPT !.pc = "cas_id", !.id = sem_id[f.buf], !.seq = sequence_id[f.buf]]
      BY <1>6, SearchFrames
    <2>3. CASE GoesOn(t, NoBuffer, 0)
      BY <1>3, <2>1, <2>3
    <2> QED BY <1>2, <2>1, <2>2, <2>3 DEF FrameOK, Frames, Readers, Writers
  <1>7. ASSUME CasId(t) \/ CasSem(t) \/ CheckWriting(t)
         PROVE  ClientOK(t)
    <2>1. /\ f.pc \in Claiming /\ UNCHANGED <<writing, reading>>
          /\ CheckWriting(t) => f.call = "GetBufferForWriting"
      BY <1>7 DEF CasId, CasSem, CheckWriting, At, clients
    <2>2. \/ GoesOn(t, NoBuffer, 0)
          \/ g = [f EXCEPT !.pc = "cas_sem"] \/ g = [f EXCEPT !.pc = "check"]
          \/ /\ f.call = "GetBufferForWriting"
             /\ g = [f EXCEPT !.pc = "store_seq", !.seq = next_sequence_id + 1]
      BY <1>7, <2>1, ClaimFrames
    <2>3. CASE GoesOn(t, NoBuffer, 0)
      BY <1>3, <2>1, <2>3
    <2> QED BY <1>2, <2>1, <2>2, <2>3 DEF FrameOK, Frames, Readers, Writers
  <1>8. ASSUME CheckReading(t)
         PROVE  ClientOK(t)
    <2>1. f.pc = "check" /\ f.call = "GetBufferForReading" /\ UNCHANGED writing
      BY <1>8 DEF CheckReading, At
    <2>2. \/ UNCHANGED reading /\ GoesOn(t, NoBuffer, 0)
          \/ g = Idle /\ reading' = [reading EXCEPT ![t] = f.buf]
      BY <1>8, ClaimFrames
    <2>3. CASE UNCHANGED reading /\ GoesOn(t, NoBuffer, 0)
      BY <1>3, <2>1, <2>3
    <2> QED BY <1>2, <2>1, <2>2, <2>3 DEF FrameOK, Idle, Readers, Writers, TypeOK
  <1>9. ASSUME StoreSequenceId(t)
         PROVE  ClientOK(t)
    <2>1. f.pc = "store_seq" /\ UNCHANGED reading
      BY <1>9 DEF StoreSequenceId, At
    <2>2. \/ UNCHANGED writing /\ GoesOn(t, NoBuffer, 0)
          \/ g = Idle /\ writing' = [writing EXCEPT ![t] = f.buf]
      BY <1>9, ClaimFrames
    <2>3. CASE UNCHANGED writing /\ GoesOn(t, NoBuffer, 0)
      BY <1>3, <2>1, <2>3
    <2> QED BY <1>2, <2>1, <2>2, <2>3 DEF FrameOK, Idle, Readers, Writers, TypeOK
  <1>10. ASSUME LockSearch(t)
         PROVE  ClientOK(t)
    <2>1. \E b \in Buffers : g = [f EXCEPT !.pc = "scan", !.pos = b]
      BY <1>10, FrameOf DEF LockSearch
    <2>2. f.pc = "search" /\ UNCHANGED <<writing, reading>>
      BY <1>10 DEF LockSearch, At, clients
    <2> QED BY <1>2, <2>1, <2>2 DEF FrameOK, Frames
  <1>11. ASSUME LockForUse(t)
         PROVE  ClientOK(t)
    <2>1. g = Idle \/ \E point \in {"store_sem", "detach", "copy"} :
            /\ g = [f EXCEPT !.pc = point]
            /\ point = "store_sem" => f.call \in {"MarkBufferFull", "MarkBufferEmpty"}
            /\ point = "copy" => f.call \notin {"MarkBufferFull", "MarkBufferEmpty"}
      BY <1>11, FrameOf DEF LockForUse
    <2>2. f.pc = "lock" /\ UNCHANGED <<writing, reading>>
      BY <1>11 DEF LockForUse, At, clients
    <2> QED BY <1>2, <2>1, <2>2 DEF FrameOK, Frames, Readers, Writers, Idle, Uses
  <1>12. ASSUME UseBuffer(t)
         PROVE  ClientOK(t)
    <2>1. g = Idle \/ (f.pc = "store_sem" /\ g = [f EXCEPT !.pc = "store_id"])
      BY <1>12, FrameOf DEF UseBuffer, CopyEnd, StoreSem, StoreId, At
    <2>2. UNCHANGED <<writing, reading>>
      BY <1>12 DEF UseBuffer, CopyEnd, StoreSem, StoreId, clients
    <2> QED BY <1>2, <2>1, <2>2 DEF FrameOK, Frames, Readers, Writers, Idle
  <1>13. ASSUME GetBufferForReading(t) \/ GetBufferForWriting(t) \/ ReadyForRead(t)
         PROVE  ClientOK(t)
    <2>1. \/ /\ t \in Consumers /\ \E point \in {"search", "register"} :
                  g = [Idle EXCEPT !.call = "GetBufferForReading", !.pc = point]
          \/ t \in Producers /\ g = [Idle EXCEPT !.call = "GetBufferForWriting", !.pc = "search"]
          \/ g = [Idle EXCEPT !.call = "ReadyForRead", !.pc = "search"]
      BY <1>13, FrameOf DEF GetBufferForReading, GetBufferForWriting, ReadyForRead
    <2>2. UNCHANGED <<writing, reading>>
      BY <1>13 DEF GetBufferForReading, GetBufferForWriting, ReadyForRead, clients
    <2> QED BY <1>2, <2>1, <2>2 DEF FrameOK, Readers, Writers, Idle, Searches
  <1>14. ASSUME Write(t) \/ Read(t) \/ MarkBufferEmpty(t) \/ \E d \in Destinations : MarkBufferFull(t, d)
         PROVE  ClientOK(t)
    <2>1. \/ writing[t] # NoBuffer /\ \E c \in {"Write", "MarkBufferFull"} : \E i :
                /\ g = [Idle EXCEPT !.call = c, !.pc = "lock", !.buf = writing[t], !.id = i]
                /\ c = "MarkBufferFull" => writing'[t] = NoBuffer
          \/ reading[t] # NoBuffer /\ \E c \in {"Read", "MarkBufferEmpty"} :
                /\ g = [Idle EXCEPT !.call = c, !.pc = "lock", !.buf = reading[t], !.id = NoOne]
                /\ c = "MarkBufferEmpty" => reading'[t] = NoBuffer
      BY <1>14, FrameOf DEF Write, Read, MarkBufferEmpty, MarkBufferFull, Use, TypeOK
    <2>2. /\ writing'[t] \in {writing[t], NoBuffer}
          /\ reading'[t] \in {reading[t], NoBuffer}
      BY <1>14 DEF Write, Read, MarkBufferEmpty, MarkBufferFull, clients, TypeOK
    <2>3. /\ writing[t] # NoBuffer => writing[t] \in Buffers
          /\ reading[t] # NoBuffer => reading[t] \in Buffers
      BY DEF TypeOK
    <2> QED BY <1>2, <2>1, <2>2, <2>3 DEF FrameOK, Readers, Writers, Idle, Uses
  <1>15. ClientOK(t)
    BY <1>4, <1>5, <1>6, <1>7, <1>8, <1>9, <1>10, <1>11, <1>12, <1>13, <1>14 DEF Step, Search, Client
  <1> QED BY <1>1, <1>15 DEF CallInv

\* How a call begins.
LEMMA ClientFrames ==
  ASSUME TypeOK, NEW t \in Threads, Client(t) PROVE frame'[t].pc \in {"search", "register", "lock"}
  <1>1. ASSUME NEW c, NEW b, NEW i, Use(t, c, b, i) PROVE frame'[t].pc = "lock"
    <2>1. frame'[t] = [Idle EXCEPT !.call = c, !.pc = "lock", !.buf = b, !.id = i]
      BY <1>1, FrameOf DEF Use
    <2> QED BY <2>1 DEF Idle
  <1>2. ASSUME GetBufferForReading(t) \/ GetBufferForWriting(t) \/ ReadyForRead(t)
        PROVE  frame'[t].pc \in {"search", "register"}
    <2>1. \E c \in Searches : \E point \in {"search", "register"} :
            frame'[t] = [Idle EXCEPT !.call = c, !.pc = point]
      BY <1>2, FrameOf DEF GetBufferForReading, GetBufferForWriting, ReadyForRead, Searches
    <2> QED BY <2>1 DEF Idle
  <1> QED BY <1>1, <1>2 DEF Client, Write, Read, MarkBufferEmpty, MarkBufferFull

\* A step takes the search mutex, gives up the one it has, or leaves the mutexes alone.
LEMMA SearchMutex ==
  ASSUME TypeOK, NEW t \in Threads, Step(t) \/ Client(t)
  PROVE  \/ LockSearch(t)
         \/ frame[t].pc \in Searching /\ Releases(t) /\ frame'[t] = Idle
         \/ UNCHANGED search_mutex /\ (frame'[t].pc \in Searching => frame[t].pc \in Searching)
  <1> DEFINE f == frame[t]
             g == frame'[t]
             Goal == \/ LockSearch(t)
                     \/ f.pc \in Searching /\ Releases(t) /\ g = Idle
                     \/ UNCHANGED search_mutex /\ (g.pc \in Searching => f.pc \in Searching)
  <1>1. f \in Frames
    BY DEF TypeOK
  <1>2. \A buf, seq : f.pc \in Searching /\ GoesOn(t, buf, seq) => Goal
    BY DEF GoesOn
  <1>3. ASSUME Register(t) PROVE Goal
    <2>1. UNCHANGED search_mutex /\ g = [f EXCEPT !.pc = "search"]
      BY <1>3, SearchFrames
    <2>2. g.pc = "search"
      BY <1>1, <2>1 DEF Frames
    <2> QED BY <2>1, <2>2 DEF Searching, Claiming
  <1>4. ASSUME ResetBuffer(t) PROVE Goal
    <2>1. f.pc = "scan"
      BY <1>4 DEF ResetBuffer, At
    <2> QED BY <1>4, <2>1, SearchFrames DEF Searching
  <1>5. ASSUME LoadForReading(t) \/ LoadForWriting(t) \/ LoadToAsk(t) PROVE Goal
    <2>1. f.pc \in Searching
      BY <1>5 DEF LoadForReading, LoadForWriting, LoadToAsk, At, Searching
    <2>2. UNCHANGED search_mutex \/ \E buf, seq : GoesOn(t, buf, seq)
      BY <1>5, SearchFrames
    <2> QED BY <1>2, <2>1, <2>2
  <1>6. ASSUME Reload(t) \/ CasId(t) \/ CasSem(t) \/ CheckReading(t) \/ CheckWriting(t)
               \/ StoreSequenceId(t)
        PROVE  Goal
    <2>1. f.pc \in Searching
      BY <1>6 DEF Reload, CasId, CasSem, CheckReading, CheckWriting, StoreSequenceId, At,
                  Searching, Claiming
    <2>2. UNCHANGED search_mutex \/ GoesOn(t, NoBuffer, 0) \/ (Releases(t) /\ g = Idle)
      BY <1>6, SearchFrames, ClaimFrames
    <2> QED BY <1>2, <2>1, <2>2
  <1>7. ASSUME LockForUse(t) PROVE Goal
    <2>1. g = Idle \/ \E point \in {"store_sem", "detach", "copy"} : g = [f EXCEPT !.pc = point]
      BY <1>7, FrameOf DEF LockForUse
    <2>2. g.pc \notin Searching
      BY <1>1, <2>1 DEF Idle, Searching, Claiming, Frames
    <2> QED BY <1>7, <2>2 DEF LockForUse
  <1>8. ASSUME UseBuffer(t) PROVE Goal
    <2>1. g = Idle \/ g = [f EXCEPT !.pc = "store_id"]
      BY <1>8, FrameOf DEF UseBuffer, CopyEnd, StoreSem, StoreId
    <2>2. g.pc \notin Searching
      BY <1>1, <2>1 DEF Idle, Searching, Claiming, Frames
    <2> QED BY <1>8, <2>2 DEF UseBuffer, CopyEnd, StoreSem, StoreId, mutexes
  <1>9. ASSUME Client(t) PROVE Goal
    <2>2. g.pc \notin Searching
      BY <1>9, ClientFrames DEF Searching, Claiming
    <2> QED BY <1>9, <2>2 DEF Client, GetBufferForReading, GetBufferForWriting, ReadyForRead, Write,
                              Read, MarkBufferEmpty, MarkBufferFull, Use, mutexes
  <1> QED BY <1>3, <1>4, <1>5, <1>6, <1>7, <1>8, <1>9 DEF Step, Search

\* Only the thread that has the search mutex goes on searching.
LEMMA SearchStep ==
  ASSUME TypeOK, SearchInv, NEW t \in Threads, Step(t) \/ Client(t) PROVE SearchInv'
  <1> SUFFICES ASSUME NEW u \in Threads, frame'[u].pc \in Searching
               PROVE  search_mutex'[M(u)] = u
    BY DEF SearchInv, M
  <1>1. /\ search_mutex \in [Managers -> Threads \cup {NoThread}] /\ M(t) \in Managers
        /\ u # t => frame'[u] = frame[u]
    BY OwnManager, OneFrame DEF TypeOK
  <1>2. CASE LockSearch(t)
    BY <1>1, <1>2, ThreadsAssumption DEF LockSearch, SearchFree, SearchInv
  <1>3. CASE frame[t].pc \in Searching /\ Releases(t) /\ frame'[t] = Idle
    <2>1. u # t
      BY <1>3 DEF Idle, Searching, Claiming
    <2>2. search_mutex[M(u)] = u /\ search_mutex[M(t)] = t
      BY <1>1, <1>3, <2>1 DEF SearchInv
    <2> QED BY <1>1, <1>3, <2>1, <2>2, OwnManager DEF Releases
  <1>4. CASE UNCHANGED search_mutex /\ (frame'[t].pc \in Searching => frame[t].pc \in Searching)
    BY <1>1, <1>4 DEF SearchInv
  <1> QED BY <1>2, <1>3, <1>4, SearchMutex

\* Two threads of one process never search at the same time.
LEMMA OneSearch ==
  ASSUME SearchInv, NEW t \in Threads, NEW u \in Threads, M(t) = M(u),
         frame[t].pc \in Searching, frame[u].pc \in Searching
  PROVE  t = u
  BY DEF SearchInv
-----------------------------------------------------------------------------
(* Event ids *)

\* A thread comes to the store of an id with the load of the last one only.
LEMMA ToStoreSeq ==
  ASSUME TypeOK, NEW t \in Threads, Step(t) \/ Client(t), frame'[t].pc = "store_seq"
  PROVE  CheckWriting(t) /\ frame'[t].seq = next_sequence_id + 1
  <1> DEFINE f == frame[t]
             g == frame'[t]
  <1>1. f \in Frames
    BY DEF TypeOK
  <1>2. \A buf, seq : ~GoesOn(t, buf, seq)
    BY DEF GoesOn, Idle
  <1>3. ~(Register(t) \/ ResetBuffer(t) \/ LoadForReading(t) \/ LoadForWriting(t) \/ LoadToAsk(t)
          \/ Reload(t))
    <2>1. /\ g # [f EXCEPT !.pc = "search"] /\ g # [f EXCEPT !.pc = "load"]
          /\ \A b, q : g # [f EXCEPT !.pc = "reload", !.buf = b, !.seq = q]
          /\ \A b : g # [f EXCEPT !.pc = "cas_id", !.buf = b]
          /\ \A i, q : g # [f EXCEPT !.pc = "cas_id", !.id = i, !.seq = q]
      BY <1>1 DEF Frames
    <2>2. /\ ~Register(t) /\ ~ResetBuffer(t)
      BY <2>1, SearchFrames
    <2>3. ~LoadForReading(t)
      <3> DEFINE b == Visited(t)
      <3>1. LoadForReading(t) =>
              \/ GoesOn(t, f.buf, f.seq) \/ GoesOn(t, b, sequence_id[b])
              \/ g = [f EXCEPT !.pc = "reload", !.buf = b, !.seq = sequence_id[b]]
        BY SearchFrames
      <3> QED BY <1>2, <2>1, <3>1
    <2>4. ~LoadForWriting(t) /\ ~LoadToAsk(t)
      BY <1>2, <2>1, SearchFrames
    <2>5. ~Reload(t)
      <3>1. Reload(t) =>
              \/ GoesOn(t, NoBuffer, 0)
              \/ g = [f EXCEPT !.pc = "cas_id", !.id = sem_id[f.buf], !.seq = sequence_id[f.buf]]
        BY SearchFrames
      <3> QED BY <1>2, <2>1, <3>1
    <2> QED BY <2>2, <2>3, <2>4, <2>5
  <1>4. ~(CasId(t) \/ CasSem(t) \/ CheckReading(t) \/ StoreSequenceId(t))
    <2>1. /\ [f EXCEPT !.pc = "cas_sem"].pc # "store_seq"
          /\ [f EXCEPT !.pc = "check"].pc # "store_seq" /\ Idle.pc # "store_seq"
      BY <1>1 DEF Frames, Idle
    <2> QED BY <1>2, <2>1, ClaimFrames
  <1>5. ASSUME LockSearch(t) \/ LockForUse(t) \/ UseBuffer(t) PROVE FALSE
    <2>1. /\ g # Idle
          /\ \A b : g # [f EXCEPT !.pc = "scan", !.pos = b]
          /\ g # [f EXCEPT !.pc = "store_sem"] /\ g # [f EXCEPT !.pc = "detach"]
          /\ g # [f EXCEPT !.pc = "copy"] /\ g # [f EXCEPT !.pc = "store_id"]
      <3>1. g # Idle
        BY DEF Idle
      <3> QED BY <1>1, <3>1 DEF Frames
    <2>2. ~LockSearch(t) /\ ~UseBuffer(t)
      BY <2>1, FrameOf DEF LockSearch, UseBuffer, CopyEnd, StoreSem, StoreId
    <2>3. ~LockForUse(t)
      BY <2>1, FrameOf DEF LockForUse
    <2> QED BY <1>5, <2>2, <2>3
  <1>6. ~Client(t)
    BY ClientFrames
  <1>7. CheckWriting(t)
    BY <1>3, <1>4, <1>5, <1>6 DEF Step, Search
  <1>8. g = [f EXCEPT !.pc = "store_seq", !.seq = next_sequence_id + 1]
    BY <1>2, <1>7, ClaimFrames
  <1> QED BY <1>1, <1>7, <1>8 DEF Frames

\* Only the store changes an id or the counter.
LEMMA IdsUnchanged ==
  ASSUME NEW t \in Threads, Step(t) \/ Client(t)
  PROVE  StoreSequenceId(t) \/ UNCHANGED <<sequence_id, next_sequence_id>>
  <1>1. CASE Search(t)
    BY <1>1 DEF Search, Register, ResetBuffer, LoadForReading, LoadForWriting, LoadToAsk, Reload, CasId,
                CasSem, CheckReading, CheckWriting, segment
  <1>2. CASE LockSearch(t) \/ LockForUse(t) \/ UseBuffer(t)
    BY <1>2 DEF LockSearch, LockForUse, UseBuffer, CopyEnd, StoreSem, StoreId, segment
  <1>3. CASE Client(t)
    BY <1>3 DEF Client, GetBufferForReading, GetBufferForWriting, ReadyForRead, Write, Read,
                MarkBufferEmpty, MarkBufferFull, Use, segment
  <1> QED BY <1>1, <1>2, <1>3 DEF Step

\* The thread that stores an id is alone between its load and its store.
LEMMA IdStep ==
  ASSUME TypeOK, CallInv, SearchInv, IdInv, EventIdsDistinct, OneWritingManager,
         NEW t \in Threads, Step(t) \/ Client(t)
  PROVE  IdInv' /\ EventIdsDistinct'
  <1>1. /\ next_sequence_id \in Nat /\ sequence_id \in [Buffers -> Nat]
        /\ \A b \in Buffers : sequence_id[b] <= next_sequence_id
    BY DEF TypeOK, IdInv
  <1>2. CASE StoreSequenceId(t)
    <2>1. /\ frame[t].pc = "store_seq" /\ next_sequence_id' = next_sequence_id + 1
          /\ sequence_id' = [sequence_id EXCEPT ![frame[t].buf] = next_sequence_id + 1]
      BY <1>2 DEF StoreSequenceId, At, IdInv
    <2>2. ASSUME NEW u \in Threads, frame'[u].pc = "store_seq" PROVE FALSE
      <3>1. u # t
        <4>1. ~CheckWriting(t)
          BY <2>1 DEF CheckWriting, At
        <4> QED BY <2>2, <4>1, ToStoreSeq
      <3>2. frame[u].pc = "store_seq"
        BY <2>2, <3>1, OneFrame
      <3>3. t \in Producers /\ u \in Producers
        BY <2>1, <3>2 DEF CallInv, FrameOK, Writers
      <3> QED BY <2>1, <3>1, <3>2, <3>3, OneSearch DEF OneWritingManager, Searching, Claiming
    <2>3. \A b \in Buffers : sequence_id'[b] = sequence_id[b] \/
                              (b = frame[t].buf /\ sequence_id'[b] = next_sequence_id + 1)
      BY <1>1, <2>1
    <2>4. \A b \in Buffers : sequence_id'[b] <= next_sequence_id'
      BY <1>1, <2>1, <2>3
    <2>5. EventIdsDistinct'
      <3> SUFFICES ASSUME NEW b \in Buffers, NEW c \in Buffers, b # c,
                          sequence_id'[b] = sequence_id'[c]
                   PROVE  sequence_id'[b] = 0
        BY DEF EventIdsDistinct
      <3>1. /\ sequence_id[b] \in Nat /\ sequence_id[b] <= next_sequence_id
            /\ sequence_id[c] \in Nat /\ sequence_id[c] <= next_sequence_id
        BY <1>1
      <3> QED BY <1>1, <2>3, <3>1 DEF EventIdsDistinct
    <2> QED BY <2>2, <2>4, <2>5 DEF IdInv
  <1>3. CASE UNCHANGED <<sequence_id, next_sequence_id>>
    <2>1. ASSUME NEW u \in Threads, frame'[u].pc = "store_seq"
          PROVE  frame'[u].seq = next_sequence_id + 1
      <3>1. CASE u = t
        BY <2>1, <3>1, ToStoreSeq
      <3>2. CASE u # t
        BY <2>1, <3>2, OneFrame DEF IdInv
      <3> QED BY <3>1, <3>2
    <2> QED BY <1>1, <1>3, <2>1 DEF IdInv, EventIdsDistinct
  <1> QED BY <1>2, <1>3, IdsUnchanged

-----------------------------------------------------------------------------
(* What a step does to the buffers *)

\* It changes nothing that a buffer's owners or the managers know.
SameBuffers == UNCHANGED <<destructive_read_mode, sem, sem_id, sequence_id, last_seen_id>>

\* The thread gains no buffer and no candidate.
Keeps(t) ==
    /\ frame'[t].pc \notin {"cas_sem", "store_id", "detach"}
    /\ \A b \in Buffers :
        /\ HasToWrite(t, b)' => HasToWrite(t, b)
        /\ HasRead(t, b)' => HasRead(t, b)
        /\ HasToRead(t, b)' => HasToRead(t, b)
        /\ Candidate(t, b)' => Candidate(t, b)
        /\ Wants(t, b)' => Wants(t, b) /\ frame'[t].seq \in {frame[t].seq, sequence_id[b]}

\* It finds a candidate,
Finds(t) ==
    LET f == frame[t]
        g == frame'[t] IN
    /\ f.pc = "load" /\ SameBuffers /\ UNCHANGED clients
    /\ \E b \in Buffers :
        /\ g.buf = b /\ g.call = f.call
        /\ \/ /\ f.call = "GetBufferForReading" /\ Readable(t, b)
              /\ g.seq = sequence_id[b] /\ g.pc \in {"scan", "reload"}
           \/ /\ f.call = "GetBufferForWriting" /\ sem[b] = "Empty" /\ sem_id[b] = NoOne
              /\ g.pc = "cas_id"

\* puts its manager on the candidate,
Claims(t) ==
    LET f == frame[t] IN
    /\ f.pc = "cas_id" /\ frame'[t] = [f EXCEPT !.pc = "cas_sem"]
    /\ sem_id[f.buf] = f.id /\ sem_id' = [sem_id EXCEPT ![f.buf] = M(t)]
    /\ UNCHANGED <<destructive_read_mode, sem, sequence_id, last_seen_id, clients>>

\* takes it,
Takes(t) ==
    LET f == frame[t]
        read == f.call = "GetBufferForReading" IN
    /\ f.pc = "cas_sem" /\ frame'[t] = [f EXCEPT !.pc = "check"]
    /\ sem[f.buf] = IF read THEN "Full" ELSE "Empty"
    /\ sem' = [sem EXCEPT ![f.buf] = IF read THEN "Reading" ELSE "Writing"]
    /\ UNCHANGED <<destructive_read_mode, sem_id, sequence_id, last_seen_id, clients>>

\* is given it to read,
Receives(t) ==
    LET f == frame[t] IN
    /\ f.pc = "check" /\ f.call = "GetBufferForReading" /\ frame'[t] = Idle
    /\ reading' = [reading EXCEPT ![t] = f.buf]
    /\ last_seen_id' = [last_seen_id EXCEPT ![M(t)] = f.seq]
    /\ UNCHANGED <<destructive_read_mode, sem, sem_id, sequence_id, writing>>

\* or gives it an id to write;
Numbers(t) ==
    LET f == frame[t] IN
    /\ f.pc = "store_seq" /\ Keeps(t)
    /\ sequence_id' = [sequence_id EXCEPT ![f.buf] = f.seq]
    /\ \A b \in Buffers : ~Wants(t, b)'
    /\ UNCHANGED <<destructive_read_mode, sem, sem_id, last_seen_id>>

\* has copied, and its manager has seen what it wrote;
Copied(t) ==
    /\ frame[t].pc = "copy" /\ frame'[t] = Idle
    /\ \/ UNCHANGED last_seen_id
       \/ /\ frame[t].call = "Write"
          /\ \E n \in Nat : /\ n > last_seen_id[M(t)]
                            /\ last_seen_id' = [last_seen_id EXCEPT ![M(t)] = n]
    /\ UNCHANGED <<destructive_read_mode, sem, sem_id, sequence_id, clients>>

\* marks the buffer, and puts another owner on it.
Marks(t) ==
    /\ frame[t].pc = "store_sem" /\ frame'[t] = [frame[t] EXCEPT !.pc = "store_id"]
    /\ sem' = [sem EXCEPT ![frame[t].buf] = LeftAs(t)]
    /\ UNCHANGED <<destructive_read_mode, sem_id, sequence_id, last_seen_id, clients>>

HandsOn(t) ==
    LET f == frame[t] IN
    /\ f.pc = "store_id" /\ frame'[t] = Idle
    /\ sem_id' = [sem_id EXCEPT ![f.buf] = f.id]
    /\ UNCHANGED <<destructive_read_mode, sem, sequence_id, last_seen_id, clients>>

\* A search that goes on with its candidate, or without one, gains nothing.
LEMMA GoesOnKeeps ==
  ASSUME NEW t \in Threads, frame[t].pc \in Searching, UNCHANGED <<writing, reading>>,
         NEW buf, NEW seq, GoesOn(t, buf, seq),
         buf = NoBuffer \/ (frame[t].pc = "load" /\ buf = frame[t].buf /\ seq = frame[t].seq)
  PROVE  Keeps(t)
  <1>1. \A b \in Buffers : b # NoBuffer
    BY BuffersInt
  <1>2. CASE frame'[t] = Idle
    BY <1>1, <1>2 DEF Keeps, HasToWrite, HasRead, HasToRead, Candidate, Wants, Idle
  <1>3. CASE frame'[t].pc \in {"scan", "reload"} /\ frame'[t].buf = NoBuffer
    BY <1>1, <1>3 DEF Keeps, HasToWrite, HasRead, HasToRead, Candidate, Wants
  <1>4. CASE /\ frame'[t].pc \in {"scan", "reload"} /\ frame[t].pc = "load"
             /\ frame'[t].buf = frame[t].buf /\ frame'[t].call = frame[t].call
             /\ frame'[t].buf # NoBuffer => frame'[t].seq = frame[t].seq
    BY <1>1, <1>4 DEF Keeps, HasToWrite, HasRead, HasToRead, Candidate, Wants
  <1> QED BY <1>2, <1>3, <1>4 DEF GoesOn

Effect(t) ==
    \/ SameBuffers /\ Keeps(t)
    \/ Finds(t) \/ Claims(t) \/ Takes(t) \/ Receives(t) \/ Numbers(t)
    \/ Copied(t) \/ Marks(t) \/ HandsOn(t)

\* A search finds a candidate or gains nothing.
LEMMA SearchEffects ==
  ASSUME TypeOK, CallInv, NEW t \in Threads,
         Register(t) \/ ResetBuffer(t) \/ LoadForReading(t) \/ LoadForWriting(t) \/ LoadToAsk(t) \/ Reload(t)
  PROVE  Effect(t)
  <1> DEFINE f == frame[t]
             g == frame'[t]
             b == Visited(t)
  <1>1. f \in Frames /\ b \in Buffers /\ FrameOK(t, f) /\ NoBuffer \notin Buffers
    BY VisitedBuffer, BuffersInt DEF TypeOK, CallInv
  <1>2. SameBuffers /\ UNCHANGED clients
    BY DEF Register, ResetBuffer, LoadForReading, LoadForWriting, LoadToAsk, Reload, SameBuffers,
           segment, managers
  <1>3. ASSUME Register(t) PROVE Keeps(t)
    <2>1. g = [f EXCEPT !.pc = "search"] /\ f.pc = "register"
      BY <1>3, SearchFrames DEF Register, At
    <2> QED BY <1>1, <1>2, <2>1 DEF Keeps, HasToWrite, HasRead, HasToRead, Candidate, Wants, Frames, clients
  <1>4. ASSUME ResetBuffer(t) PROVE Keeps(t)
    <2>1. g = [f EXCEPT !.pc = "load"] /\ f.pc = "scan"
      BY <1>4, SearchFrames DEF ResetBuffer, At
    <2> QED BY <1>1, <1>2, <2>1 DEF Keeps, HasToWrite, HasRead, HasToRead, Candidate, Wants, Frames, clients
  <1>5. GoesOn(t, f.buf, f.seq) /\ f.pc = "load" => Keeps(t)
    BY <1>2, GoesOnKeeps DEF Searching, clients
  <1>6. ASSUME LoadForReading(t) PROVE Keeps(t) \/ Finds(t)
    <2>1. f.pc = "load" /\ f.call = "GetBufferForReading"
      BY <1>6 DEF LoadForReading, At
    <2>2. CASE GoesOn(t, f.buf, f.seq)
      BY <1>5, <2>1, <2>2
    <2>3. CASE Readable(t, b) /\ GoesOn(t, b, sequence_id[b])
      <3>1. CASE g = Idle
        BY <1>1, <1>2, <3>1 DEF Keeps, HasToWrite, HasRead, HasToRead, Candidate, Wants, Idle, clients
      <3>2. CASE g # Idle
        BY <1>1, <1>2, <2>1, <2>3, <3>2 DEF GoesOn, Finds
      <3> QED BY <3>1, <3>2
    <2>4. CASE Readable(t, b) /\ g = [f EXCEPT !.pc = "reload", !.buf = b, !.seq = sequence_id[b]]
      <3>1. g.call = f.call /\ g.pc = "reload" /\ g.buf = b /\ g.seq = sequence_id[b]
        BY <1>1, <2>4 DEF Frames
      <3> QED BY <1>1, <1>2, <2>1, <2>4, <3>1 DEF Finds
    <2> QED BY <1>6, <2>2, <2>3, <2>4, SearchFrames
  <1>7. ASSUME LoadForWriting(t) PROVE Keeps(t) \/ Finds(t)
    <2>1. f.pc = "load" /\ f.call = "GetBufferForWriting"
      BY <1>7 DEF LoadForWriting, At
    <2>2. CASE GoesOn(t, f.buf, f.seq)
      BY <1>5, <2>1, <2>2
    <2>3. CASE sem[b] = "Empty" /\ sem_id[b] = NoOne /\ g = [f EXCEPT !.pc = "cas_id", !.buf = b]
      <3>1. g.call = f.call /\ g.pc = "cas_id" /\ g.buf = b
        BY <1>1, <2>3 DEF Frames
      <3> QED BY <1>1, <1>2, <2>1, <2>3, <3>1 DEF Finds
    <2> QED BY <1>7, <2>2, <2>3, SearchFrames
  <1>8. ASSUME LoadToAsk(t) PROVE Keeps(t)
    <2>1. f.pc = "load" /\ GoesOn(t, f.buf, f.seq)
      BY <1>8, SearchFrames DEF LoadToAsk, At
    <2> QED BY <1>5, <2>1
  <1>9. ASSUME Reload(t) PROVE Keeps(t)
    <2>1. f.pc = "reload" /\ f.call = "GetBufferForReading"
      BY <1>1, <1>9 DEF Reload, At, FrameOK
    <2>2. CASE GoesOn(t, NoBuffer, 0)
      BY <1>2, <2>1, <2>2, GoesOnKeeps DEF Searching, clients
    <2>3. CASE g = [f EXCEPT !.pc = "cas_id", !.id = sem_id[f.buf], !.seq = sequence_id[f.buf]]
      <3>1. g.call = f.call /\ g.pc = "cas_id" /\ g.buf = f.buf /\ g.seq = sequence_id[f.buf]
        BY <1>1, <2>3 DEF Frames
      <3> QED BY <1>2, <2>1, <3>1 DEF Keeps, HasToWrite, HasRead, HasToRead, Candidate, Wants, clients
    <2> QED BY <1>9, <2>2, <2>3, SearchFrames
  <1> QED BY <1>2, <1>3, <1>4, <1>6, <1>7, <1>8, <1>9 DEF Effect

\* A claim goes one step on, or is given up.
LEMMA ClaimEffects ==
  ASSUME TypeOK, CallInv, NEW t \in Threads,
         CasId(t) \/ CasSem(t) \/ CheckReading(t) \/ CheckWriting(t) \/ StoreSequenceId(t)
  PROVE  Effect(t)
  <1> DEFINE f == frame[t]
             g == frame'[t]
  <1>1. f \in Frames /\ FrameOK(t, f) /\ NoBuffer \notin Buffers
    BY BuffersInt DEF TypeOK, CallInv
  <1>2. f.pc \in Searching
    BY DEF CasId, CasSem, CheckReading, CheckWriting, StoreSequenceId, At, Searching, Claiming
  <1>3. GoesOn(t, NoBuffer, 0) /\ UNCHANGED <<writing, reading>> => Keeps(t)
    BY <1>2, GoesOnKeeps
  <1>4. ASSUME CasId(t) PROVE Effect(t)
    <2>1. CASE sem_id[f.buf] = f.id
      BY <1>4, <2>1, FrameOf DEF CasId, At, Effect, Claims, managers
    <2>2. CASE sem_id[f.buf] # f.id
      <3>1. GoesOn(t, NoBuffer, 0) /\ UNCHANGED <<writing, reading>> /\ SameBuffers
        BY <1>4, <2>2, ContinueGoesOn DEF CasId, clients, managers, SameBuffers
      <3> QED BY <1>3, <3>1 DEF Effect
    <2> QED BY <2>1, <2>2
  <1>5. ASSUME CasSem(t) PROVE Effect(t)
    <2> DEFINE from == IF f.call = "GetBufferForReading" THEN "Full" ELSE "Empty"
    <2>1. CASE sem[f.buf] = from
      BY <1>5, <2>1, FrameOf DEF CasSem, At, Effect, Takes, managers
    <2>2. CASE sem[f.buf] # from
      <3>1. GoesOn(t, NoBuffer, 0) /\ UNCHANGED <<writing, reading>> /\ SameBuffers
        BY <1>5, <2>2, ContinueGoesOn DEF CasSem, clients, managers, SameBuffers
      <3> QED BY <1>3, <3>1 DEF Effect
    <2> QED BY <2>1, <2>2
  <1>6. ASSUME CheckReading(t) PROVE Effect(t)
    <2>1. CASE Holds(t, f.buf, "Reading")
      BY <1>6, <2>1, FrameOf DEF CheckReading, At, Return, Effect, Receives, segment
    <2>2. CASE ~Holds(t, f.buf, "Reading")
      <3>1. GoesOn(t, NoBuffer, 0) /\ UNCHANGED <<writing, reading>> /\ SameBuffers
        BY <1>6, <2>2, ContinueGoesOn DEF CheckReading, segment, SameBuffers
      <3> QED BY <1>3, <3>1 DEF Effect
    <2> QED BY <2>1, <2>2
  <1>7. ASSUME CheckWriting(t) PROVE Effect(t)
    <2>1. f.pc = "check" /\ f.call = "GetBufferForWriting" /\ SameBuffers /\ UNCHANGED <<writing, reading>>
      BY <1>7 DEF CheckWriting, At, segment, managers, clients, SameBuffers
    <2>2. CASE GoesOn(t, NoBuffer, 0)
      BY <1>3, <2>1, <2>2 DEF Effect
    <2>3. CASE g = [f EXCEPT !.pc = "store_seq", !.seq = next_sequence_id + 1]
      <3>1. g.pc = "store_seq" /\ g.call = f.call /\ g.buf = f.buf
        BY <1>1, <2>3 DEF Frames
      <3>2. Keeps(t)
        BY <2>1, <3>1 DEF Keeps, HasToWrite, HasRead, HasToRead, Candidate, Wants
      <3> QED BY <2>1, <3>2 DEF Effect
    <2> QED BY <1>7, <2>2, <2>3, ClaimFrames
  <1>8. ASSUME StoreSequenceId(t) PROVE Numbers(t)
    <2>1. /\ f.pc = "store_seq" /\ f.call = "GetBufferForWriting"
          /\ sequence_id' = [sequence_id EXCEPT ![f.buf] = f.seq]
          /\ UNCHANGED <<destructive_read_mode, sem, sem_id, last_seen_id, reading>>
      BY <1>1, <1>8 DEF StoreSequenceId, At, managers, FrameOK
    <2>2. CASE UNCHANGED writing /\ GoesOn(t, NoBuffer, 0)
      <3>1. Keeps(t)
        BY <1>3, <2>1, <2>2
      <3>2. \A b \in Buffers : ~Wants(t, b)'
        BY <1>1, <2>2 DEF Wants, GoesOn, Idle
      <3> QED BY <2>1, <3>1, <3>2 DEF Numbers
    <2>3. CASE g = Idle /\ writing' = [writing EXCEPT ![t] = f.buf]
      <3>1. writing'[t] = f.buf
        BY <2>3 DEF TypeOK
      <3>2. Keeps(t) /\ \A b \in Buffers : ~Wants(t, b)'
        BY <1>1, <2>1, <2>3, <3>1 DEF Keeps, HasToWrite, HasRead, HasToRead, Candidate, Wants, Idle
      <3> QED BY <2>1, <3>2 DEF Numbers
    <2> QED BY <1>8, <2>2, <2>3, ClaimFrames
  <1> QED BY <1>4, <1>5, <1>6, <1>7, <1>8 DEF Effect

\* A call on a buffer finds it as its thread has it, so that none detaches.
LEMMA UseEffects ==
  ASSUME TypeOK, CallInv, OwnedInv, NEW t \in Threads, LockSearch(t) \/ LockForUse(t) \/ UseBuffer(t)
  PROVE  Effect(t)
  <1> DEFINE f == frame[t]
             g == frame'[t]
  <1>1. f \in Frames /\ FrameOK(t, f) /\ NoBuffer \notin Buffers
    BY BuffersInt DEF TypeOK, CallInv
  <1>2. ASSUME LockSearch(t) PROVE SameBuffers /\ Keeps(t)
    <2>1. PICK b \in Buffers : g = [f EXCEPT !.pc = "scan", !.pos = b]
      BY <1>2, FrameOf DEF LockSearch
    <2>2. g.pc = "scan" /\ g.buf = NoBuffer
      BY <1>1, <1>2, <2>1 DEF LockSearch, At, FrameOK, Frames
    <2>3. SameBuffers /\ UNCHANGED clients
      BY <1>2 DEF LockSearch, SameBuffers, segment, managers
    <2> QED BY <1>1, <2>2, <2>3 DEF Keeps, HasToWrite, HasRead, HasToRead, Candidate, Wants, clients
  <1>3. ASSUME LockForUse(t) PROVE SameBuffers /\ Keeps(t)
    <2>1. f.pc = "lock" /\ SameBuffers /\ UNCHANGED clients
      BY <1>3 DEF LockForUse, At, SameBuffers, segment, managers
    <2>2. CASE g = Idle
      BY <1>1, <2>1, <2>2 DEF Keeps, HasToWrite, HasRead, HasToRead, Candidate, Wants, Idle, clients
    <2>3. CASE \E point \in {"store_sem", "copy"} : g = [f EXCEPT !.pc = point]
      <3>1. g.pc \in {"store_sem", "copy"} /\ g.call = f.call /\ g.buf = f.buf
        BY <1>1, <2>3 DEF Frames
      <3> QED BY <2>1, <3>1 DEF Keeps, HasToWrite, HasRead, HasToRead, Candidate, Wants, clients
    <2>4. g = Idle \/ \E point \in {"store_sem", "copy"} : g = [f EXCEPT !.pc = point]
      <3>1. f.buf \in Buffers /\ f.call \in Uses
        BY <1>1, <2>1 DEF FrameOK, Handling
      <3>2. /\ f.call = "Write" => Holds(t, f.buf, "Writing")
            /\ f.call \in {"Read", "MarkBufferEmpty"} => Holds(t, f.buf, "Reading")
        BY <2>1, <3>1 DEF OwnedInv, HasToWrite, HasToRead, HasRead
      <3> QED BY <1>3, <3>1, <3>2, FrameOf DEF LockForUse, Uses
    <2> QED BY <2>1, <2>2, <2>3, <2>4
  <1>4. ASSUME CopyEnd(t) PROVE Copied(t)
    <2>1. sequence_id[f.buf] \in Nat
      BY <1>1, <1>4 DEF CopyEnd, At, FrameOK, Handling, TypeOK
    <2>2. M(t) \in Managers /\ last_seen_id[M(t)] \in Nat
      BY OwnManager DEF TypeOK
    <2> QED BY <1>4, <2>1, <2>2, FrameOf DEF CopyEnd, At, Copied, segment
  <1>5. ASSUME StoreSem(t) PROVE Marks(t)
    BY <1>5, FrameOf DEF StoreSem, MarkSem, At, Marks, LeftAs, managers
  <1>6. ASSUME StoreId(t) PROVE HandsOn(t)
    BY <1>6, FrameOf DEF StoreId, At, HandsOn, managers
  <1> QED BY <1>2, <1>3, <1>4, <1>5, <1>6 DEF UseBuffer, Effect

\* A call begins with the buffer that the client had.
LEMMA ClientEffects ==
  ASSUME TypeOK, NEW t \in Threads, Client(t) PROVE SameBuffers /\ Keeps(t)
  <1> DEFINE f == frame[t]
             g == frame'[t]
  <1>1. SameBuffers /\ NoBuffer \notin Buffers
    BY BuffersInt
       DEF Client, GetBufferForReading, GetBufferForWriting, ReadyForRead, Write, Read, MarkBufferEmpty,
           MarkBufferFull, Use, SameBuffers, segment, managers
  <1>2. CASE GetBufferForReading(t) \/ GetBufferForWriting(t) \/ ReadyForRead(t)
    <2>1. \E c \in Searches : \E point \in {"search", "register"} :
            g = [Idle EXCEPT !.call = c, !.pc = point]
      BY <1>2, FrameOf DEF GetBufferForReading, GetBufferForWriting, ReadyForRead, Searches
    <2>2. UNCHANGED <<writing, reading>>
      BY <1>2 DEF GetBufferForReading, GetBufferForWriting, ReadyForRead, clients
    <2> QED BY <1>1, <2>1, <2>2 DEF Keeps, HasToWrite, HasRead, HasToRead, Candidate, Wants, Idle
  <1>3. CASE Write(t) \/ \E d \in Destinations : MarkBufferFull(t, d)
    <2>1. \E c \in {"Write", "MarkBufferFull"} : \E i :
            g = [Idle EXCEPT !.call = c, !.pc = "lock", !.buf = writing[t], !.id = i]
      BY <1>3, FrameOf DEF Write, MarkBufferFull, Use
    <2>2. g.call \in {"Write", "MarkBufferFull"} /\ g.pc = "lock" /\ g.buf = writing[t]
      BY <2>1 DEF Idle
    <2>3. writing'[t] \in {writing[t], NoBuffer} /\ UNCHANGED reading
      BY <1>3 DEF Write, MarkBufferFull, clients, TypeOK
    <2> QED BY <1>1, <2>2, <2>3 DEF Keeps, HasToWrite, HasRead, HasToRead, Candidate, Wants
  <1>4. CASE Read(t) \/ MarkBufferEmpty(t)
    <2>1. \E c \in {"Read", "MarkBufferEmpty"} :
            g = [Idle EXCEPT !.call = c, !.pc = "lock", !.buf = reading[t], !.id = NoOne]
      BY <1>4, FrameOf DEF Read, MarkBufferEmpty, Use
    <2>2. g.call \in {"Read", "MarkBufferEmpty"} /\ g.pc = "lock" /\ g.buf = reading[t]
      BY <2>1 DEF Idle
    <2>3. reading'[t] \in {reading[t], NoBuffer} /\ UNCHANGED writing
      BY <1>4 DEF Read, MarkBufferEmpty, clients, TypeOK
    <2> QED BY <1>1, <2>2, <2>3 DEF Keeps, HasToWrite, HasRead, HasToRead, Candidate, Wants
  <1> QED BY <1>1, <1>2, <1>3, <1>4 DEF Client

\* Every step is one of these.
LEMMA StepEffects ==
  ASSUME TypeOK, CallInv, OwnedInv, NEW t \in Threads, Step(t) \/ Client(t) PROVE Effect(t)
  BY SearchEffects, ClaimEffects, UseEffects, ClientEffects DEF Step, Search, Effect

-----------------------------------------------------------------------------
(* Who has a buffer, and what it says *)

\* The steps of one thread leave the others alone.
LEMMA Others ==
  ASSUME TypeOK, NEW t \in Threads, Step(t) \/ Client(t), Effect(t), NEW u \in Threads, u # t,
         NEW b \in Buffers
  PROVE  /\ HasToWrite(u, b)' <=> HasToWrite(u, b)
         /\ HasRead(u, b)' <=> HasRead(u, b)
         /\ HasToRead(u, b)' <=> HasToRead(u, b)
         /\ Leaves(u, b)' <=> Leaves(u, b)
         /\ Candidate(u, b)' <=> Candidate(u, b)
         /\ Wants(u, b)' <=> Wants(u, b)
         /\ LeftAs(u)' = LeftAs(u)
         /\ HasSeen(u, b)' <=> HasSeen(u, b)
         /\ frame'[u] = frame[u]
  <1>1. frame'[u] = frame[u] /\ writing'[u] = writing[u] /\ reading'[u] = reading[u]
    BY OneFrame
  <1>2. destructive_read_mode' = destructive_read_mode
    BY DEF Effect, SameBuffers, Finds, Claims, Takes, Receives, Numbers, Copied, Marks, HandsOn
  <1> QED BY <1>1, <1>2 DEF HasToWrite, HasRead, HasToRead, Leaves, Candidate, Wants, LeftAs, HasSeen

\* The frames of claims and marks, field by field.
LEMMA EffectFrames ==
  ASSUME TypeOK, NEW t \in Threads
  PROVE  LET f == frame[t]
             g == frame'[t]
             same == g.call = f.call /\ g.buf = f.buf /\ g.seq = f.seq /\ g.id = f.id IN
         /\ Claims(t) => same /\ g.pc = "cas_sem"
         /\ Takes(t) => same /\ g.pc = "check"
         /\ Marks(t) => same /\ g.pc = "store_id"
  BY DEF TypeOK, Frames, Claims, Takes, Marks

\* What a step may give the thread that makes it.
LEMMA Gains ==
  ASSUME TypeOK, CallInv, NEW t \in Threads, Effect(t), NEW b \in Buffers
  PROVE  LET f == frame[t]
             g == frame'[t] IN
         /\ HasToWrite(t, b)' => HasToWrite(t, b) \/ (Takes(t) /\ b = f.buf /\ f.call = "GetBufferForWriting")
         /\ HasToRead(t, b)' => HasToRead(t, b) \/ (Takes(t) /\ b = f.buf /\ f.call = "GetBufferForReading")
         /\ HasRead(t, b)' => HasRead(t, b) \/ (Receives(t) /\ b = f.buf)
         /\ Leaves(t, b)' => Marks(t) /\ b = f.buf /\ g.call = f.call
         /\ Candidate(t, b)' => Candidate(t, b) \/ (Finds(t) /\ g.buf = b)
         /\ Wants(t, b)' => \/ Wants(t, b) /\ g.seq \in {f.seq, sequence_id[b]}
                            \/ Finds(t) /\ g.buf = b
         /\ g.pc = "cas_sem" => Claims(t)
         /\ g.pc # "detach"
  <1> USE DEF HasToWrite, HasRead, HasToRead, Leaves, Candidate, Wants
  <1> DEFINE f == frame[t]
             g == frame'[t]
  <1>1. /\ FrameOK(t, f) /\ b # NoBuffer /\ Idle.pc = "idle" /\ Idle.buf = NoBuffer
        /\ reading \in [Threads -> Buffers \cup {NoBuffer}]
    BY BuffersInt DEF CallInv, Idle, TypeOK
  <1>2. CASE SameBuffers /\ Keeps(t)
    BY <1>2 DEF Keeps
  <1>3. CASE Finds(t)
    BY <1>1, <1>3 DEF Finds, clients
  <1>4. CASE Claims(t)
    BY <1>1, <1>4, EffectFrames DEF Claims, clients
  <1>5. CASE Takes(t)
    <2>1. f.call \in {"GetBufferForReading", "GetBufferForWriting"}
      BY <1>1, <1>5 DEF Takes, FrameOK, Claiming
    <2> QED BY <1>1, <1>5, <2>1, EffectFrames DEF Takes, clients
  <1>6. CASE Receives(t)
    BY <1>1, <1>6 DEF Receives
  <1>7. CASE Numbers(t)
    BY <1>7 DEF Numbers, Keeps
  <1>8. CASE Copied(t)
    BY <1>1, <1>8 DEF Copied, clients
  <1>9. CASE Marks(t)
    BY <1>1, <1>9, EffectFrames DEF Marks, clients
  <1>10. CASE HandsOn(t)
    BY <1>1, <1>10 DEF HandsOn, clients
  <1> QED BY <1>2, <1>3, <1>4, <1>5, <1>6, <1>7, <1>8, <1>9, <1>10 DEF Effect

\* The thread that marks a buffer or hands it on has it.
LEMMA Handing ==
  ASSUME TypeOK, CallInv, NEW t \in Threads
  PROVE  LET b == frame[t].buf IN
         /\ Marks(t) => /\ b \in Buffers
                        /\ \/ frame[t].call = "MarkBufferFull" /\ HasToWrite(t, b)
                           \/ frame[t].call = "MarkBufferEmpty" /\ HasRead(t, b)
         /\ HandsOn(t) => /\ b \in Buffers /\ Leaves(t, b)
                          /\ frame[t].call \in {"MarkBufferFull", "MarkBufferEmpty"}
  BY DEF CallInv, FrameOK, Marks, HandsOn, HasToWrite, HasRead, Leaves, Handling

\* Nobody has a buffer while the manager of a search goes on it, or takes it.
LEMMA NobodyElse ==
  ASSUME TypeOK, BufferInv, NEW t \in Threads, Claims(t) \/ Takes(t), NEW u \in Threads
  PROVE  ~Has(u, frame[t].buf)
  <1> DEFINE b == frame[t].buf
  <1>1. b \in Buffers /\ Candidate(t, b) /\ (Claims(t) => sem_id[b] \in {NoOne, M(t)})
    BY DEF BufferInv, CallInv, FrameOK, Claims, Takes, Claiming, Candidate
  <1>2. Takes(t) => sem_id[b] = M(t)
    BY DEF BufferInv, ClaimInv, Takes
  <1>3. Has(u, b) => sem_id[b] = M(u) /\ M(u) # NoOne
    BY <1>1, OwnManager DEF Has, BufferInv, OwnedInv, Holds
  <1>4. M(t) = M(u) => ~Has(u, b)
    BY <1>1 DEF BufferInv, CandidateInv
  <1> QED BY <1>1, <1>2, <1>3, <1>4

\* A buffer that a thread has is changed by nobody else, and by it at the end only.
LEMMA Untouched ==
  ASSUME TypeOK, BufferInv, NEW t \in Threads, Effect(t), NEW u \in Threads, NEW b \in Buffers,
         Has(u, b)
  PROVE  \/ sem'[b] = sem[b] /\ sem_id'[b] = sem_id[b]
         \/ (Marks(t) \/ HandsOn(t)) /\ u = t /\ b = frame[t].buf
  <1>1. sem \in [Buffers -> {"Empty", "Writing", "Full", "Reading"}]
        /\ sem_id \in [Buffers -> Managers \cup {NoOne}] /\ CallInv
    BY DEF TypeOK, BufferInv
  <1>2. CASE Claims(t) \/ Takes(t)
    <2>1. b # frame[t].buf
      BY <1>2, NobodyElse
    <2> QED BY <1>1, <1>2, <2>1 DEF Claims, Takes
  <1>3. CASE Marks(t) \/ HandsOn(t)
    <2>1. frame[t].buf \in Buffers /\ Has(t, frame[t].buf)
      BY <1>1, <1>3, Handing DEF Has, HasToRead
    <2>2. b = frame[t].buf => u = t
      BY <2>1 DEF BufferInv, AloneInv
    <2> QED BY <1>1, <1>3, <2>2 DEF Marks, HandsOn
  <1>4. CASE ~(Claims(t) \/ Takes(t) \/ Marks(t) \/ HandsOn(t))
    BY <1>4 DEF Effect, SameBuffers, Finds, Receives, Numbers, Copied
  <1> QED BY <1>2, <1>3, <1>4

\* The thread that handed a buffer on has it no more.
LEMMA Handed ==
  ASSUME TypeOK, BufferInv, NEW t \in Threads, Marks(t) \/ HandsOn(t), NEW b, b = frame[t].buf
  PROVE  ~HasToWrite(t, b)' /\ ~HasToRead(t, b)'
  <1>1. CallInv /\ OwnedInv /\ b \in Buffers
    BY Handing DEF BufferInv
  <1>2. UNCHANGED <<writing, reading>> /\ frame'[t].pc \in {"store_id", "idle"}
    BY EffectFrames DEF Marks, HandsOn, clients, Idle
  <1>3. /\ b # NoBuffer
        /\ writing[t] = b => sem[b] = "Writing" /\ frame[t].call # "MarkBufferFull"
        /\ reading[t] = b => sem[b] = "Reading" /\ frame[t].call # "MarkBufferEmpty"
    BY <1>1, BuffersInt DEF CallInv, OwnedInv, HasToWrite, HasRead, HasToRead, Holds
  <1>4. writing[t] # b /\ reading[t] # b
    <2>1. CASE Marks(t)
      <3>1. \/ frame[t].call = "MarkBufferFull" /\ sem[b] = "Writing"
            \/ frame[t].call = "MarkBufferEmpty" /\ sem[b] = "Reading"
        BY <1>1, <2>1, Handing DEF OwnedInv, HasToRead, Holds
      <3> QED BY <1>3, <3>1
    <2>2. CASE HandsOn(t)
      <3>1. Leaves(t, b)
        BY <2>2, Handing DEF BufferInv
      <3>2. sem[b] \in {"Empty", "Full"}
        BY <1>1, <3>1 DEF OwnedInv, Holds, LeftAs
      <3> QED BY <1>3, <3>2
    <2> QED BY <2>1, <2>2
  <1> QED BY <1>2, <1>4 DEF HasToWrite, HasToRead, HasRead

\* A buffer says what its thread is doing.
LEMMA OwnedStep ==
  ASSUME TypeOK, BufferInv, NEW t \in Threads, Step(t) \/ Client(t), Effect(t) PROVE OwnedInv'
  <1> SUFFICES ASSUME NEW u \in Threads, NEW b \in Buffers
               PROVE  /\ HasToWrite(u, b)' => Holds(u, b, "Writing")'
                      /\ HasToRead(u, b)' => Holds(u, b, "Reading")'
                      /\ Leaves(u, b)' => sem'[b] = LeftAs(u)' /\ sem_id'[b] = M(u)
    BY DEF OwnedInv, Holds, M
  <1>1. /\ HasToWrite(u, b) => Holds(u, b, "Writing")
        /\ HasToRead(u, b) => Holds(u, b, "Reading")
        /\ Leaves(u, b) => Holds(u, b, LeftAs(u))
    BY DEF BufferInv, OwnedInv
  <1>2. CallInv
    BY DEF BufferInv
  <1>3. CASE u # t
    <2>1. Has(u, b) => sem'[b] = sem[b] /\ sem_id'[b] = sem_id[b]
      BY <1>3, Untouched
    <2> QED BY <1>1, <1>3, <2>1, Others DEF Has, Holds, M
  <1>4. CASE u = t
    <2>1. ASSUME Takes(t), b = frame[t].buf
          PROVE  /\ frame[t].call = "GetBufferForWriting" => Holds(t, b, "Writing")'
                 /\ frame[t].call = "GetBufferForReading" => Holds(t, b, "Reading")'
      <3>1. sem_id[b] = M(t) /\ sem \in [Buffers -> {"Empty", "Writing", "Full", "Reading"}]
        BY <2>1 DEF BufferInv, ClaimInv, Takes, TypeOK
      <3> QED BY <2>1, <3>1 DEF Takes, Holds, M
    <2>2. ASSUME HasToWrite(t, b) \/ HasToRead(t, b), HasToWrite(t, b)' \/ HasToRead(t, b)'
          PROVE  sem'[b] = sem[b] /\ sem_id'[b] = sem_id[b]
      BY <2>2, Untouched, Handed DEF Has
    <2>3. HasToWrite(t, b)' => Holds(t, b, "Writing")'
      BY <1>1, <1>2, <1>4, <2>1, <2>2, Gains DEF Holds, M
    <2>4. HasToRead(t, b)' => Holds(t, b, "Reading")'
      BY <1>1, <1>2, <1>4, <2>1, <2>2, Gains DEF Holds, M
    <2>5. ASSUME Leaves(t, b)' PROVE sem'[b] = LeftAs(t)' /\ sem_id'[b] = M(t)
      <3>1. Marks(t) /\ b = frame[t].buf /\ frame'[t].call = frame[t].call
        BY <1>2, <2>5, Gains
      <3>2. sem_id[b] = M(t)
        BY <1>1, <1>2, <1>4, <3>1, Handing DEF Holds, HasToRead
      <3> QED BY <3>1, <3>2 DEF Marks, LeftAs, TypeOK
    <2> QED BY <1>4, <2>3, <2>4, <2>5
  <1> QED BY <1>3, <1>4

\* Whoever has a buffer after a step had it before, or takes it.
LEMMA HadOrTakes ==
  ASSUME TypeOK, BufferInv, NEW t \in Threads, Step(t) \/ Client(t), Effect(t),
         NEW u \in Threads, NEW b \in Buffers, Has(u, b)'
  PROVE  Has(u, b) \/ (u = t /\ Takes(t) /\ b = frame[t].buf)
  <1>1. CallInv
    BY DEF BufferInv
  <1>2. CASE u # t
    BY <1>2, Others DEF Has
  <1>3. CASE u = t
    <2>1. Leaves(t, b)' => Has(t, b)
      BY <1>1, Gains, Handing DEF Has, HasToRead
    <2> QED BY <1>1, <1>3, <2>1, Gains DEF Has
  <1> QED BY <1>2, <1>3

\* Nobody takes what another thread has.
LEMMA AloneStep ==
  ASSUME TypeOK, BufferInv, NEW t \in Threads, Step(t) \/ Client(t), Effect(t) PROVE AloneInv'
  <1> SUFFICES ASSUME NEW u \in Threads, NEW v \in Threads, NEW b \in Buffers, Has(u, b)', Has(v, b)'
               PROVE  u = v
    BY DEF AloneInv
  <1>1. /\ Has(u, b) \/ (u = t /\ Takes(t) /\ b = frame[t].buf)
        /\ Has(v, b) \/ (v = t /\ Takes(t) /\ b = frame[t].buf)
    BY HadOrTakes
  <1>2. Takes(t) => ~Has(u, frame[t].buf) /\ ~Has(v, frame[t].buf)
    BY NobodyElse
  <1> QED BY <1>1, <1>2 DEF BufferInv, AloneInv

\* What a search finds is had by no thread of its process.
LEMMA FoundFree ==
  ASSUME TypeOK, BufferInv, SeparateRoles, NEW t \in Threads, Finds(t), NEW u \in Threads, M(t) = M(u),
         frame'[t].buf \in Buffers
  PROVE  ~Has(u, frame'[t].buf)
  <1> DEFINE b == frame'[t].buf
  <1>1. SUFFICES ASSUME Has(u, b) PROVE FALSE
    OBVIOUS
  <1>2. sem_id[b] = M(u) /\ M(u) # NoOne
    BY <1>1, OwnManager DEF Has, BufferInv, OwnedInv, Holds
  <1>3. frame[t].call = "GetBufferForReading" /\ Readable(t, b)
    BY <1>2 DEF Finds
  <1>4. t \in Consumers
    BY <1>3 DEF BufferInv, CallInv, FrameOK, Readers
  <1>5. Leaves(u, b) /\ LeftAs(u) = "Full"
    BY <1>1, <1>3 DEF Has, BufferInv, OwnedInv, Holds, Readable
  <1>6. frame[u].call \in {"MarkBufferFull", "MarkBufferEmpty"}
    BY <1>5 DEF BufferInv, CallInv, FrameOK, Leaves
  <1>7. CASE frame[u].call = "MarkBufferFull"
    <2>1. u \in Producers
      BY <1>7 DEF BufferInv, CallInv, FrameOK, Writers
    <2> QED BY <1>4, <2>1 DEF SeparateRoles
  <1>8. CASE frame[u].call = "MarkBufferEmpty"
    <2>1. ~destructive_read_mode
      BY <1>5, <1>8 DEF LeftAs
    <2>2. sequence_id[b] <= last_seen_id[M(u)]
      BY <1>5, <1>8, <2>1 DEF BufferInv, SeenInv, HasSeen
    <2>3. sequence_id[b] > last_seen_id[M(u)]
      BY <1>3, <2>1 DEF Readable
    <2>4. sequence_id[b] \in Nat /\ last_seen_id[M(u)] \in Nat
      BY OwnManager DEF TypeOK
    <2> QED BY <2>2, <2>3, <2>4
  <1> QED BY <1>6, <1>7, <1>8

\* No step gives a thread the candidate of another thread of its process.
LEMMA CandidateStep ==
  ASSUME TypeOK, BufferInv, SeparateRoles, NEW t \in Threads, Step(t) \/ Client(t), Effect(t)
  PROVE  CandidateInv'
  <1> SUFFICES ASSUME NEW v \in Threads, NEW u \in Threads, NEW b \in Buffers,
                      Candidate(v, b)', M(v) = M(u), Has(u, b)'
               PROVE  FALSE
    BY DEF CandidateInv, M
  <1>1. CallInv /\ SearchInv
    BY DEF BufferInv
  <1>2. Has(u, b) \/ (u = t /\ Takes(t) /\ b = frame[t].buf)
    BY HadOrTakes
  <1>3. CASE u = t /\ Takes(t) /\ b = frame[t].buf
    <2>1. v # t
      BY <1>3, EffectFrames DEF Candidate
    <2>2. Candidate(v, b)
      BY <2>1, Others
    <2>3. frame[v].pc \in Searching /\ frame[t].pc \in Searching
      BY <1>3, <2>2 DEF Candidate, Takes, Searching, Claiming
    <2> QED BY <1>1, <1>3, <2>1, <2>3, OneSearch
  <1>4. CASE Has(u, b) /\ Candidate(v, b)
    BY <1>4 DEF BufferInv, CandidateInv
  <1>5. CASE Has(u, b) /\ ~Candidate(v, b)
    <2>1. v = t
      BY <1>5, Others
    <2>2. Finds(t) /\ frame'[t].buf = b
      BY <1>1, <1>5, <2>1, Gains
    <2> QED BY <1>5, <2>1, <2>2, FoundFree
  <1> QED BY <1>2, <1>3, <1>4, <1>5

\* The candidate stays the manager's from one compare-and-swap to the other.
LEMMA ClaimStep ==
  ASSUME TypeOK, BufferInv, NEW t \in Threads, Step(t) \/ Client(t), Effect(t) PROVE ClaimInv'
  <1> SUFFICES ASSUME NEW u \in Threads, frame'[u].pc = "cas_sem" PROVE sem_id'[frame'[u].buf] = M(u)
    BY DEF ClaimInv, M
  <1>1. CallInv /\ SearchInv /\ sem_id \in [Buffers -> Managers \cup {NoOne}]
    BY DEF BufferInv, TypeOK
  <1>2. CASE u = t
    <2>1. Claims(t)
      BY <1>1, <1>2, BuffersInt, Gains
    <2>2. frame[t].buf \in Buffers /\ frame'[t].buf = frame[t].buf
      BY <1>1, <2>1, EffectFrames DEF Claims, CallInv, FrameOK, Claiming
    <2> QED BY <1>1, <1>2, <2>1, <2>2 DEF Claims
  <1>3. CASE u # t
    <2> DEFINE b == frame[u].buf
    <2>1. frame'[u] = frame[u] /\ frame[u].pc = "cas_sem"
      BY <1>3, OneFrame
    <2>2. sem_id[b] = M(u) /\ M(u) # NoOne /\ Candidate(u, b) /\ b \in Buffers
      BY <1>1, <2>1, OwnManager DEF BufferInv, ClaimInv, Candidate, CallInv, FrameOK, Claiming
    <2>3. CASE Claims(t)
      <3>1. frame[t].buf # b
        <4>1. SUFFICES ASSUME frame[t].buf = b PROVE FALSE
          OBVIOUS
        <4>2. M(t) = M(u)
          BY <1>1, <2>2, <2>3, <4>1 DEF Claims, CallInv, FrameOK
        <4> QED BY <1>1, <1>3, <2>1, <2>3, <4>2, OneSearch DEF Claims, Searching, Claiming
      <3> QED BY <1>1, <2>1, <2>2, <2>3, <3>1 DEF Claims
    <2>4. CASE HandsOn(t)
      <3>1. frame[t].buf # b
        <4>1. SUFFICES ASSUME frame[t].buf = b PROVE FALSE
          OBVIOUS
        <4>2. Leaves(t, b) /\ Has(t, b)
          BY <1>1, <2>4, <4>1, Handing DEF Has
        <4>3. M(t) = M(u)
          BY <2>2, <4>2 DEF BufferInv, OwnedInv, Holds
        <4> QED BY <2>2, <4>2, <4>3 DEF BufferInv, CandidateInv
      <3> QED BY <1>1, <2>1, <2>2, <2>4, <3>1 DEF HandsOn
    <2>5. CASE ~Claims(t) /\ ~HandsOn(t)
      BY <2>1, <2>2, <2>5 DEF Effect, SameBuffers, Finds, Takes, Receives, Numbers, Copied, Marks
    <2> QED BY <2>3, <2>4, <2>5
  <1> QED BY <1>2, <1>3

\* In broadcast mode a manager never goes back behind what its threads have read.
LEMMA HasSeenStep ==
  ASSUME TypeOK, BufferInv, SeparateRoles, ~destructive_read_mode, NEW t \in Threads,
         Step(t) \/ Client(t), Effect(t), NEW u \in Threads, NEW b \in Buffers, HasSeen(u, b)'
  PROVE  sequence_id'[b] <= last_seen_id'[M(u)]
  <1>1. /\ CallInv /\ sequence_id \in [Buffers -> Nat] /\ last_seen_id \in [Managers -> Nat]
        /\ M(t) \in Managers /\ M(u) \in Managers
    BY OwnManager DEF BufferInv, TypeOK
  <1>2. HasSeen(u, b) => sequence_id[b] <= last_seen_id[M(u)]
    BY DEF BufferInv, SeenInv
  <1>3. HasSeen(u, b) \/ (u = t /\ Receives(t) /\ b = frame[t].buf)
    <2>1. CASE u # t
      BY <2>1, Others
    <2>2. CASE u = t
      <3>1. ASSUME Leaves(t, b)', frame'[t].call = "MarkBufferEmpty" PROVE HasRead(t, b)
        BY <1>1, <3>1, Gains, Handing
      <3> QED BY <1>1, <2>2, <3>1, Gains DEF HasSeen
    <2> QED BY <2>1, <2>2
  <1>4. CASE Receives(t)
    <2> DEFINE c == frame[t].buf
    <2>1. Wants(t, c) /\ c \in Buffers /\ frame[t].seq \in Nat
      BY <1>1, <1>4 DEF Receives, Wants, CallInv, FrameOK, Claiming, TypeOK, Frames
    <2>2. frame[t].seq = sequence_id[c] /\ sequence_id[c] > last_seen_id[M(t)]
      BY <2>1 DEF BufferInv, SeenInv
    <2>3. /\ sequence_id' = sequence_id
          /\ last_seen_id' = [last_seen_id EXCEPT ![M(t)] = sequence_id[c]]
      BY <1>4, <2>2 DEF Receives
    <2>4. sequence_id[b] \in Nat /\ sequence_id[c] \in Nat
          /\ last_seen_id[M(t)] \in Nat /\ last_seen_id[M(u)] \in Nat
      BY <1>1, <2>1
    <2>5. CASE HasSeen(u, b)
      BY <1>1, <1>2, <2>2, <2>3, <2>4, <2>5
    <2>6. CASE u = t /\ b = c
      BY <1>1, <2>3, <2>4, <2>6
    <2> QED BY <1>3, <2>5, <2>6
  <1>5. CASE Numbers(t)
    <2>1. HasSeen(u, b)
      BY <1>3, <1>5 DEF Numbers, Receives
    <2>2. sem[b] # "Writing"
      BY <2>1 DEF BufferInv, OwnedInv, HasSeen, HasToRead, Holds, LeftAs
    <2>3. frame[t].buf \in Buffers /\ HasToWrite(t, frame[t].buf)
      BY <1>1, <1>5 DEF Numbers, HasToWrite, CallInv, FrameOK, Claiming
    <2>4. b # frame[t].buf
      BY <2>2, <2>3 DEF BufferInv, OwnedInv, Holds
    <2> QED BY <1>1, <1>2, <1>5, <2>1, <2>4 DEF Numbers
  <1>6. CASE Copied(t)
    <2>1. HasSeen(u, b)
      BY <1>3, <1>6 DEF Copied, Receives
    <2>2. last_seen_id'[M(u)] >= last_seen_id[M(u)] /\ last_seen_id'[M(u)] \in Nat
      BY <1>1, <1>6 DEF Copied
    <2>3. sequence_id'[b] = sequence_id[b] /\ sequence_id[b] \in Nat /\ last_seen_id[M(u)] \in Nat
      BY <1>1, <1>6 DEF Copied
    <2> QED BY <1>2, <2>1, <2>2, <2>3
  <1>7. CASE ~(Receives(t) \/ Numbers(t) \/ Copied(t))
    <2>1. sequence_id' = sequence_id /\ last_seen_id' = last_seen_id
      BY <1>7 DEF Effect, SameBuffers, Finds, Claims, Takes, Marks, HandsOn
    <2> QED BY <1>2, <1>3, <1>7, <2>1
  <1> QED BY <1>4, <1>5, <1>6, <1>7

\* A search goes for what the manager has not seen, until it has it.
LEMMA WantsStep ==
  ASSUME TypeOK, BufferInv, SeparateRoles, ~destructive_read_mode, NEW t \in Threads,
         Step(t) \/ Client(t), Effect(t), NEW u \in Threads, NEW b \in Buffers, Wants(u, b)'
  PROVE  /\ frame'[u].seq = sequence_id'[b]
         /\ sequence_id'[b] > last_seen_id'[M(u)]
         /\ sem'[b] \in {"Full", "Reading"}
  <1>1. /\ CallInv /\ SearchInv
        /\ sequence_id \in [Buffers -> Nat] /\ last_seen_id \in [Managers -> Nat]
        /\ M(t) \in Managers /\ M(u) \in Managers
    BY OwnManager DEF BufferInv, TypeOK
  <1>2. Wants(u, b) => /\ frame[u].seq = sequence_id[b] /\ sequence_id[b] > last_seen_id[M(u)]
                       /\ sem[b] \in {"Full", "Reading"}
    BY DEF BufferInv, SeenInv
  <1>3. CASE Finds(t) /\ u = t /\ frame'[t].buf = b
    <2>1. frame[t].call = "GetBufferForReading" /\ Readable(t, b) /\ frame'[t].seq = sequence_id[b]
      BY <1>3 DEF Finds, Wants
    <2> QED BY <1>3, <2>1 DEF Readable, Finds, SameBuffers
  <1>4. CASE Wants(u, b) /\ frame'[u].seq \in {frame[u].seq, sequence_id[b]}
    <2>1. frame'[u].seq = sequence_id[b]
      BY <1>2, <1>4
    <2>2. sequence_id'[b] = sequence_id[b]
      <3>1. CASE Numbers(t)
        <4>1. frame[t].buf \in Buffers /\ HasToWrite(t, frame[t].buf)
          BY <1>1, <3>1 DEF Numbers, HasToWrite, CallInv, FrameOK, Claiming
        <4>2. sem[frame[t].buf] = "Writing"
          BY <4>1 DEF BufferInv, OwnedInv, Holds
        <4>3. b # frame[t].buf
          BY <1>2, <1>4, <4>2
        <4> QED BY <1>1, <3>1, <4>3 DEF Numbers
      <3>2. CASE ~Numbers(t)
        BY <3>2 DEF Effect, SameBuffers, Finds, Claims, Takes, Receives, Copied, Marks, HandsOn
      <3> QED BY <3>1, <3>2
    <2>3. last_seen_id'[M(u)] = last_seen_id[M(u)]
      <3>1. CASE Receives(t)
        <4>1. u # t
          BY <3>1 DEF Receives, Wants, Idle
        <4>2. frame[u].pc \in Searching \/ M(u) # M(t)
          BY <1>4 DEF Wants, Searching, Claiming
        <4>3. M(u) # M(t)
          BY <1>1, <3>1, <4>1, <4>2, OneSearch DEF Receives, Searching, Claiming
        <4> QED BY <1>1, <3>1, <4>3 DEF Receives
      <3>2. CASE Copied(t) /\ last_seen_id' # last_seen_id
        <4>1. t \in Producers
          BY <1>1, <3>2 DEF Copied, CallInv, FrameOK, Writers
        <4>2. u \in Consumers
          BY <1>1, <1>4 DEF Wants, CallInv, FrameOK, Readers
        <4> QED BY <1>1, <3>2, <4>1, <4>2 DEF SeparateRoles, Copied
      <3>3. CASE ~Receives(t) /\ ~(Copied(t) /\ last_seen_id' # last_seen_id)
        BY <3>3 DEF Effect, SameBuffers, Finds, Claims, Takes, Numbers, Marks, HandsOn
      <3> QED BY <3>1, <3>2, <3>3
    <2>4. sem'[b] \in {"Full", "Reading"}
      <3>1. sem \in [Buffers -> {"Empty", "Writing", "Full", "Reading"}]
        BY DEF TypeOK
      <3>2. CASE Takes(t)
        <4>1. CASE b # frame[t].buf
          BY <1>2, <1>4, <3>1, <3>2, <4>1 DEF Takes
        <4>2. CASE b = frame[t].buf
          <5>1. sem[b] = "Full" \/ sem[b] = "Reading"
            BY <1>2, <1>4
          <5>2. frame[t].call = "GetBufferForReading"
            BY <3>2, <4>2, <5>1 DEF Takes
          <5> QED BY <3>1, <3>2, <4>2, <5>2 DEF Takes
        <4> QED BY <4>1, <4>2
      <3>3. CASE Marks(t)
        <4>1. LeftAs(t) = "Full"
          BY DEF LeftAs
        <4> QED BY <1>2, <1>4, <3>1, <3>3, <4>1 DEF Marks
      <3>4. CASE ~Takes(t) /\ ~Marks(t)
        BY <1>2, <1>4, <3>4 DEF Effect, SameBuffers, Finds, Claims, Receives, Numbers, Copied, HandsOn
      <3> QED BY <3>2, <3>3, <3>4
    <2> QED BY <1>2, <1>4, <2>1, <2>2, <2>3, <2>4
  <1>5. \/ Finds(t) /\ u = t /\ frame'[t].buf = b
        \/ Wants(u, b) /\ frame'[u].seq \in {frame[u].seq, sequence_id[b]}
    <2>1. CASE u # t
      BY <2>1, Others
    <2>2. CASE u = t
      BY <1>1, <2>2, Gains
    <2> QED BY <2>1, <2>2
  <1> QED BY <1>3, <1>4, <1>5

\* Both together.
LEMMA SeenStep ==
  ASSUME TypeOK, BufferInv, SeparateRoles, NEW t \in Threads, Step(t) \/ Client(t), Effect(t)
  PROVE  SeenInv'
  <1>1. destructive_read_mode' = destructive_read_mode
    BY DEF Effect, SameBuffers, Finds, Claims, Takes, Receives, Numbers, Copied, Marks, HandsOn
  <1>2. ASSUME ~destructive_read_mode, NEW u \in Threads, NEW b \in Buffers
        PROVE  /\ HasSeen(u, b)' => sequence_id'[b] <= last_seen_id'[M(u)]
               /\ Wants(u, b)' => /\ frame'[u].seq = sequence_id'[b]
                                  /\ sequence_id'[b] > last_seen_id'[M(u)]
                                  /\ sem'[b] \in {"Full", "Reading"}
    BY <1>2, HasSeenStep, WantsStep
  <1> QED BY <1>1, <1>2 DEF SeenInv, M

\* The whole invariant, by one step of one thread.
LEMMA BufferStep ==
  ASSUME TypeOK, BufferInv, SeparateRoles, NEW t \in Threads, Step(t) \/ Client(t)
  PROVE  BufferInv'
  <1>1. CallInv /\ SearchInv /\ OwnedInv /\ NoDetach
    BY DEF BufferInv
  <1>2. Effect(t)
    BY <1>1, StepEffects
  <1>3. NoDetach'
    <2>1. frame'[t].pc # "detach"
      BY <1>1, <1>2, BuffersInt, Gains
    <2> QED BY <1>1, <2>1, OneFrame DEF NoDetach
  <1>4. CallInv' /\ SearchInv'
    BY <1>1, CallStep, SearchStep
  <1>5. OwnedInv' /\ AloneInv' /\ CandidateInv' /\ ClaimInv' /\ SeenInv'
    BY <1>2, OwnedStep, AloneStep, CandidateStep, ClaimStep, SeenStep
  <1> QED BY <1>3, <1>4, <1>5 DEF BufferInv

-----------------------------------------------------------------------------
(* The theorems *)

\* At the beginning nobody has, claims or knows anything.
LEMMA InitInv == Init => TypeOK /\ CallInv /\ SearchInv /\ IdInv /\ EventIdsDistinct
  <1> SUFFICES ASSUME Init PROVE TypeOK /\ CallInv /\ SearchInv /\ IdInv /\ EventIdsDistinct
    OBVIOUS
  <1>1. \A t \in Threads : frame[t] = Idle /\ writing[t] = NoBuffer /\ reading[t] = NoBuffer
    BY DEF Init
  <1>2. TypeOK
    BY IdleType DEF Init, TypeOK
  <1>3. CallInv
    <2>1. \A t \in Threads : FrameOK(t, Idle)
      BY DEF FrameOK, Idle, Claiming, Searching, Handling, Readers, Writers
    <2> QED BY <1>1, <2>1 DEF CallInv
  <1>4. SearchInv /\ IdInv /\ EventIdsDistinct
    BY <1>1 DEF Init, SearchInv, IdInv, EventIdsDistinct, Idle, Searching, Claiming
  <1> QED BY <1>2, <1>3, <1>4

\* A step that changes nothing.
LEMMA StutterInv ==
  ASSUME UNCHANGED vars
  PROVE  /\ TypeOK => TypeOK'
         /\ CallInv => CallInv'
         /\ SearchInv => SearchInv'
         /\ IdInv /\ EventIdsDistinct => IdInv' /\ EventIdsDistinct'
  BY DEF vars, segment, mutexes, managers, clients, TypeOK, CallInv, SearchInv, IdInv, EventIdsDistinct,
         FrameOK, M

\* Whatever the threads of all processes do, the segment and the managers keep their types.
THEOREM TypeCorrect == Spec => []TypeOK
  <1>1. Init => TypeOK /\ CallInv
    BY InitInv
  <1>2. TypeOK /\ CallInv /\ [Next]_vars => (TypeOK /\ CallInv)'
    <2> SUFFICES ASSUME TypeOK, CallInv, [Next]_vars PROVE TypeOK' /\ CallInv'
      OBVIOUS
    <2>1. CASE UNCHANGED vars
      BY <2>1, StutterInv
    <2>2. ASSUME NEW t \in Threads, Step(t) \/ Client(t) PROVE TypeOK' /\ CallInv'
      BY <2>2, SearchTypes, UseTypes, ClientTypes, CallStep DEF Step
    <2> QED BY <2>1, <2>2 DEF Next
  <1> QED BY <1>1, <1>2, PTL DEF Spec

\* ++next_sequence_id (SharedMemoryManager.cc:473) is no atomic increment, but search_mutex_
\* makes it one for the threads of a process: when one process writes, whatever number of
\* threads, managers and buffers, no two buffers have the same event id.
THEOREM EventIdsDistinctAlways == ASSUME OneWritingManager PROVE Spec => []EventIdsDistinct
  <1> DEFINE IInv == TypeOK /\ CallInv /\ SearchInv /\ IdInv /\ EventIdsDistinct
  <1>1. Init => IInv
    BY InitInv
  <1>2. IInv /\ [Next]_vars => IInv'
    <2> SUFFICES ASSUME IInv, [Next]_vars PROVE IInv'
      OBVIOUS
    <2>1. CASE UNCHANGED vars
      BY <2>1, StutterInv
    <2>2. ASSUME NEW t \in Threads, Step(t) \/ Client(t) PROVE IInv'
      BY <2>2, SearchTypes, UseTypes, ClientTypes, CallStep, SearchStep, IdStep DEF Step
    <2> QED BY <2>1, <2>2 DEF Next
  <1>3. IInv => EventIdsDistinct
    OBVIOUS
  <1> HIDE DEF IInv
  <1> QED BY <1>1, <1>2, <1>3, PTL DEF Spec

\* At the beginning nobody has a buffer.
LEMMA InitBuffers == Init => BufferInv
  <1> SUFFICES ASSUME Init PROVE BufferInv
    OBVIOUS
  <1>1. \A t \in Threads : frame[t] = Idle /\ writing[t] = NoBuffer /\ reading[t] = NoBuffer
    BY DEF Init
  <1>2. CallInv /\ SearchInv
    BY InitInv
  <1>3. \A t \in Threads, b \in Buffers :
          ~HasToWrite(t, b) /\ ~HasToRead(t, b) /\ ~Leaves(t, b) /\ ~Candidate(t, b) /\ ~Wants(t, b)
    BY <1>1, BuffersInt DEF HasToWrite, HasToRead, HasRead, Leaves, Candidate, Wants, Idle
  <1>4. OwnedInv /\ AloneInv /\ CandidateInv /\ SeenInv
    BY <1>3 DEF OwnedInv, AloneInv, CandidateInv, SeenInv, Has, HasSeen, HasToRead
  <1>5. ClaimInv /\ NoDetach
    BY <1>1 DEF ClaimInv, NoDetach, Idle
  <1> QED BY <1>2, <1>4, <1>5 DEF BufferInv

\* The invariant of all buffers, where no process both writes and reads.
LEMMA BuffersKept == ASSUME SeparateRoles PROVE Spec => [](TypeOK /\ BufferInv)
  <1>1. Init => TypeOK /\ BufferInv
    BY InitInv, InitBuffers
  <1>2. TypeOK /\ BufferInv /\ [Next]_vars => (TypeOK /\ BufferInv)'
    <2> SUFFICES ASSUME TypeOK, BufferInv, [Next]_vars PROVE TypeOK' /\ BufferInv'
      OBVIOUS
    <2>1. CASE UNCHANGED vars
      <3>1. TypeOK' /\ CallInv' /\ SearchInv'
        BY <2>1, StutterInv DEF BufferInv
      <3>2. OwnedInv' /\ AloneInv' /\ CandidateInv' /\ ClaimInv' /\ SeenInv' /\ NoDetach'
        BY <2>1 DEF vars, segment, managers, clients, BufferInv, OwnedInv, AloneInv, CandidateInv, ClaimInv,
                    SeenInv, NoDetach, Has, HasToWrite, HasToRead, HasRead, HasSeen, Leaves, Candidate,
                    Wants, Holds, LeftAs, M
      <3> QED BY <3>1, <3>2 DEF BufferInv
    <2>2. ASSUME NEW t \in Threads, Step(t) \/ Client(t) PROVE TypeOK' /\ BufferInv'
      <3>1. CallInv
        BY DEF BufferInv
      <3> QED BY <2>2, <3>1, SearchTypes, UseTypes, ClientTypes, BufferStep DEF Step
    <2> QED BY <2>1, <2>2 DEF Next
  <1> QED BY <1>1, <1>2, PTL DEF Spec

\* The owner in the segment is a manager (SharedMemoryManager.cc:335, 427), never a thread; the
\* search mutex, the order of the two stores at the end and, in broadcast mode, last_seen_id_
\* keep the threads of one manager apart: no two threads are ever given one buffer, however
\* many threads, managers and buffers, if no manager both writes and reads.
THEOREM OneThreadPerBufferAlways == ASSUME SeparateRoles PROVE Spec => []OneThreadPerBuffer
  <1>1. TypeOK /\ BufferInv => OneThreadPerBuffer
    <2> SUFFICES ASSUME BufferInv, NEW t \in Threads, NEW b \in Buffers, Using(t, b) PROVE Has(t, b)
      BY DEF OneThreadPerBuffer, BufferInv, AloneInv
    <2>1. FrameOK(t, frame[t])
      BY DEF BufferInv, CallInv
    <2> QED BY <2>1 DEF FrameOK, Using, Has, HasToWrite, HasToRead, HasRead, Leaves, Uses
  <1> QED BY <1>1, BuffersKept, PTL

\* Under the same condition no call finds that the buffer it was given is no longer its
\* manager's, so that none of those that throw (cc:999, 1158, 1193) detaches the manager
\* (cc:1303-1313) under the other threads.
THEOREM NobodyDetachedAlways == ASSUME SeparateRoles PROVE Spec => []NobodyDetached
  <1>1. TypeOK /\ BufferInv => NobodyDetached
    <2> SUFFICES ASSUME TypeOK, BufferInv, NEW t \in Threads
                 PROVE  /\ frame[t].pc # "detach"
                        /\ writing[t] # NoBuffer => Holds(t, writing[t], "Writing")
                        /\ reading[t] # NoBuffer => Holds(t, reading[t], "Reading")
      BY DEF NobodyDetached
    <2>1. writing[t] \in Buffers \cup {NoBuffer} /\ reading[t] \in Buffers \cup {NoBuffer}
      BY DEF TypeOK
    <2> QED BY <2>1 DEF BufferInv, NoDetach, OwnedInv, HasToWrite, HasToRead, HasRead
  <1> QED BY <1>1, BuffersKept, PTL
-----------------------------------------------------------------------------
(* Who waits for whom *)

\* The points at which a call has a buffer's mutex.
Locking == {"copy", "store_sem", "store_id", "detach"}

\* A mutex is with a thread of its own manager, at a point that gives it up again.
MutexInv ==
    /\ \A m \in Managers, t \in Threads :
          search_mutex[m] = t => M(t) = m /\ frame[t].pc \in Searching
    /\ \A m \in Managers, b \in Buffers, t \in Threads :
          buffer_mutexes[m][b] = t => M(t) = m /\ frame[t].buf = b /\ frame[t].pc \in Locking

\* Thread u has the mutex that the next step of t needs: these are the guards of
\* LockSearch, ResetBuffer and LockForUse.
WaitsFor(t, u) ==
    \/ At(t, "search") /\ search_mutex[M(t)] = u
    \/ At(t, "scan") /\ buffer_mutexes[M(t)][Visited(t)] = u
    \/ At(t, "lock") /\ buffer_mutexes[M(t)][frame[t].buf] = u

\* A thread of a call that no other keeps from its next step.
Free(t) == ~At(t, "idle") /\ ~At(t, "detach") /\ \A u \in Threads : ~WaitsFor(t, u)

\* Whoever waits does so for a thread of its process that is free, or that waits for one.
ShortWaits ==
    \A t, u \in Threads : WaitsFor(t, u) =>
        M(u) = M(t) /\ (Free(u) \/ \E v \in Threads : WaitsFor(u, v) /\ M(v) = M(t) /\ Free(v))

\* In a process with a call that has not returned, some thread is free.
SomebodyFree ==
    \A m \in Managers :
        (\E t \in Threads : M(t) = m /\ ~At(t, "idle")) => \E t \in Threads : M(t) = m /\ Free(t)

\* What a step does to the mutex of a search.
LEMMA SearchMutexKept ==
  ASSUME TypeOK, CallInv, NEW t \in Threads, Step(t) \/ Client(t), frame[t].pc \in Searching
  PROVE  Releases(t) \/ (UNCHANGED search_mutex /\ frame'[t].pc \in Searching)
  <1> DEFINE f == frame[t]
             g == frame'[t]
             Goal == Releases(t) \/ (UNCHANGED search_mutex /\ g.pc \in Searching)
  <1>1. f \in Frames
    BY DEF TypeOK
  <1>2. \A buf, seq : GoesOn(t, buf, seq) => Goal
    BY DEF GoesOn, Searching
  <1>3. \A point \in Searching : UNCHANGED search_mutex /\ g = [f EXCEPT !.pc = point] => Goal
    BY <1>1 DEF Frames
  <1>4. Search(t)
    BY DEF Step, Client, LockSearch, LockForUse, UseBuffer, CopyEnd, StoreSem, StoreId, At, Use,
           GetBufferForReading, GetBufferForWriting, ReadyForRead, Write, Read, MarkBufferEmpty,
           MarkBufferFull, Searching, Claiming
  <1>5. ~Register(t)
    BY DEF Register, At, Searching, Claiming
  <1>6. CASE ResetBuffer(t)
    BY <1>3, <1>6, SearchFrames DEF Searching
  <1>7. CASE LoadForReading(t) \/ LoadForWriting(t) \/ LoadToAsk(t)
    <2> DEFINE b == Visited(t)
    <2>1. \/ \E buf, seq : GoesOn(t, buf, seq)
          \/ /\ UNCHANGED search_mutex
             /\ \/ g = [f EXCEPT !.pc = "reload", !.buf = b, !.seq = sequence_id[b]]
                \/ g = [f EXCEPT !.pc = "cas_id", !.buf = b]
      BY <1>7, SearchFrames
    <2> QED BY <1>1, <1>2, <2>1 DEF Searching, Claiming, Frames
  <1>8. CASE Reload(t)
    <2>1. \/ GoesOn(t, NoBuffer, 0)
          \/ /\ UNCHANGED search_mutex
             /\ g = [f EXCEPT !.pc = "cas_id", !.id = sem_id[f.buf], !.seq = sequence_id[f.buf]]
      BY <1>8, SearchFrames
    <2> QED BY <1>1, <1>2, <2>1 DEF Searching, Claiming, Frames
  <1>9. CASE CasId(t) \/ CasSem(t) \/ CheckReading(t) \/ CheckWriting(t) \/ StoreSequenceId(t)
    <2>1. \A q : g = [f EXCEPT !.pc = "store_seq", !.seq = q] => g.pc = "store_seq"
      BY <1>1 DEF Frames
    <2> QED BY <1>2, <1>3, <1>9, <2>1, ClaimFrames DEF Searching, Claiming
  <1> QED BY <1>4, <1>5, <1>6, <1>7, <1>8, <1>9 DEF Search

\* What a step does to the mutexes of buffers.
LEMMA BufferMutex ==
  ASSUME TypeOK, NEW t \in Threads, Step(t) \/ Client(t)
  PROVE  \/ /\ frame[t].buf \in Buffers => LockBuffer(t, frame[t].buf)
            /\ frame'[t].buf = frame[t].buf /\ frame'[t].pc \in Locking /\ At(t, "lock")
         \/ UnlockBuffer(t, frame[t].buf) /\ frame[t].pc \in Locking
         \/ /\ UNCHANGED buffer_mutexes
            /\ frame[t].pc \in Locking => frame'[t].pc \in Locking /\ frame'[t].buf = frame[t].buf
  <1> DEFINE f == frame[t]
             g == frame'[t]
  <1>1. f \in Frames
    BY DEF TypeOK
  <1>2. CASE LockForUse(t)
    <2>1. CASE g = Idle /\ UNCHANGED buffer_mutexes
      BY <1>2, <2>1 DEF LockForUse, At, Locking
    <2>2. CASE LockBuffer(t, f.buf) /\ \E point \in {"store_sem", "detach", "copy"} : g = [f EXCEPT !.pc = point]
      BY <1>1, <1>2, <2>2 DEF LockForUse, At, Locking, Frames
    <2> QED BY <1>2, <2>1, <2>2, FrameOf DEF LockForUse
  <1>3. CASE CopyEnd(t) \/ StoreId(t)
    BY <1>3 DEF CopyEnd, StoreId, At, Locking
  <1>4. CASE StoreSem(t)
    <2>1. g = [f EXCEPT !.pc = "store_id"] /\ UNCHANGED buffer_mutexes
      BY <1>4, FrameOf DEF StoreSem, mutexes
    <2> QED BY <1>1, <2>1 DEF Frames, Locking
  <1>5. CASE LockSearch(t) \/ Search(t)
    BY <1>5 DEF LockSearch, Search, Register, ResetBuffer, LoadForReading, LoadForWriting, LoadToAsk, Reload,
                CasId, CasSem, CheckReading, CheckWriting, StoreSequenceId, At, Locking, mutexes
  <1>6. CASE Client(t)
    BY <1>6 DEF Client, GetBufferForReading, GetBufferForWriting, ReadyForRead, Write, Read, MarkBufferEmpty,
                MarkBufferFull, Use, At, Locking, mutexes
  <1> QED BY <1>2, <1>3, <1>4, <1>5, <1>6 DEF Step, UseBuffer

LEMMA MutexStep ==
  ASSUME TypeOK, CallInv, MutexInv, NEW t \in Threads, Step(t) \/ Client(t) PROVE MutexInv'
  <1>1. /\ search_mutex \in [Managers -> Threads \cup {NoThread}]
        /\ buffer_mutexes \in [Managers -> [Buffers -> Threads \cup {NoThread}]]
        /\ M(t) \in Managers /\ NoThread \notin Threads
        /\ \A u \in Threads : u # t => frame'[u] = frame[u]
    BY OwnManager, OneFrame, ThreadsAssumption DEF TypeOK
  <1>2. ASSUME NEW m \in Managers, NEW u \in Threads, search_mutex'[m] = u
        PROVE  M(u) = m /\ frame'[u].pc \in Searching
    <2>1. CASE LockSearch(t)
      <3>1. frame'[t].pc = "scan" /\ search_mutex' = [search_mutex EXCEPT ![M(t)] = t]
        <4>1. PICK b \in Buffers : Goto(t, [frame[t] EXCEPT !.pc = "scan", !.pos = b])
          BY <2>1 DEF LockSearch
        <4>2. frame[t] \in Frames /\ frame'[t] = [frame[t] EXCEPT !.pc = "scan", !.pos = b]
          BY <4>1, FrameOf
        <4>3. frame'[t].pc = "scan"
          BY <4>2 DEF Frames
        <4> QED BY <2>1, <4>3 DEF LockSearch
      <3>2. CASE u = t
        BY <1>1, <1>2, <3>1, <3>2 DEF MutexInv, Searching, LockSearch, At, Claiming
      <3>3. CASE u # t
        BY <1>1, <1>2, <3>1, <3>3 DEF MutexInv
      <3> QED BY <3>2, <3>3
    <2>2. CASE frame[t].pc \in Searching /\ Releases(t)
      <3>1. m # M(t) /\ search_mutex[m] = u
        BY <1>1, <1>2, <2>2 DEF Releases
      <3>2. u # t
        BY <3>1 DEF MutexInv
      <3> QED BY <1>1, <3>1, <3>2 DEF MutexInv
    <2>3. CASE UNCHANGED search_mutex
      <3>1. M(u) = m /\ frame[u].pc \in Searching
        BY <1>2, <2>3 DEF MutexInv
      <3>2. CASE u = t /\ ~Releases(t)
        BY <3>1, <3>2, SearchMutexKept
      <3>3. CASE u = t /\ Releases(t)
        BY <1>1, <1>2, <3>1, <3>3 DEF Releases
      <3> QED BY <1>1, <3>1, <3>2, <3>3
    <2> QED BY <2>1, <2>2, <2>3, SearchMutex
  <1>3. ASSUME NEW m \in Managers, NEW b \in Buffers, NEW u \in Threads, buffer_mutexes'[m][b] = u
        PROVE  M(u) = m /\ frame'[u].buf = b /\ frame'[u].pc \in Locking
    <2>1. CASE /\ frame[t].buf \in Buffers => LockBuffer(t, frame[t].buf)
               /\ frame'[t].buf = frame[t].buf /\ frame'[t].pc \in Locking /\ At(t, "lock")
      <3>1. frame[t].buf \in Buffers /\ frame[t].pc \notin Locking
        BY <2>1 DEF CallInv, FrameOK, Handling, At, Locking
      <3>2. buffer_mutexes' = [buffer_mutexes EXCEPT ![M(t)][frame[t].buf] = t]
        BY <2>1, <3>1 DEF LockBuffer
      <3>3. \/ m = M(t) /\ b = frame[t].buf /\ u = t
            \/ buffer_mutexes[m][b] = u
        BY <1>1, <1>3, <3>1, <3>2
      <3> QED BY <1>1, <2>1, <3>1, <3>3 DEF MutexInv
    <2>2. CASE UnlockBuffer(t, frame[t].buf) /\ frame[t].pc \in Locking
      <3>1. buffer_mutexes[m][b] = u /\ ~(m = M(t) /\ b = frame[t].buf)
        BY <1>1, <1>3, <2>2 DEF UnlockBuffer
      <3>2. u # t
        BY <3>1 DEF MutexInv
      <3> QED BY <1>1, <3>1, <3>2 DEF MutexInv
    <2>3. CASE /\ UNCHANGED buffer_mutexes
               /\ frame[t].pc \in Locking => frame'[t].pc \in Locking /\ frame'[t].buf = frame[t].buf
      BY <1>1, <1>3, <2>3 DEF MutexInv
    <2> QED BY <2>1, <2>2, <2>3, BufferMutex
  <1> QED BY <1>2, <1>3, OwnManager DEF MutexInv, M

\* A search may wait for a buffer, a thread that has a buffer's mutex for nothing.
LEMMA MutexOrder ==
  ASSUME TypeOK, CallInv, MutexInv, NoDetach PROVE ShortWaits /\ SomebodyFree
  <1>1. ASSUME NEW t \in Threads, NEW u \in Threads, WaitsFor(t, u)
        PROVE  M(u) = M(t) /\ (frame[u].pc \in Locking \/ (At(t, "search") /\ frame[u].pc \in Searching))
    <2>1. M(t) \in Managers /\ Visited(t) \in Buffers
      BY OwnManager, VisitedBuffer
    <2>2. CASE At(t, "search") /\ search_mutex[M(t)] = u
      BY <2>1, <2>2 DEF MutexInv
    <2>3. CASE At(t, "scan") /\ buffer_mutexes[M(t)][Visited(t)] = u
      BY <2>1, <2>3 DEF MutexInv
    <2>4. CASE At(t, "lock") /\ buffer_mutexes[M(t)][frame[t].buf] = u
      <3>1. frame[t].buf \in Buffers
        BY <2>4 DEF CallInv, FrameOK, At, Handling
      <3> QED BY <2>1, <2>4, <3>1 DEF MutexInv
    <2> QED BY <1>1, <2>2, <2>3, <2>4 DEF WaitsFor
  <1>2. ASSUME NEW u \in Threads, frame[u].pc \in Locking PROVE Free(u)
    BY <1>2 DEF Free, WaitsFor, At, Locking, NoDetach
  <1>3. ASSUME NEW u \in Threads, frame[u].pc \in Searching
        PROVE  Free(u) \/ \E v \in Threads : WaitsFor(u, v) /\ M(v) = M(u) /\ Free(v)
    <2>1. ~At(u, "idle") /\ ~At(u, "detach") /\ ~At(u, "search")
      BY <1>3 DEF At, Searching, Claiming
    <2> QED BY <1>1, <1>2, <2>1 DEF Free
  <1>4. ShortWaits
    <2> SUFFICES ASSUME NEW t \in Threads, NEW u \in Threads, WaitsFor(t, u)
                 PROVE  M(u) = M(t) /\ (Free(u) \/ \E v \in Threads : WaitsFor(u, v) /\ M(v) = M(t) /\ Free(v))
      BY DEF ShortWaits
    <2> QED BY <1>1, <1>2, <1>3
  <1>5. SomebodyFree
    <2> SUFFICES ASSUME NEW t \in Threads, ~At(t, "idle") PROVE \E u \in Threads : M(u) = M(t) /\ Free(u)
      BY DEF SomebodyFree
    <2>1. ~At(t, "detach")
      BY DEF NoDetach, At
    <2> QED BY <1>4, <2>1 DEF Free, ShortWaits
  <1> QED BY <1>4, <1>5

\* A search holds search_mutex_ (SharedMemoryManager.cc:308, 435) while it waits for the mutexes
\* of the buffers it resets (cc:1033); a call that has one of these never waits. So no chain
\* of waiting threads has more than three members, no circle of them exists, and in a
\* process with an unfinished call some thread can go on, whatever the number of threads.
THEOREM NobodyWaitsInCircle == ASSUME SeparateRoles PROVE Spec => [](ShortWaits /\ SomebodyFree)
  <1>1. Init => MutexInv
    BY ThreadsAssumption DEF Init, MutexInv
  <1>2. (TypeOK /\ BufferInv) /\ MutexInv /\ [Next]_vars => MutexInv'
    <2> SUFFICES ASSUME TypeOK, BufferInv, MutexInv, [Next]_vars PROVE MutexInv'
      OBVIOUS
    <2>1. CASE UNCHANGED vars
      BY <2>1 DEF vars, mutexes, MutexInv, M
    <2>2. ASSUME NEW t \in Threads, Step(t) \/ Client(t) PROVE MutexInv'
      BY <2>2, MutexStep DEF BufferInv
    <2> QED BY <2>1, <2>2 DEF Next
  <1>3. (TypeOK /\ BufferInv) /\ MutexInv => ShortWaits /\ SomebodyFree
    BY MutexOrder DEF BufferInv
  <1> QED BY <1>1, <1>2, <1>3, BuffersKept, PTL DEF Spec
=============================================================================
