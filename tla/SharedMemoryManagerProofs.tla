---------------------- MODULE SharedMemoryManagerProofs ----------------------
(***************************************************************************)
(* What SharedMemoryManager guarantees for any number of buffers and       *)
(* managers.                                                               *)
(***************************************************************************)
EXTENDS SharedMemoryManagerRefinement, BroadcastOrder, TLAPS

LEMMA BufferArithmetic ==
    ASSUME NEW k \in Int
    PROVE  k % NumBuffers \in Buffers
  BY NumBuffersAssumption DEF Buffers

LEMMA NextInBuffers == ASSUME NEW b \in Int PROVE Next_(b) \in Buffers
  BY BufferArithmetic DEF Next_

LEMMA ScanInBuffers ==
    ASSUME TypeOK, NEW p \in Managers
    PROVE  ScanBuffer(p) \in Buffers
  <1>1. frame[p].ii \in Int /\ frame[p].pos \in Int
    BY DEF TypeOK, Frames, Buffers
  <1>. QED  BY <1>1, BufferArithmetic DEF ScanBuffer

LEMMA ConstantFrames == IdleFrame \in Frames /\ Gone \in Frames
  BY NumBuffersAssumption DEF IdleFrame, Gone, Frames, Calls, Points, Buffers,
     BufferSemaphoreFlags, NoBuffer, NoOne

\* A frame after the scan moved on, and after a retry.
LEMMA PointNames ==
    /\ {"idle", "scan", "reload", "gone"} \subseteq Points
    /\ ActingPoints \cup ResetPoints \cup {"detach"} \subseteq Points
  BY DEF Points, ActingPoints, ResetPoints

\* A frame after the scan moved on, and after a retry.
LEMMA NextBufferFrame ==
    ASSUME NEW f \in Frames
    PROVE  /\ NextBuffer(f) \in Frames
           /\ NextBuffer(f).pc \in {"scan", "reload", "idle"}
  <1>. f.ii + 1 \in Nat /\ 0 \in Nat
    BY DEF Frames
  <1>1. CASE f.ii + 1 < NumBuffers
    <2>1. NextBuffer(f) = [f EXCEPT !.pc = "scan", !.ii = f.ii + 1]
      BY <1>1 DEF NextBuffer
    <2>. QED  BY <2>1, PointNames DEF Frames
  <1>2. CASE ~(f.ii + 1 < NumBuffers) /\ f.call = "GetBufferForReading"
    <2>1. NextBuffer(f) = [f EXCEPT !.pc = "reload"]
      BY <1>2 DEF NextBuffer
    <2>. QED  BY <2>1, PointNames DEF Frames
  <1>3. CASE ~(f.ii + 1 < NumBuffers) /\ f.call # "GetBufferForReading"
    <2>1. CASE NextBuffer(f) = IdleFrame
      BY <2>1, ConstantFrames DEF IdleFrame
    <2>2. CASE NextBuffer(f) # IdleFrame
      <3>. DEFINE w == IF f.want = "Empty" THEN "Full" ELSE "Reading"
      <3>1. NextBuffer(f) = [f EXCEPT !.pc = "scan", !.ii = 0, !.want = w]
        BY <1>3, <2>2 DEF NextBuffer
      <3>2. w \in BufferSemaphoreFlags
        BY DEF BufferSemaphoreFlags
      <3>. QED  BY <3>1, <3>2, PointNames DEF Frames
    <2>. QED  BY <2>1, <2>2
  <1>. QED  BY <1>1, <1>2, <1>3

LEMMA RetryFrame ==
    ASSUME NEW f \in Frames
    PROVE  /\ Retry(f) \in Frames
           /\ Retry(f).pc \in {"scan", "idle"}
  <1>1. CASE f.retry < MaxRetry
    <2>1. Retry(f) = [f EXCEPT !.pc = "scan", !.ii = 0, !.buf = NoBuffer, !.seq = 0,
                               !.id = NoOne, !.retry = f.retry + 1]
      BY <1>1 DEF Retry
    <2>2. /\ f.retry + 1 \in Nat /\ 0 \in Nat
          /\ NoBuffer \in Buffers \cup {NoBuffer} /\ NoOne \in Managers \cup {NoOne}
      BY DEF Frames
    <2>. QED  BY <2>1, <2>2, PointNames DEF Frames
  <1>2. CASE ~(f.retry < MaxRetry)
    BY <1>2, ConstantFrames DEF Retry, IdleFrame
  <1>. QED  BY <1>1, <1>2

LEMMA ContinueFrame ==
    ASSUME NEW f \in Frames
    PROVE  /\ Continue(f) \in Frames
           /\ Continue(f).pc \in {"scan", "reload", "idle"}
  BY NextBufferFrame, RetryFrame DEF Continue

LEMMA GotoFrame ==
    ASSUME frame \in [Managers -> Frames], NEW p \in Managers, NEW f \in Frames, Goto(p, f)
    PROVE  /\ frame' \in [Managers -> Frames]
           /\ frame'[p] = f
           /\ \A q \in Managers : q # p => frame'[q] = frame[q]
  BY DEF Goto

LEMMA SetFrame ==
    ASSUME frame \in [Managers -> Frames], NEW p \in Managers, NEW x \in Points, Set(p, x)
    PROVE  /\ frame' \in [Managers -> Frames]
           /\ frame'[p] = [frame[p] EXCEPT !.pc = x]
           /\ frame'[p].pc = x /\ frame'[p].buf = frame[p].buf
           /\ \A q \in Managers : q # p => frame'[q] = frame[q]
  <1>1. [frame[p] EXCEPT !.pc = x] \in Frames
    BY DEF Frames
  <1>. QED  BY <1>1, GotoFrame DEF Set, Frames

-----------------------------------------------------------------------------
(* Type correctness *)

TypeInv == TypeOK /\ BufferInv

\* One manager's frame changes, and it works on a buffer that exists.
FrameStep(p) ==
    /\ frame' \in [Managers -> Frames]
    /\ \A q \in Managers : q # p => frame'[q] = frame[q]
    /\ frame'[p].pc \in ActingPoints => frame'[p].buf \in Buffers

LEMMA FrameStepBufferInv ==
    ASSUME BufferInv, NEW p \in Managers, FrameStep(p)
    PROVE  BufferInv'
  BY DEF BufferInv, FrameStep

LEMMA GotoStep ==
    ASSUME TypeInv, NEW p \in Managers, NEW f \in Frames, Goto(p, f),
           f.pc \in ActingPoints => f.buf \in Buffers
    PROVE  FrameStep(p)
  BY GotoFrame DEF FrameStep, TypeInv, TypeOK

LEMMA SetStep ==
    ASSUME TypeInv, NEW p \in Managers, NEW x \in Points, Set(p, x),
           x \in ActingPoints => frame[p].buf \in Buffers
    PROVE  FrameStep(p)
  BY SetFrame DEF FrameStep, TypeInv, TypeOK

LEMMA ScanPoints == {"scan", "reload", "idle", "gone", "detach", "load", "reset_recheck",
                     "reset_full", "reset_empty", "reset_id", "reset_empty_id"} \cap ActingPoints = {}
  BY DEF ActingPoints

LEMMA IdleStep ==
    ASSUME TypeInv, NEW p \in Managers, NEW f \in {IdleFrame, Gone}, Goto(p, f)
    PROVE  FrameStep(p)
  BY GotoStep, ConstantFrames, ScanPoints DEF IdleFrame, Gone

LEMMA NextBufferStep ==
    ASSUME TypeInv, NEW p \in Managers, NEW f \in Frames, Goto(p, NextBuffer(f))
    PROVE  FrameStep(p)
  <1>1. NextBuffer(f).pc \notin ActingPoints
    BY NextBufferFrame, ScanPoints
  <1>. QED  BY <1>1, GotoStep, NextBufferFrame

LEMMA RetryStep ==
    ASSUME TypeInv, NEW p \in Managers, NEW f \in Frames, Goto(p, Retry(f))
    PROVE  FrameStep(p)
  <1>1. Retry(f).pc \notin ActingPoints
    BY RetryFrame, ScanPoints
  <1>. QED  BY <1>1, GotoStep, RetryFrame

LEMMA ContinueStep ==
    ASSUME TypeInv, NEW p \in Managers, NEW f \in Frames, Goto(p, Continue(f))
    PROVE  FrameStep(p)
  BY NextBufferStep, RetryStep DEF Continue

\* The first frame of a call.
LEMMA StartStep ==
    ASSUME TypeInv, NEW p \in Managers, NEW c \in Calls, NEW x \in Points,
           NEW b \in Buffers, NEW w \in BufferSemaphoreFlags,
           NEW d \in Managers \cup {NoOne}, NEW t \in SUBSET Buffers,
           \/ Goto(p, [IdleFrame EXCEPT !.call = c, !.pc = x, !.pos = b]) /\ x = "scan"
           \/ Goto(p, [IdleFrame EXCEPT !.call = c, !.pc = x, !.pos = b, !.want = w]) /\ x = "scan"
           \/ Goto(p, [IdleFrame EXCEPT !.call = c, !.pc = x, !.buf = b])
           \/ Goto(p, [IdleFrame EXCEPT !.call = c, !.pc = x, !.buf = b, !.id = d])
           \/ Goto(p, [IdleFrame EXCEPT !.call = c, !.pc = x, !.todo = t]) /\ x = "detach"
    PROVE  FrameStep(p)
  <1>. DEFINE f1 == [IdleFrame EXCEPT !.call = c, !.pc = x, !.pos = b]
              f2 == [IdleFrame EXCEPT !.call = c, !.pc = x, !.pos = b, !.want = w]
              f3 == [IdleFrame EXCEPT !.call = c, !.pc = x, !.buf = b]
              f4 == [IdleFrame EXCEPT !.call = c, !.pc = x, !.buf = b, !.id = d]
              f5 == [IdleFrame EXCEPT !.call = c, !.pc = x, !.todo = t]
  <1>1. f1 \in Frames /\ f1.pc = x
    BY ConstantFrames DEF Frames
  <1>2. f2 \in Frames /\ f2.pc = x
    BY ConstantFrames DEF Frames
  <1>3. f3 \in Frames /\ f3.buf \in Buffers
    BY ConstantFrames DEF Frames
  <1>4. f4 \in Frames /\ f4.buf \in Buffers
    BY ConstantFrames DEF Frames
  <1>5. f5 \in Frames /\ f5.pc = x
    BY ConstantFrames DEF Frames
  <1>. HIDE DEF f1, f2, f3, f4, f5
  <1>6. x = "scan" \/ x = "detach" => x \notin ActingPoints
    BY ScanPoints
  <1>7. \/ Goto(p, f1) /\ x = "scan"
        \/ Goto(p, f2) /\ x = "scan"
        \/ Goto(p, f3)
        \/ Goto(p, f4)
        \/ Goto(p, f5) /\ x = "detach"
    BY DEF f1, f2, f3, f4, f5
  <1>. QED  BY <1>1, <1>2, <1>3, <1>4, <1>5, <1>6, <1>7, GotoStep

LEMMA InitTypeInv == Init => TypeInv
  <1>1. 0 \in Buffers
    BY NumBuffersAssumption DEF Buffers
  <1>2. Init => \A p \in Managers : frame[p].pc \notin ActingPoints
    BY ScanPoints DEF Init, IdleFrame
  <1>. QED
    BY <1>1, <1>2, ConstantFrames
    DEF Init, TypeInv, TypeOK, BufferInv, BufferSemaphoreFlags, Holdings, NoOne

\* The steps inside ResetBuffer.
LEMMA ResetType ==
    ASSUME TypeInv, NEW p \in Managers,
           \/ ResetBuffer(p) \/ ResetRecheck(p) \/ ResetStoreFull(p)
           \/ ResetStoreEmpty(p) \/ ResetStoreId(p) \/ PollEnd(p)
    PROVE  TypeInv'
  <1>. DEFINE b == ScanBuffer(p)
  <1>0. b \in Buffers /\ Next_(b) \in Buffers
    BY ScanInBuffers, NextInBuffers DEF TypeInv, Buffers
  <1>. HIDE DEF b
  <1>. USE PointNames, ScanPoints
  <1>1. CASE ResetBuffer(p)
    <2>1. PICK x \in {"reset_recheck", "reset_full", "reset_empty"} : Set(p, x)
      BY <1>1 DEF ResetBuffer
    <2>2. x \in Points /\ x \notin ActingPoints
      BY DEF ResetPoints
    <2>3. FrameStep(p)
      BY <2>1, <2>2, SetStep
    <2>. QED  BY <1>1, <2>3, FrameStepBufferInv
         DEF TypeInv, TypeOK, FrameStep, ResetBuffer, shmBuffers, shmStruct
  <1>2. CASE ResetRecheck(p)
    <2>1. PICK x \in {"reset_full", "load"} : Set(p, x)
      BY <1>2 DEF ResetRecheck
    <2>2. x \in Points /\ x \notin ActingPoints
      BY DEF ResetPoints
    <2>3. FrameStep(p)
      BY <2>1, <2>2, SetStep
    <2>. QED  BY <1>2, <2>3, FrameStepBufferInv
         DEF TypeInv, TypeOK, FrameStep, ResetRecheck, shmBuffers, shmStruct
  <1>3. CASE ResetStoreFull(p)
    <2>1. FrameStep(p)
      BY <1>3, SetStep DEF ResetStoreFull, ResetPoints
    <2>. QED  BY <1>3, <1>0, <2>1, FrameStepBufferInv
         DEF TypeInv, TypeOK, FrameStep, ResetStoreFull, shmStruct, BufferSemaphoreFlags, b
  <1>4. CASE ResetStoreEmpty(p)
    <2>1. FrameStep(p)
      BY <1>4, SetStep DEF ResetStoreEmpty, ResetPoints
    <2>. QED  BY <1>4, <1>0, <2>1, FrameStepBufferInv
         DEF TypeInv, TypeOK, FrameStep, ResetStoreEmpty, shmStruct, BufferSemaphoreFlags, b
  <1>5. CASE ResetStoreId(p)
    <2>1. FrameStep(p)
      BY <1>5, SetStep DEF ResetStoreId, ResetPoints
    <2>2. b \in Int
      BY <1>0 DEF Buffers
    <2>3. reader_pos' \in Buffers
      BY <1>5, <2>2, NextInBuffers DEF ResetStoreId, TypeInv, TypeOK, b
    <2>. QED  BY <1>5, <1>0, <2>1, <2>3, FrameStepBufferInv
         DEF TypeInv, TypeOK, FrameStep, ResetStoreId, NoOne, b
  <1>6. CASE PollEnd(p)
    <2>1. FrameStep(p)
      BY <1>6, IdleStep DEF PollEnd
    <2>. QED  BY <1>6, <2>1, FrameStepBufferInv
         DEF TypeInv, TypeOK, FrameStep, PollEnd, touchBuffer_, shmStruct
  <1>. QED  BY <1>1, <1>2, <1>3, <1>4, <1>5, <1>6

\* The steps of GetBufferForWriting, and the compare-and-swaps.
LEMMA WritingType ==
    ASSUME TypeInv, NEW p \in Managers,
           \/ LoadSemForWriting(p) \/ LoadIdForWriting(p) \/ CheckWriting(p)
           \/ StoreSequenceId(p) \/ CasId(p) \/ CasSem(p)
    PROVE  TypeInv'
  <1>. DEFINE b == frame[p].buf
  <1>0. /\ frame[p] \in Frames
        /\ frame[p].pc \in ActingPoints => b \in Buffers
        /\ b \in Buffers => Next_(b) \in Buffers
    <2>1. frame[p] \in Frames /\ (frame[p].pc \in ActingPoints => b \in Buffers)
      BY DEF TypeInv, TypeOK, BufferInv
    <2>2. b \in Buffers => b \in Int
      BY DEF Buffers
    <2>. QED  BY <2>1, <2>2, NextInBuffers
  <1>. USE PointNames
  <1>1. CASE LoadSemForWriting(p)
    <2>. DEFINE c == ScanBuffer(p)
    <2>1. c \in Buffers
      BY ScanInBuffers DEF TypeInv
    <2>. HIDE DEF c
    <2>2. CASE Goto(p, [frame[p] EXCEPT !.pc = "load_id", !.buf = c])
      <3>. DEFINE f == [frame[p] EXCEPT !.pc = "load_id", !.buf = c]
      <3>1. f \in Frames /\ f.buf \in Buffers
        BY <1>0, <2>1 DEF Frames, ActingPoints
      <3>. HIDE DEF f
      <3>2. Goto(p, f)
        BY <2>2 DEF f
      <3>. QED  BY <3>1, <3>2, <1>1, GotoStep, FrameStepBufferInv
           DEF TypeInv, TypeOK, FrameStep, LoadSemForWriting, shmBuffers, shmStruct
    <2>3. CASE Goto(p, NextBuffer(frame[p]))
      BY <1>0, <1>1, <2>3, NextBufferStep, FrameStepBufferInv
      DEF TypeInv, TypeOK, FrameStep, LoadSemForWriting, shmBuffers, shmStruct
    <2>. QED  BY <1>1, <2>2, <2>3 DEF LoadSemForWriting, c
  <1>2. CASE LoadIdForWriting(p)
    <2>1. b \in Buffers
      BY <1>0, <1>2 DEF LoadIdForWriting, At, ActingPoints
    <2>2. CASE Goto(p, [frame[p] EXCEPT !.pc = "cas_id", !.id = sem_id[b]])
      <3>. DEFINE f == [frame[p] EXCEPT !.pc = "cas_id", !.id = sem_id[b]]
      <3>0. sem_id[b] \in Managers \cup {NoOne}
        BY <2>1 DEF TypeInv, TypeOK
      <3>1. f \in Frames /\ f.buf \in Buffers
        BY <1>0, <2>1, <3>0 DEF Frames, ActingPoints
      <3>. HIDE DEF f
      <3>2. Goto(p, f)
        BY <2>2 DEF f
      <3>. QED  BY <3>1, <3>2, <1>2, GotoStep, FrameStepBufferInv
           DEF TypeInv, TypeOK, FrameStep, LoadIdForWriting, touchBuffer_, shmStruct
    <2>3. CASE Goto(p, NextBuffer(frame[p]))
      BY <1>0, <1>2, <2>3, NextBufferStep, FrameStepBufferInv
      DEF TypeInv, TypeOK, FrameStep, LoadIdForWriting, touchBuffer_, shmStruct
    <2>. QED  BY <1>2, <2>2, <2>3 DEF LoadIdForWriting
  <1>3. CASE CheckWriting(p)
    <2>1. b \in Buffers
      BY <1>0, <1>3 DEF CheckWriting, At, ActingPoints
    <2>2. CASE Goto(p, [frame[p] EXCEPT !.pc = "store_seq", !.seq = next_sequence_id + 1])
      <3>. DEFINE f == [frame[p] EXCEPT !.pc = "store_seq", !.seq = next_sequence_id + 1]
      <3>0. next_sequence_id + 1 \in Nat
        BY DEF TypeInv, TypeOK
      <3>1. f \in Frames /\ f.buf \in Buffers
        BY <1>0, <2>1, <3>0 DEF Frames, ActingPoints
      <3>. HIDE DEF f
      <3>2. Goto(p, f)
        BY <2>2 DEF f
      <3>. QED  BY <1>0, <2>1, <3>1, <3>2, <1>3, GotoStep, FrameStepBufferInv
           DEF TypeInv, TypeOK, FrameStep, CheckWriting, shmBuffers
    <2>3. CASE Goto(p, NextBuffer(frame[p]))
      BY <1>0, <1>3, <2>1, <2>3, NextBufferStep, FrameStepBufferInv
      DEF TypeInv, TypeOK, FrameStep, CheckWriting, shmBuffers
    <2>. QED  BY <1>3, <2>2, <2>3 DEF CheckWriting
  <1>4. CASE StoreSequenceId(p)
    <2>1. b \in Buffers
      BY <1>0, <1>4 DEF StoreSequenceId, At, ActingPoints
    <2>2. FrameStep(p)
      BY <1>0, <1>4, NextBufferStep, IdleStep DEF StoreSequenceId
    <2>3. holds' \in [Managers -> [Buffers -> Holdings]]
      <3>1. "Writing" \in Holdings /\ holds \in [Managers -> [Buffers -> Holdings]]
        BY DEF Holdings, TypeInv, TypeOK
      <3>. QED  BY <1>4, <2>1, <3>1 DEF StoreSequenceId
    <2>4. frame[p].seq \in Nat
      BY <1>0 DEF Frames
    <2>. QED  BY <1>4, <2>1, <2>2, <2>3, <2>4, FrameStepBufferInv
         DEF TypeInv, TypeOK, FrameStep, StoreSequenceId, touchBuffer_
  <1>5. CASE CasId(p)
    <2>1. b \in Buffers
      BY <1>0, <1>5 DEF CasId, ActingPoints
    <2>2. FrameStep(p)
      BY <1>0, <1>5, <2>1, ContinueStep, SetStep DEF CasId, ActingPoints
    <2>. QED  BY <1>5, <2>1, <2>2, FrameStepBufferInv
         DEF TypeInv, TypeOK, FrameStep, CasId, shmStruct
  <1>6. CASE CasSem(p)
    <2>1. b \in Buffers
      BY <1>0, <1>6 DEF CasSem, ActingPoints
    <2>2. FrameStep(p)
      BY <1>0, <1>6, <2>1, ContinueStep, SetStep DEF CasSem, ActingPoints
    <2>3. Target(p) \in BufferSemaphoreFlags
      BY DEF Target, BufferSemaphoreFlags
    <2>. QED  BY <1>6, <2>1, <2>2, <2>3, FrameStepBufferInv
         DEF TypeInv, TypeOK, FrameStep, CasSem, shmStruct
  <1>. QED  BY <1>1, <1>2, <1>3, <1>4, <1>5, <1>6

\* The steps of GetBufferForReading.
LEMMA ReadingType ==
    ASSUME TypeInv, NEW p \in Managers,
           ScanForReading(p) \/ ReloadForReading(p) \/ CheckReading(p)
    PROVE  TypeInv'
  <1>. DEFINE b == frame[p].buf
  <1>0. /\ frame[p] \in Frames
        /\ frame[p].pc \in ActingPoints => b \in Buffers
    BY DEF TypeInv, TypeOK, BufferInv
  <1>. USE PointNames
  <1>1. CASE ScanForReading(p)
    <2>. DEFINE c == ScanBuffer(p)
                f == [frame[p] EXCEPT !.buf = c, !.seq = sequence_id[c]]
                g == [f EXCEPT !.pc = "reload"]
    <2>1. c \in Buffers
      BY ScanInBuffers DEF TypeInv
    <2>2. sequence_id[c] \in Nat
      BY <2>1 DEF TypeInv, TypeOK
    <2>. HIDE DEF c
    <2>3. f \in Frames
      BY <1>0, <2>1, <2>2 DEF Frames
    <2>. HIDE DEF f
    <2>4. g \in Frames /\ g.pc = "reload"
      BY <2>3 DEF Frames
    <2>. HIDE DEF g
    <2>5. \/ Goto(p, g) \/ Goto(p, NextBuffer(f)) \/ Goto(p, NextBuffer(frame[p]))
      BY <1>1 DEF ScanForReading, c, f, g
    <2>6. FrameStep(p)
      BY <1>0, <2>3, <2>4, <2>5, NextBufferStep, GotoStep, ScanPoints
    <2>. QED  BY <1>1, <2>6, FrameStepBufferInv
         DEF TypeInv, TypeOK, FrameStep, ScanForReading, touchBuffer_, shmStruct
  <1>2. CASE ReloadForReading(p)
    <2>1. CASE b # NoBuffer /\ Goto(p, [frame[p] EXCEPT !.pc = "cas_id", !.id = sem_id[b],
                                                      !.seq = sequence_id[b]])
      <3>. DEFINE f == [frame[p] EXCEPT !.pc = "cas_id", !.id = sem_id[b],
                                        !.seq = sequence_id[b]]
      <3>0. b \in Buffers
        BY <1>0, <2>1 DEF Frames
      <3>1. sem_id[b] \in Managers \cup {NoOne} /\ sequence_id[b] \in Nat
        BY <3>0 DEF TypeInv, TypeOK
      <3>2. f \in Frames /\ f.buf \in Buffers
        BY <1>0, <3>0, <3>1 DEF Frames, ActingPoints
      <3>. HIDE DEF f
      <3>3. Goto(p, f)
        BY <2>1 DEF f
      <3>. QED  BY <3>2, <3>3, <1>2, GotoStep, FrameStepBufferInv
           DEF TypeInv, TypeOK, FrameStep, ReloadForReading, touchBuffer_, shmStruct
    <2>2. CASE Goto(p, Retry(frame[p]))
      BY <1>0, <1>2, <2>2, RetryStep, FrameStepBufferInv
      DEF TypeInv, TypeOK, FrameStep, ReloadForReading, touchBuffer_, shmStruct
    <2>. QED  BY <1>2, <2>1, <2>2 DEF ReloadForReading
  <1>3. CASE CheckReading(p)
    <2>1. b \in Buffers /\ Next_(b) \in Buffers
      <3>1. b \in Buffers
        BY <1>0, <1>3 DEF CheckReading, At, ActingPoints
      <3>2. b \in Int
        BY <3>1 DEF Buffers
      <3>. QED  BY <3>1, <3>2, NextInBuffers
    <2>2. FrameStep(p)
      BY <1>0, <1>3, RetryStep, IdleStep DEF CheckReading
    <2>3. holds' \in [Managers -> [Buffers -> Holdings]]
      <3>1. "Reading" \in Holdings /\ holds \in [Managers -> [Buffers -> Holdings]]
        BY DEF Holdings, TypeInv, TypeOK
      <3>. QED  BY <1>3, <2>1, <3>1 DEF CheckReading
    <2>4. frame[p].seq \in Nat
      BY <1>0 DEF Frames
    <2>5. readBy' \in [Buffers -> SUBSET Managers]
      <3>1. readBy \in [Buffers -> SUBSET Managers] /\ readBy[b] \cup {p} \in SUBSET Managers
        BY <2>1 DEF TypeInv, TypeOK
      <3>. QED  BY <1>3, <2>1, <3>1 DEF CheckReading
    <2>. QED  BY <1>3, <2>1, <2>2, <2>3, <2>4, <2>5, FrameStepBufferInv
         DEF TypeInv, TypeOK, FrameStep, CheckReading, touchBuffer_
  <1>. QED  BY <1>1, <1>2, <1>3

LEMMA HoldsType ==
    ASSUME TypeInv, NEW p \in Managers, NEW b, NEW h \in Holdings,
           \/ holds' = [holds EXCEPT ![p][b] = h]
           \/ holds' = [holds EXCEPT ![p] = [c \in Buffers |-> "none"]]
    PROVE  holds' \in [Managers -> [Buffers -> Holdings]]
  <1>1. "none" \in Holdings /\ holds \in [Managers -> [Buffers -> Holdings]]
    BY DEF Holdings, TypeInv, TypeOK
  <1>2. [c \in Buffers |-> "none"] \in [Buffers -> Holdings]
    BY <1>1
  <1>. QED  BY <1>1, <1>2

LEMMA BeginDetachStep ==
    ASSUME TypeInv, NEW p \in Managers, BeginDetach(p)
    PROVE  FrameStep(p) /\ holds' \in [Managers -> [Buffers -> Holdings]]
  <1>1. 0 \in Buffers /\ "detach" \in Points /\ "Detach" \in Calls
    BY NumBuffersAssumption DEF Buffers, Points, Calls
  <1>2. {b \in Buffers : sem_id[b] = p} \in SUBSET Buffers
    OBVIOUS
  <1>3. FrameStep(p)
    BY <1>1, <1>2, StartStep, Zenon DEF BeginDetach, DetachFrame, GetBuffersOwnedByManager, BufferSemaphoreFlags
  <1>4. "none" \in Holdings
    BY DEF Holdings
  <1>. QED  BY <1>3, <1>4, HoldsType DEF BeginDetach

\* The calls a client makes.
LEMMA ClientType ==
    ASSUME TypeInv, NEW p \in Managers, Client(p)
    PROVE  TypeInv'
  <1>0. /\ 0 \in Buffers /\ NoOne \in Managers \cup {NoOne}
        /\ {"Empty", "Full"} \subseteq BufferSemaphoreFlags
        /\ Destinations \subseteq Managers \cup {NoOne}
        /\ {"none", "Writing", "Written", "Reading", "Read"} \subseteq Holdings
        /\ {} \in SUBSET Buffers
    BY NumBuffersAssumption, RolesAssumption DEF Buffers, BufferSemaphoreFlags, Holdings
  <1>00. {"scan", "copy", "store_sem", "release"} \subseteq Points
         /\ {"GetBufferForWriting", "GetBufferForReading", "Write", "Read", "MarkBufferFull",
              "MarkBufferEmpty", "MarkBufferEmptyForced", "ResetBuffer"} \subseteq Calls
    BY DEF Points, Calls
  <1>1. CASE GetBufferForWriting(p)
    <2>1. writer_pos \in Buffers
      BY DEF TypeInv, TypeOK
    <2>2. FrameStep(p)
      BY <1>0, <1>00, <1>1, <2>1, StartStep DEF GetBufferForWriting
    <2>. QED  BY <1>1, <2>2, FrameStepBufferInv
         DEF TypeInv, TypeOK, FrameStep, GetBufferForWriting, shmBuffers, shmStruct
  <1>2. CASE GetBufferForReading(p)
    <2>1. reader_pos \in Buffers
      BY DEF TypeInv, TypeOK
    <2>2. FrameStep(p)
      BY <1>0, <1>00, <1>2, <2>1, StartStep DEF GetBufferForReading
    <2>3. registered_reader' \in [Managers -> BOOLEAN]
      BY <1>2 DEF GetBufferForReading, TypeInv, TypeOK
    <2>4. reader_count' \in Int
      BY <1>2 DEF GetBufferForReading, TypeInv, TypeOK
    <2>. QED  BY <1>2, <2>2, <2>3, <2>4, FrameStepBufferInv
         DEF TypeInv, TypeOK, FrameStep, GetBufferForReading, shmBuffers
  <1>3. ASSUME NEW b \in Buffers, Write(p, b)
        PROVE  TypeInv'
    <2>1. FrameStep(p) /\ holds' \in [Managers -> [Buffers -> Holdings]]
      BY <1>0, <1>00, <1>3, StartStep, BeginDetachStep DEF Write, TypeInv, TypeOK
    <2>. QED  BY <1>3, <2>1, FrameStepBufferInv
         DEF TypeInv, TypeOK, FrameStep, Write, touchBuffer_, shmStruct
  <1>4. ASSUME NEW b \in Buffers, Read(p, b)
        PROVE  TypeInv'
    <2>1. FrameStep(p) /\ holds' \in [Managers -> [Buffers -> Holdings]]
      BY <1>0, <1>00, <1>4, StartStep, BeginDetachStep DEF Read, TypeInv, TypeOK
    <2>. QED  BY <1>4, <2>1, FrameStepBufferInv
         DEF TypeInv, TypeOK, FrameStep, Read, touchBuffer_, shmStruct
  <1>5. ASSUME NEW b \in Buffers, NEW d \in Destinations, MarkBufferFull(p, b, d)
        PROVE  TypeInv'
    <2>1. holds' \in [Managers -> [Buffers -> Holdings]]
      BY <1>0, <1>5, HoldsType DEF MarkBufferFull
    <2>2. CASE sem_id[b] = p
      <3>1. FrameStep(p)
        BY <1>0, <1>00, <1>5, <2>2, StartStep DEF MarkBufferFull
      <3>2. sem' \in [Buffers -> BufferSemaphoreFlags] /\ readBy' \in [Buffers -> SUBSET Managers]
        BY <1>0, <1>5, <2>2 DEF MarkBufferFull, TypeInv, TypeOK
      <3>. QED  BY <1>5, <2>1, <3>1, <3>2, FrameStepBufferInv
           DEF TypeInv, TypeOK, FrameStep, MarkBufferFull, touchBuffer_, shmStruct
    <2>3. CASE sem_id[b] # p
      BY <1>5, <2>1, <2>3
      DEF TypeInv, TypeOK, BufferInv, MarkBufferFull, touchBuffer_, shmStruct
    <2>. QED  BY <2>2, <2>3
  <1>6. ASSUME NEW b \in Buffers, MarkBufferEmpty(p, b)
        PROVE  TypeInv'
    <2>1. FrameStep(p) /\ holds' \in [Managers -> [Buffers -> Holdings]]
      BY <1>0, <1>00, <1>6, StartStep, HoldsType, BeginDetachStep DEF MarkBufferEmpty
    <2>. QED  BY <1>6, <2>1, FrameStepBufferInv
         DEF TypeInv, TypeOK, FrameStep, MarkBufferEmpty, touchBuffer_, shmStruct
  <1>7. ASSUME NEW b \in Buffers, MarkBufferEmptyForced(p, b)
        PROVE  TypeInv'
    <2>1. FrameStep(p) /\ holds' \in [Managers -> [Buffers -> Holdings]]
      BY <1>0, <1>00, <1>7, StartStep, HoldsType DEF MarkBufferEmptyForced
    <2>. QED  BY <1>7, <2>1, FrameStepBufferInv
         DEF TypeInv, TypeOK, FrameStep, MarkBufferEmptyForced, touchBuffer_, shmStruct
  <1>8. ASSUME NEW b \in Buffers, Poll(p, b)
        PROVE  TypeInv'
    <2>1. FrameStep(p)
      BY <1>0, <1>00, <1>8, StartStep DEF Poll
    <2>. QED  BY <1>8, <2>1, FrameStepBufferInv
         DEF TypeInv, TypeOK, FrameStep, Poll, shmBuffers, shmStruct
  <1>. QED  BY <1>1, <1>2, <1>3, <1>4, <1>5, <1>6, <1>7, <1>8 DEF Client, Copy, Publish, Release

\* The end of a copy, and the stores of a release.
LEMMA ReleaseType ==
    ASSUME TypeInv, NEW p \in Managers,
           WriteEnd(p) \/ ReadEnd(p) \/ ReleaseStoreSem(p) \/ ReleaseStoreId(p)
    PROVE  TypeInv'
  <1>. DEFINE b == frame[p].buf
  <1>0. /\ frame[p] \in Frames
        /\ frame[p].pc \in ActingPoints => b \in Buffers
        /\ {"Written", "Read"} \subseteq Holdings
    BY DEF TypeInv, TypeOK, BufferInv, Holdings
  <1>1. CASE WriteEnd(p)
    <2>1. b \in Buffers
      BY <1>0, <1>1 DEF WriteEnd, At, ActingPoints
    <2>2. FrameStep(p) /\ holds' \in [Managers -> [Buffers -> Holdings]]
      BY <1>0, <1>1, IdleStep, HoldsType DEF WriteEnd
    <2>3. last_seen_id' \in [Managers -> Nat]
      BY <1>1, <2>1 DEF WriteEnd, TypeInv, TypeOK
    <2>. QED  BY <1>1, <2>2, <2>3, FrameStepBufferInv
         DEF TypeInv, TypeOK, FrameStep, WriteEnd, touchBuffer_, shmStruct
  <1>2. CASE ReadEnd(p)
    <2>1. FrameStep(p) /\ holds' \in [Managers -> [Buffers -> Holdings]]
      BY <1>0, <1>2, IdleStep, HoldsType DEF ReadEnd
    <2>. QED  BY <1>2, <2>1, FrameStepBufferInv
         DEF TypeInv, TypeOK, FrameStep, ReadEnd, touchBuffer_, shmStruct
  <1>3. CASE ReleaseStoreSem(p)
    <2>1. b \in Buffers /\ Next_(b) \in Buffers
      <3>1. b \in Buffers
        BY <1>0, <1>3 DEF ReleaseStoreSem, ActingPoints
      <3>2. b \in Int
        BY <3>1 DEF Buffers
      <3>. QED  BY <3>1, <3>2, NextInBuffers
    <2>2. Set(p, "release") /\ "release" \in Points
      BY <1>3 DEF ReleaseStoreSem, Set, Points
    <2>3. FrameStep(p)
      BY <2>1, <2>2, SetStep
    <2>4. sem' \in [Buffers -> BufferSemaphoreFlags] /\ writePos' \in [Buffers -> {0, 1}]
          /\ reader_pos' \in Buffers
      BY <1>3, <2>1 DEF ReleaseStoreSem, TypeInv, TypeOK, BufferSemaphoreFlags
    <2>. QED  BY <1>3, <2>3, <2>4, FrameStepBufferInv
         DEF TypeInv, TypeOK, FrameStep, ReleaseStoreSem
  <1>4. CASE ReleaseStoreId(p)
    <2>1. FrameStep(p)
      BY <1>4, IdleStep DEF ReleaseStoreId
    <2>2. sem_id' \in [Buffers -> Managers \cup {NoOne}]
      BY <1>0, <1>4 DEF ReleaseStoreId, ReleasedTo, TypeInv, TypeOK, Frames
    <2>. QED  BY <1>4, <2>1, <2>2, FrameStepBufferInv
         DEF TypeInv, TypeOK, FrameStep, ReleaseStoreId, shmStruct
  <1>. QED  BY <1>1, <1>2, <1>3, <1>4

\* Detach, the loss of a manager, and the passing of time.
LEMMA DetachType ==
    ASSUME TypeInv, NEW p \in Managers,
           \/ DetachStoreSem(p) \/ DetachStoreId(p) \/ DetachEnd(p)
           \/ Detach(p) \/ Crash(p)
    PROVE  TypeInv'
  <1>0. frame[p] \in Frames
    BY DEF TypeInv, TypeOK
  <1>1. CASE DetachStoreSem(p)
    <2>1. PICK b \in frame[p].todo :
             /\ sem' = [sem EXCEPT ![b] = GivenBack(@)]
             /\ readBy' = [readBy EXCEPT ![b] = IF sem[b] = "Reading" THEN @ \ {p} ELSE @]
             /\ Goto(p, [frame[p] EXCEPT !.pc = "detach_id", !.buf = b])
      BY <1>1 DEF DetachStoreSem
    <2>2. b \in Buffers
      BY <1>0, <2>1 DEF Frames
    <2>. DEFINE f == [frame[p] EXCEPT !.pc = "detach_id", !.buf = b]
    <2>3. f \in Frames /\ f.buf \in Buffers
      <3>1. "detach_id" \in Points
        BY DEF Points
      <3>. QED  BY <1>0, <2>2, <3>1 DEF Frames
    <2>. HIDE DEF f
    <2>4. FrameStep(p)
      BY <2>1, <2>3, GotoStep DEF f
    <2>5. sem' \in [Buffers -> BufferSemaphoreFlags]
      BY <2>1, <2>2 DEF TypeInv, TypeOK, BufferSemaphoreFlags, GivenBack
    <2>6. readBy' \in [Buffers -> SUBSET Managers]
      <3>1. readBy[b] \ {p} \in SUBSET Managers /\ readBy \in [Buffers -> SUBSET Managers]
        BY <2>2 DEF TypeInv, TypeOK
      <3>. QED  BY <2>1, <2>2, <3>1
    <2>. QED  BY <1>1, <2>4, <2>5, <2>6, FrameStepBufferInv
         DEF TypeInv, TypeOK, FrameStep, DetachStoreSem, shmStruct
  <1>2. CASE DetachStoreId(p)
    <2>. DEFINE f == [frame[p] EXCEPT !.pc = "detach", !.todo = @ \ {frame[p].buf}]
    <2>1. frame[p].todo \ {frame[p].buf} \in SUBSET Buffers /\ "detach" \in Points
      BY <1>0 DEF Frames, Points
    <2>2. f \in Frames /\ f.pc = "detach"
      BY <1>0, <2>1 DEF Frames
    <2>. HIDE DEF f
    <2>3. FrameStep(p)
      BY <1>2, <2>2, GotoStep, ScanPoints DEF DetachStoreId, f
    <2>. QED  BY <1>2, <2>3, FrameStepBufferInv
         DEF TypeInv, TypeOK, FrameStep, DetachStoreId, shmStruct, NoOne
  <1>3. CASE DetachEnd(p)
    <2>1. FrameStep(p)
      BY <1>3, IdleStep DEF DetachEnd
    <2>2. registered_reader' \in [Managers -> BOOLEAN]
      BY <1>3 DEF DetachEnd, TypeInv, TypeOK
    <2>3. reader_count' \in Int
      BY <1>3 DEF DetachEnd, TypeInv, TypeOK
    <2>. QED  BY <1>3, <2>1, <2>2, <2>3, FrameStepBufferInv
         DEF TypeInv, TypeOK, FrameStep, DetachEnd, shmBuffers
  <1>4. CASE Detach(p)
    <2>1. FrameStep(p) /\ holds' \in [Managers -> [Buffers -> Holdings]]
      BY <1>4, BeginDetachStep DEF Detach
    <2>. QED  BY <1>4, <2>1, FrameStepBufferInv
         DEF TypeInv, TypeOK, FrameStep, Detach, shmBuffers, shmStruct
  <1>5. CASE Crash(p)
    <2>1. FrameStep(p)
      BY <1>5, IdleStep DEF Crash
    <2>2. holds' \in [Managers -> [Buffers -> Holdings]]
      <3>1. "none" \in Holdings
        BY DEF Holdings
      <3>. QED  BY <1>5, <3>1, HoldsType DEF Crash
    <2>. QED  BY <1>5, <2>1, <2>2, FrameStepBufferInv
         DEF TypeInv, TypeOK, FrameStep, Crash, shmBuffers, shmStruct
  <1>. QED  BY <1>1, <1>2, <1>3, <1>4, <1>5

LEMMA NextTypeInv == TypeInv /\ [Next]_vars => TypeInv'
  <1>. SUFFICES ASSUME TypeInv, [Next]_vars PROVE TypeInv'
    OBVIOUS
  <1>1. ASSUME NEW p \in Managers, Step(p) \/ Client(p) \/ Detach(p) \/ Crash(p)
        PROVE  TypeInv'
    BY <1>1, ResetType, WritingType, ReadingType, ClientType, ReleaseType, DetachType DEF Step
  <1>2. ASSUME NEW b \in Buffers, Expire(b)
        PROVE  TypeInv'
    <2>1. stale' \in [Buffers -> BOOLEAN]
      BY <1>2 DEF Expire, TypeInv, TypeOK
    <2>. QED  BY <1>2, <2>1 DEF Expire, TypeInv, TypeOK, BufferInv, shmStruct
  <1>3. CASE UNCHANGED vars
    BY <1>3 DEF TypeInv, TypeOK, BufferInv, vars
  <1>. QED  BY <1>1, <1>2, <1>3 DEF Next

\* Every shared field and every call frame keeps its type, in every mode of the
\* segment: with overwrite, timeouts, signals and crashes.
THEOREM TypeCorrect == Spec => []TypeOK
  <1>1. Spec => []TypeInv
    BY InitTypeInv, NextTypeInv, PTL DEF Spec
  <1>2. TypeInv => TypeOK
    BY DEF TypeInv
  <1>. QED  BY <1>1, <1>2, PTL

-----------------------------------------------------------------------------
(* Events in order: a broadcast reader meets growing ids *)

\* Only the end of GetBufferForReading gives a buffer to a reader.
LEMMA AcquiresByCheckReading ==
    ASSUME TypeInv, [Next]_vars, NEW p \in Managers, NEW b \in Buffers, Acquires(p, b)
    PROVE  CheckReading(p) /\ b = frame[p].buf
  <1>1. holds' # holds
    BY DEF Acquires
  <1>2. ASSUME NEW q \in Managers, NEW c \in Buffers, NEW h \in {"none", "Writing", "Written", "Read"},
               holds' = [holds EXCEPT ![q][c] = h]
        PROVE  FALSE
    BY <1>2 DEF Acquires, TypeInv, TypeOK
  <1>3. ASSUME NEW q \in Managers, holds' = [holds EXCEPT ![q] = [c \in Buffers |-> "none"]]
        PROVE  FALSE
    BY <1>3 DEF Acquires, TypeInv, TypeOK
  <1>4. ASSUME NEW q \in Managers, Step(q), ~CheckReading(q) PROVE FALSE
    <2>0. frame[q].pc \in ActingPoints => frame[q].buf \in Buffers
      BY DEF TypeInv, BufferInv
    <2>1. StoreSequenceId(q) \/ WriteEnd(q) \/ ReadEnd(q)
      BY <1>1, <1>4 DEF Step, ResetBuffer, ResetRecheck, ResetStoreFull, ResetStoreEmpty,
         ResetStoreId, PollEnd, LoadSemForWriting, LoadIdForWriting, CheckWriting, CasId,
         CasSem, ScanForReading, ReloadForReading, ReleaseStoreSem, ReleaseStoreId,
         DetachStoreSem, DetachStoreId, DetachEnd
    <2>2. frame[q].buf \in Buffers
      BY <2>0, <2>1 DEF StoreSequenceId, WriteEnd, ReadEnd, At, ActingPoints
    <2>. QED  BY <1>1, <1>2, <2>1, <2>2 DEF StoreSequenceId, WriteEnd, ReadEnd
  <1>5. ASSUME NEW q \in Managers, Client(q) PROVE FALSE
    BY <1>1, <1>2, <1>3, <1>5 DEF Client, Copy, Publish, Release, GetBufferForWriting,
       GetBufferForReading, Poll, Write, Read, MarkBufferFull, MarkBufferEmpty,
       MarkBufferEmptyForced, BeginDetach
  <1>6. ASSUME NEW q \in Managers, Detach(q) \/ Crash(q) PROVE FALSE
    BY <1>1, <1>3, <1>6 DEF Detach, Crash, BeginDetach
  <1>7. ASSUME NEW c \in Buffers, Expire(c) PROVE FALSE
    BY <1>1, <1>7 DEF Expire
  <1>8. PICK q \in Managers : CheckReading(q)
    BY <1>1, <1>4, <1>5, <1>6, <1>7 DEF Next, vars
  <1>9. holds' = [holds EXCEPT ![q][frame[q].buf] = "Reading"]
    BY <1>1, <1>8 DEF CheckReading
  <1>. QED  BY <1>8, <1>9 DEF Acquires, TypeInv, TypeOK

\* Where a step leaves the frames.
LEMMA GotoMoves ==
    ASSUME TypeInv, NEW p \in Managers, NEW f, Goto(p, f)
    PROVE  frame'[p] = f /\ \A q \in Managers : q # p => frame'[q] = frame[q]
  BY DEF Goto, TypeInv, TypeOK

LEMMA SetMoves ==
    ASSUME TypeInv, NEW p \in Managers, NEW x, Set(p, x)
    PROVE  /\ frame'[p].pc = x /\ frame'[p].call = frame[p].call
           /\ frame'[p].buf = frame[p].buf /\ frame'[p].seq = frame[p].seq
           /\ frame'[p].want = frame[p].want
           /\ \A q \in Managers : q # p => frame'[q] = frame[q]
  <1>1. frame'[p] = [frame[p] EXCEPT !.pc = x] /\ \A q \in Managers : q # p => frame'[q] = frame[q]
    BY GotoMoves DEF Set
  <1>2. frame[p] \in Frames
    BY DEF TypeInv, TypeOK
  <1>. QED  BY <1>1, <1>2 DEF Frames

\* The scan of frame f goes on at g, from a retry without a candidate, or has
\* come to its end.
Scans(f, g) ==
    \/ g = IdleFrame
    \/ /\ g.call = f.call /\ g.pc \in {"scan", "reload"}
       /\ g.buf = NoBuffer \/ (g.buf = f.buf /\ g.seq = f.seq)
       /\ g.call = "GetBufferForReading" => g.want = f.want

LEMMA NextBufferScans == ASSUME NEW f \in Frames PROVE Scans(f, NextBuffer(f))
  <1>1. CASE f.ii + 1 < NumBuffers
    BY <1>1 DEF NextBuffer, Scans, Frames
  <1>2. CASE ~(f.ii + 1 < NumBuffers) /\ f.call = "GetBufferForReading"
    BY <1>2 DEF NextBuffer, Scans, Frames
  <1>3. CASE ~(f.ii + 1 < NumBuffers) /\ f.call # "GetBufferForReading"
    <2>1. CASE ~Overwrite \/ f.want = "Reading"
      BY <1>3, <2>1 DEF NextBuffer, Scans
    <2>2. CASE ~(~Overwrite \/ f.want = "Reading")
      <3>. DEFINE w == IF f.want = "Empty" THEN "Full" ELSE "Reading"
      <3>1. NextBuffer(f) = [f EXCEPT !.pc = "scan", !.ii = 0, !.want = w]
        BY <1>3, <2>2 DEF NextBuffer
      <3>. QED  BY <1>3, <3>1 DEF Scans, Frames
    <2>. QED  BY <2>1, <2>2
  <1>. QED  BY <1>1, <1>2, <1>3

LEMMA RetryScans == ASSUME NEW f \in Frames PROVE Scans(f, Retry(f))
  BY DEF Retry, Scans, Frames

LEMMA ContinueScans == ASSUME NEW f \in Frames PROVE Scans(f, Continue(f))
  BY NextBufferScans, RetryScans DEF Continue

Gets == {"GetBufferForWriting", "GetBufferForReading"}

\* A step of p in which its call ends, or goes on with the candidate it has.
Onward(p) ==
    /\ \A q \in Managers : q # p => frame'[q] = frame[q] /\ last_seen_id'[q] = last_seen_id[q]
    /\ \/ frame'[p].call \notin Gets
       \/ /\ last_seen_id' = last_seen_id
          /\ frame'[p].call = frame[p].call /\ frame'[p].pc # "store_seq"
          /\ \/ frame[p].call = "GetBufferForWriting"
             \/ frame'[p].buf = NoBuffer
             \/ frame'[p].buf = frame[p].buf /\ frame'[p].seq = frame[p].seq

LEMMA OnwardOrder ==
    ASSUME OrderInv, NEW p \in Managers, Onward(p), UNCHANGED <<sequence_id, next_sequence_id>>
    PROVE  OrderInv'
  <1>1. IdsInv'
    BY DEF OrderInv, IdsInv
  <1>2. NumberInv(p)' /\ CandidateInv(p)'
    BY DEF OrderInv, NumberInv, CandidateInv, Onward, Gets
  <1>3. ASSUME NEW q \in Managers, q # p PROVE NumberInv(q)' /\ CandidateInv(q)'
    BY <1>3 DEF OrderInv, NumberInv, CandidateInv, Onward
  <1>. QED  BY <1>1, <1>2, <1>3 DEF OrderInv

LEMMA SetOnward ==
    ASSUME TypeInv, NEW p \in Managers, NEW x, Set(p, x), x # "store_seq", UNCHANGED last_seen_id
    PROVE  Onward(p)
  BY SetMoves DEF Onward

LEMMA ScansOnward ==
    ASSUME TypeInv, NEW p \in Managers, NEW f, Scans(frame[p], f), Goto(p, f), UNCHANGED last_seen_id
    PROVE  Onward(p)
  BY GotoMoves DEF Onward, Scans, Gets, IdleFrame

\* A frame that is not in GetBufferForWriting or GetBufferForReading.
LEMMA ElsewhereOnward ==
    ASSUME TypeInv, NEW p \in Managers, NEW f, Goto(p, f), f.call \notin Gets,
           \A q \in Managers : q # p => last_seen_id'[q] = last_seen_id[q]
    PROVE  Onward(p)
  BY GotoMoves DEF Onward

\* The steps that neither fill a buffer nor look for a candidate.
LEMMA StepOnward ==
    ASSUME TypeInv, NEW p \in Managers, Step(p),
           ~CheckWriting(p), ~StoreSequenceId(p), ~ScanForReading(p), ~ReloadForReading(p)
    PROVE  Onward(p) /\ UNCHANGED <<sequence_id, next_sequence_id>>
  <1>0. frame[p] \in Frames /\ last_seen_id \in [Managers -> Nat]
    BY DEF TypeInv, TypeOK
  <1>i. IdleFrame.call \notin Gets /\ Gone.call \notin Gets
    BY DEF IdleFrame, Gone, Gets
  <1>1. CASE ResetBuffer(p) \/ ResetRecheck(p) \/ ResetStoreFull(p) \/ ResetStoreEmpty(p) \/ ResetStoreId(p)
    BY <1>1, SetOnward DEF ResetBuffer, ResetRecheck, ResetStoreFull, ResetStoreEmpty,
       ResetStoreId, shmBuffers, shmStruct
  <1>2. CASE PollEnd(p) \/ ReadEnd(p) \/ ReleaseStoreId(p) \/ DetachEnd(p) \/ WriteEnd(p)
    <2>1. Goto(p, IdleFrame) \/ Goto(p, Gone)
      BY <1>2 DEF PollEnd, ReadEnd, ReleaseStoreId, DetachEnd, WriteEnd
    <2>2. \A q \in Managers : q # p => last_seen_id'[q] = last_seen_id[q]
      BY <1>0, <1>2 DEF PollEnd, ReadEnd, ReleaseStoreId, DetachEnd, WriteEnd
    <2>3. UNCHANGED <<sequence_id, next_sequence_id>>
      BY <1>2 DEF PollEnd, ReadEnd, ReleaseStoreId, DetachEnd, WriteEnd, shmBuffers, shmStruct
    <2>. QED  BY <1>i, <2>1, <2>2, <2>3, ElsewhereOnward
  <1>3. CASE LoadSemForWriting(p)
    <2>1. UNCHANGED <<sequence_id, next_sequence_id, last_seen_id>> /\ frame[p].call = "GetBufferForWriting"
      BY <1>3 DEF LoadSemForWriting, shmBuffers, shmStruct
    <2>2. CASE Goto(p, NextBuffer(frame[p]))
      BY <1>0, <2>1, <2>2, NextBufferScans, ScansOnward
    <2>3. CASE Goto(p, [frame[p] EXCEPT !.pc = "load_id", !.buf = ScanBuffer(p)])
      <3>1. frame'[p] = [frame[p] EXCEPT !.pc = "load_id", !.buf = ScanBuffer(p)]
            /\ \A q \in Managers : q # p => frame'[q] = frame[q]
        BY <2>3, GotoMoves
      <3>. QED  BY <1>0, <2>1, <3>1 DEF Onward, Frames
    <2>. QED  BY <1>3, <2>2, <2>3 DEF LoadSemForWriting
  <1>4. CASE LoadIdForWriting(p)
    <2>1. UNCHANGED <<sequence_id, next_sequence_id, last_seen_id>>
          /\ frame[p].call = "GetBufferForWriting"
      BY <1>4 DEF LoadIdForWriting, At, shmStruct
    <2>2. CASE Goto(p, NextBuffer(frame[p]))
      BY <1>0, <2>1, <2>2, NextBufferScans, ScansOnward
    <2>3. CASE Goto(p, [frame[p] EXCEPT !.pc = "cas_id", !.id = sem_id[frame[p].buf]])
      <3>1. frame'[p] = [frame[p] EXCEPT !.pc = "cas_id", !.id = sem_id[frame[p].buf]]
            /\ \A q \in Managers : q # p => frame'[q] = frame[q]
        BY <2>3, GotoMoves
      <3>. QED  BY <1>0, <2>1, <3>1 DEF Onward, Frames
    <2>. QED  BY <1>4, <2>2, <2>3 DEF LoadIdForWriting
  <1>5. CASE CasId(p) \/ CasSem(p)
    <2>1. Set(p, "cas_sem") \/ Set(p, "check") \/ Goto(p, Continue(frame[p]))
      BY <1>5 DEF CasId, CasSem
    <2>2. UNCHANGED <<sequence_id, next_sequence_id, last_seen_id>>
      BY <1>5 DEF CasId, CasSem, shmStruct
    <2>. QED  BY <1>0, <2>1, <2>2, SetOnward, ContinueScans, ScansOnward
  <1>6. CASE CheckReading(p)
    <2>1. UNCHANGED <<sequence_id, next_sequence_id>>
      BY <1>6 DEF CheckReading
    <2>2. CASE Goto(p, Retry(frame[p])) /\ UNCHANGED last_seen_id
      BY <1>0, <2>1, <2>2, RetryScans, ScansOnward
    <2>3. CASE Goto(p, IdleFrame) /\ last_seen_id' = [last_seen_id EXCEPT ![p] = frame[p].seq]
      BY <1>0, <1>i, <2>1, <2>3, ElsewhereOnward
    <2>. QED  BY <1>6, <2>2, <2>3 DEF CheckReading
  <1>7. CASE ReleaseStoreSem(p)
    BY <1>7, SetOnward DEF ReleaseStoreSem, Set
  <1>8. CASE DetachStoreSem(p)
    <2>1. PICK b \in frame[p].todo : Goto(p, [frame[p] EXCEPT !.pc = "detach_id", !.buf = b])
      BY <1>8 DEF DetachStoreSem
    <2>2. frame[p].call = "Detach"
      BY <1>8 DEF DetachStoreSem, At
    <2>. DEFINE f == [frame[p] EXCEPT !.pc = "detach_id", !.buf = b]
    <2>3. f.call \notin Gets
      BY <1>0, <2>2 DEF Frames, Gets
    <2>. QED  BY <1>8, <2>1, <2>3, ElsewhereOnward DEF DetachStoreSem, shmStruct
  <1>9. CASE DetachStoreId(p)
    <2>. DEFINE f == [frame[p] EXCEPT !.pc = "detach", !.todo = @ \ {frame[p].buf}]
    <2>1. f.call \notin Gets
      BY <1>0, <1>9 DEF DetachStoreId, At, Frames, Gets
    <2>2. Goto(p, f)
      BY <1>9 DEF DetachStoreId
    <2>. QED  BY <1>9, <2>1, <2>2, ElsewhereOnward DEF DetachStoreId, shmStruct
  <1>. QED  BY <1>1, <1>2, <1>3, <1>4, <1>5, <1>6, <1>7, <1>8, <1>9 DEF Step

\* Every call but GetBufferForWriting and GetBufferForReading starts elsewhere.
LEMMA ClientOnward ==
    ASSUME TypeInv, NEW p \in Managers, Client(p) \/ Detach(p) \/ Crash(p),
           ~GetBufferForWriting(p), ~GetBufferForReading(p)
    PROVE  Onward(p) \/ UNCHANGED frame
  <1>1. CASE Crash(p)
    BY <1>1, ElsewhereOnward DEF Crash, Gone, IdleFrame, Gets
  <1>2. ASSUME BeginDetach(p), UNCHANGED last_seen_id PROVE Onward(p)
    BY <1>2, ElsewhereOnward DEF BeginDetach, DetachFrame, IdleFrame, Gets
  <1>3. ASSUME NEW b \in Buffers, Write(p, b) \/ Read(p, b) \/ MarkBufferEmpty(p, b)
        PROVE  Onward(p)
    <2>1. UNCHANGED last_seen_id
      BY <1>3 DEF Write, Read, MarkBufferEmpty
    <2>2. PICK c \in {"Write", "Read", "MarkBufferEmpty"}, x \in {"copy", "store_sem"} :
             BeginDetach(p) \/ Goto(p, [IdleFrame EXCEPT !.call = c, !.pc = x, !.buf = b])
      BY <1>3 DEF Write, Read, MarkBufferEmpty
    <2>. QED  BY <1>2, <2>1, <2>2, ElsewhereOnward DEF IdleFrame, Gets
  <1>4. ASSUME NEW b \in Buffers, NEW d \in Destinations, MarkBufferFull(p, b, d)
        PROVE  Onward(p) \/ UNCHANGED frame
    BY <1>4, ElsewhereOnward DEF MarkBufferFull, IdleFrame, Gets
  <1>5. ASSUME NEW b \in Buffers, Poll(p, b) PROVE Onward(p)
    BY <1>5, ElsewhereOnward DEF Poll, IdleFrame, Gets
  <1>6. ASSUME NEW b \in Buffers, MarkBufferEmptyForced(p, b) PROVE Onward(p)
    BY <1>6, ElsewhereOnward DEF MarkBufferEmptyForced, IdleFrame, Gets
  <1>. QED  BY <1>1, <1>2, <1>3, <1>4, <1>5, <1>6 DEF Client, Copy, Publish, Release, Detach

\* The steps that look for a candidate in broadcast mode.
LEMMA CandidateOrder ==
    ASSUME ~Destructive, TypeInv, OrderInv, NEW p \in Managers,
           ScanForReading(p) \/ ReloadForReading(p)
    PROVE  OrderInv'
  <1>0. frame[p] \in Frames /\ CandidateInv(p)
    BY DEF TypeInv, TypeOK, OrderInv
  <1>u. UNCHANGED <<sequence_id, next_sequence_id, last_seen_id>>
        /\ frame[p].call = "GetBufferForReading"
    BY DEF ScanForReading, ReloadForReading, At, shmStruct
  <1>k. ASSUME NEW f, Goto(p, f), f.call = "GetBufferForReading",
               f.buf # NoBuffer => last_seen_id[p] < f.seq /\ f.seq =< sequence_id[f.buf]
        PROVE  OrderInv'
    <2>1. frame'[p] = f /\ \A q \in Managers : q # p => frame'[q] = frame[q]
      BY <1>k, GotoMoves
    <2>2. NumberInv(p)' /\ CandidateInv(p)'
      BY <1>u, <1>k, <2>1 DEF NumberInv, CandidateInv
    <2>3. ASSUME NEW q \in Managers, q # p PROVE NumberInv(q)' /\ CandidateInv(q)'
      BY <1>u, <2>1, <2>3 DEF OrderInv, NumberInv, CandidateInv
    <2>. QED  BY <1>u, <2>2, <2>3 DEF OrderInv, IdsInv
  <1>s. ASSUME NEW f \in Frames, f.call = "GetBufferForReading",
               f.buf # NoBuffer => last_seen_id[p] < f.seq /\ f.seq =< sequence_id[f.buf],
               NEW g, Scans(f, g), Goto(p, g)
        PROVE  OrderInv'
    <2>1. CASE g = IdleFrame
      BY <1>s, <1>u, <2>1, ElsewhereOnward, OnwardOrder DEF IdleFrame, Gets
    <2>2. CASE g # IdleFrame
      <3>1. g.call = "GetBufferForReading"
        BY <1>s, <2>2 DEF Scans
      <3>2. g.buf # NoBuffer => last_seen_id[p] < g.seq /\ g.seq =< sequence_id[g.buf]
        BY <1>s, <2>2 DEF Scans
      <3>. QED  BY <1>k, <1>s, <3>1, <3>2
    <2>. QED  BY <2>1, <2>2
  <1>f. frame[p].buf # NoBuffer => last_seen_id[p] < frame[p].seq
                                   /\ frame[p].seq =< sequence_id[frame[p].buf]
    BY <1>0, <1>u DEF CandidateInv
  <1>1. CASE ScanForReading(p)
    <2>. DEFINE b == ScanBuffer(p)
                f == [frame[p] EXCEPT !.buf = b, !.seq = sequence_id[b]]
                g == [f EXCEPT !.pc = "reload"]
    <2>1. CASE Goto(p, NextBuffer(frame[p]))
      BY <1>0, <1>f, <1>s, <1>u, <2>1, NextBufferScans
    <2>2. CASE ~Goto(p, NextBuffer(frame[p]))
      <3>1. Readable(p, b) /\ (Goto(p, g) \/ Goto(p, NextBuffer(f)))
        BY <1>1, <2>2 DEF ScanForReading
      <3>2. b \in Buffers /\ sequence_id[b] \in Nat /\ last_seen_id[p] < sequence_id[b]
        BY <3>1, ScanInBuffers DEF Readable, TypeInv, TypeOK
      <3>. HIDE DEF b
      <3>3. f \in Frames /\ f.call = "GetBufferForReading" /\ f.buf = b /\ f.seq = sequence_id[b]
        BY <1>0, <1>u, <3>2 DEF Frames
      <3>4. g.call = "GetBufferForReading" /\ g.buf = b /\ g.seq = sequence_id[b]
        BY <1>0, <1>u, <3>2 DEF Frames
      <3>. HIDE DEF f, g
      <3>5. f.buf # NoBuffer => last_seen_id[p] < f.seq /\ f.seq =< sequence_id[f.buf]
        BY <3>2, <3>3
      <3>6. g.buf # NoBuffer => last_seen_id[p] < g.seq /\ g.seq =< sequence_id[g.buf]
        BY <3>2, <3>4
      <3>7. CASE Goto(p, g)
        BY <1>k, <3>4, <3>6, <3>7
      <3>8. CASE Goto(p, NextBuffer(f))
        BY <1>s, <3>3, <3>5, <3>8, NextBufferScans
      <3>. QED  BY <3>1, <3>7, <3>8
    <2>. QED  BY <2>1, <2>2
  <1>2. CASE ReloadForReading(p)
    <2>. DEFINE b == frame[p].buf
                f == [frame[p] EXCEPT !.pc = "cas_id", !.id = sem_id[b], !.seq = sequence_id[b]]
    <2>1. CASE Goto(p, Retry(frame[p]))
      BY <1>0, <1>f, <1>s, <1>u, <2>1, RetryScans
    <2>2. CASE ~Goto(p, Retry(frame[p]))
      <3>1. b # NoBuffer /\ Goto(p, f)
        BY <1>2, <2>2 DEF ReloadForReading
      <3>2. b \in Buffers
        BY <1>0, <3>1 DEF Frames
      <3>3. sequence_id[b] \in Nat /\ last_seen_id[p] \in Nat /\ frame[p].seq \in Nat
        BY <1>0, <3>2 DEF Frames, TypeInv, TypeOK
      <3>4. last_seen_id[p] < sequence_id[b]
        BY <1>f, <3>1, <3>3
      <3>5. f.call = "GetBufferForReading" /\ f.buf = b /\ f.seq = sequence_id[b]
        BY <1>0, <1>u DEF Frames
      <3>. HIDE DEF f
      <3>. QED  BY <1>k, <3>1, <3>3, <3>4, <3>5
    <2>. QED  BY <2>1, <2>2
  <1>. QED  BY <1>1, <1>2

\* The one writer stores the next id: the ids of buffers only grow.
LEMMA StoreSequenceIdOrder ==
    ASSUME OneWriter, TypeInv, OrderInv, NEW p \in Managers, StoreSequenceId(p)
    PROVE  OrderInv'
  <1>. DEFINE b == frame[p].buf
  <1>1. /\ frame[p] \in Frames /\ frame[p].pc = "store_seq"
        /\ frame[p].call = "GetBufferForWriting" /\ b \in Buffers
    BY DEF StoreSequenceId, At, TypeInv, TypeOK, BufferInv, ActingPoints
  <1>2. p \in Writers /\ frame[p].seq = next_sequence_id + 1
    BY <1>1 DEF OrderInv, NumberInv
  <1>3. /\ next_sequence_id' = next_sequence_id + 1
        /\ sequence_id' = [sequence_id EXCEPT ![b] = next_sequence_id + 1]
        /\ UNCHANGED last_seen_id
    BY <1>2 DEF StoreSequenceId
  <1>4. next_sequence_id \in Nat /\ sequence_id \in [Buffers -> Nat]
        /\ \A c \in Buffers : sequence_id[c] =< next_sequence_id
    BY DEF TypeInv, TypeOK, OrderInv, IdsInv
  <1>5. \A c \in Buffers : sequence_id'[c] \in Nat /\ sequence_id[c] =< sequence_id'[c]
                           /\ sequence_id'[c] =< next_sequence_id'
    BY <1>1, <1>3, <1>4
  <1>6. PICK f : Goto(p, f) /\ Scans(frame[p], f)
    BY <1>1, NextBufferScans DEF StoreSequenceId, Scans
  <1>7. frame'[p] = f /\ \A q \in Managers : q # p => frame'[q] = frame[q]
    BY <1>6, GotoMoves
  <1>8. NumberInv(p)' /\ CandidateInv(p)'
    BY <1>1, <1>2, <1>6, <1>7 DEF Scans, IdleFrame, NumberInv, CandidateInv
  <1>9. ASSUME NEW q \in Managers, q # p PROVE NumberInv(q)' /\ CandidateInv(q)'
    <2>1. NumberInv(q)'
      BY <1>2, <1>7, <1>9 DEF OneWriter, OrderInv, NumberInv
    <2>2. CandidateInv(q) /\ frame[q] \in Frames /\ frame'[q] = frame[q] /\ last_seen_id' = last_seen_id
      BY <1>3, <1>7, <1>9 DEF OrderInv, TypeInv, TypeOK
    <2>3. ASSUME frame[q].call = "GetBufferForReading", frame[q].buf # NoBuffer
          PROVE  last_seen_id[q] < frame[q].seq /\ frame[q].seq =< sequence_id'[frame[q].buf]
      <3>1. frame[q].buf \in Buffers /\ frame[q].seq \in Nat
        BY <2>2, <2>3 DEF Frames
      <3>2. last_seen_id[q] < frame[q].seq /\ frame[q].seq =< sequence_id[frame[q].buf]
        BY <2>2, <2>3 DEF CandidateInv
      <3>3. sequence_id[frame[q].buf] =< sequence_id'[frame[q].buf]
            /\ sequence_id[frame[q].buf] \in Nat /\ sequence_id'[frame[q].buf] \in Nat
        BY <1>4, <1>5, <3>1
      <3>. QED  BY <3>1, <3>2, <3>3
    <2>. QED  BY <2>1, <2>2, <2>3 DEF CandidateInv
  <1>. QED  BY <1>5, <1>8, <1>9 DEF OrderInv, IdsInv

LEMMA CheckWritingOrder ==
    ASSUME TypeInv, OrderInv, NEW p \in Managers, CheckWriting(p)
    PROVE  OrderInv'
  <1>0. /\ frame[p] \in Frames /\ frame[p].call = "GetBufferForWriting"
        /\ UNCHANGED <<sequence_id, next_sequence_id, last_seen_id>>
    BY DEF CheckWriting, At, TypeInv, TypeOK, shmBuffers
  <1>1. CASE Goto(p, NextBuffer(frame[p]))
    BY <1>0, <1>1, NextBufferScans, ScansOnward, OnwardOrder
  <1>2. CASE ~Goto(p, NextBuffer(frame[p]))
    <2>. DEFINE f == [frame[p] EXCEPT !.pc = "store_seq", !.seq = next_sequence_id + 1]
    <2>1. frame'[p] = f /\ \A q \in Managers : q # p => frame'[q] = frame[q]
      BY <1>2, GotoMoves DEF CheckWriting
    <2>2. f.call = "GetBufferForWriting" /\ f.seq = next_sequence_id + 1
      BY <1>0 DEF Frames
    <2>. HIDE DEF f
    <2>3. NumberInv(p)' /\ CandidateInv(p)'
      BY <1>0, <2>1, <2>2 DEF OrderInv, NumberInv, CandidateInv
    <2>4. ASSUME NEW q \in Managers, q # p PROVE NumberInv(q)' /\ CandidateInv(q)'
      BY <1>0, <2>1, <2>4 DEF OrderInv, NumberInv, CandidateInv
    <2>. QED  BY <1>0, <2>3, <2>4 DEF OrderInv, IdsInv
  <1>. QED  BY <1>1, <1>2

\* Where the two calls that get a buffer start.
LEMMA GetOrder ==
    ASSUME TypeInv, OrderInv, NEW p \in Managers,
           GetBufferForWriting(p) \/ GetBufferForReading(p)
    PROVE  OrderInv'
  <1>0. UNCHANGED <<sequence_id, next_sequence_id, last_seen_id>>
    BY DEF GetBufferForWriting, GetBufferForReading, shmBuffers, shmStruct
  <1>. DEFINE w == [IdleFrame EXCEPT !.call = "GetBufferForWriting", !.pc = "scan",
                                 !.pos = writer_pos, !.want = "Empty"]
              r == [IdleFrame EXCEPT !.call = "GetBufferForReading", !.pc = "scan",
                                 !.pos = reader_pos, !.want = "Full"]
  <1>w. w.pc = "scan" /\ w.buf = NoBuffer /\ w.call = "GetBufferForWriting"
    BY DEF IdleFrame
  <1>r. r.pc = "scan" /\ r.buf = NoBuffer /\ r.call = "GetBufferForReading"
    BY DEF IdleFrame
  <1>g. (Goto(p, w) /\ p \in Writers) \/ Goto(p, r)
    BY DEF GetBufferForWriting, GetBufferForReading
  <1>. HIDE DEF w, r
  <1>1. PICK f : /\ Goto(p, f) /\ f.pc = "scan" /\ f.buf = NoBuffer
                 /\ f.call = "GetBufferForWriting" => p \in Writers
    BY <1>w, <1>r, <1>g
  <1>2. frame'[p] = f /\ \A q \in Managers : q # p => frame'[q] = frame[q]
    BY <1>1, GotoMoves
  <1>3. NumberInv(p)' /\ CandidateInv(p)'
    BY <1>0, <1>1, <1>2 DEF NumberInv, CandidateInv
  <1>4. ASSUME NEW q \in Managers, q # p PROVE NumberInv(q)' /\ CandidateInv(q)'
    BY <1>0, <1>2, <1>4 DEF OrderInv, NumberInv, CandidateInv
  <1>. QED  BY <1>0, <1>3, <1>4 DEF OrderInv, IdsInv

LEMMA SameOrder ==
    ASSUME OrderInv, UNCHANGED <<frame, sequence_id, next_sequence_id, last_seen_id>>
    PROVE  OrderInv'
  BY DEF OrderInv, IdsInv, NumberInv, CandidateInv

LEMMA InitOrderInv == Init => OrderInv
  BY DEF Init, OrderInv, IdsInv, NumberInv, CandidateInv, IdleFrame

LEMMA NextOrderInv ==
    ASSUME OneWriter, ~Destructive, TypeInv, OrderInv, [Next]_vars
    PROVE  OrderInv'
  <1>1. ASSUME NEW p \in Managers, Step(p) PROVE OrderInv'
    BY <1>1, StepOnward, OnwardOrder, CheckWritingOrder, StoreSequenceIdOrder, CandidateOrder
  <1>2. ASSUME NEW p \in Managers, Client(p) \/ Detach(p) \/ Crash(p) PROVE OrderInv'
    <2>1. CASE GetBufferForWriting(p) \/ GetBufferForReading(p)
      BY <2>1, GetOrder
    <2>2. CASE ~GetBufferForWriting(p) /\ ~GetBufferForReading(p)
      <3>1. UNCHANGED <<sequence_id, next_sequence_id, last_seen_id>>
        BY <1>2, <2>2 DEF Client, Copy, Publish, Release, Write, Read, MarkBufferFull,
           MarkBufferEmpty, MarkBufferEmptyForced, Poll, Detach, Crash, shmBuffers, shmStruct
      <3>. QED  BY <1>2, <2>2, <3>1, ClientOnward, OnwardOrder, SameOrder
    <2>. QED  BY <2>1, <2>2
  <1>3. ASSUME NEW b \in Buffers, Expire(b) PROVE OrderInv'
    BY <1>3, SameOrder DEF Expire, shmStruct
  <1>4. CASE UNCHANGED vars
    BY <1>4, SameOrder DEF vars
  <1>. QED  BY <1>1, <1>2, <1>3, <1>4 DEF Next

-----------------------------------------------------------------------------
(* What was really given: met under last_seen_id_, and that grows. *)

LEMMA LastSeenGrows ==
    ASSUME ~Destructive, TypeInv, OrderInv, [Next]_vars, NEW p \in Managers
    PROVE  last_seen_id[p] =< last_seen_id'[p]
  <1>1. last_seen_id \in [Managers -> Nat] /\ \A b \in Buffers : sequence_id[b] \in Nat
    BY DEF TypeInv, TypeOK
  <1>2. ASSUME NEW q \in Managers, CheckReading(q) PROVE last_seen_id[p] =< last_seen_id'[p]
    <2>1. frame[q].call = "GetBufferForReading" /\ frame[q].pc = "check" /\ frame[q].buf \in Buffers
      BY <1>2 DEF CheckReading, At, TypeInv, BufferInv, ActingPoints
    <2>2. last_seen_id[q] < frame[q].seq /\ frame[q].seq \in Nat
      BY <2>1 DEF OrderInv, CandidateInv, Buffers, NoBuffer, TypeInv, TypeOK, Frames
    <2>. QED  BY <1>1, <1>2, <2>2 DEF CheckReading
  <1>3. ASSUME NEW q \in Managers, WriteEnd(q) PROVE last_seen_id[p] =< last_seen_id'[p]
    <2>1. frame[q].buf \in Buffers
      BY <1>3 DEF WriteEnd, At, TypeInv, BufferInv, ActingPoints
    <2>. QED  BY <1>1, <1>3, <2>1 DEF WriteEnd
  <1>4. ASSUME NEW q \in Managers, Step(q), ~CheckReading(q), ~WriteEnd(q)
        PROVE  last_seen_id' = last_seen_id
    BY <1>4 DEF Step, ResetBuffer, ResetRecheck, ResetStoreFull, ResetStoreEmpty,
       ResetStoreId, PollEnd, LoadSemForWriting, LoadIdForWriting, CheckWriting, StoreSequenceId,
       CasId, CasSem, ScanForReading, ReloadForReading, ReadEnd, ReleaseStoreSem, ReleaseStoreId,
       DetachStoreSem, DetachStoreId, DetachEnd
  <1>5. ASSUME NEW q \in Managers, Client(q) \/ Detach(q) \/ Crash(q)
        PROVE  last_seen_id' = last_seen_id
    BY <1>5 DEF Client, Copy, Publish, Release, GetBufferForWriting, GetBufferForReading, Poll,
       Write, Read, MarkBufferFull, MarkBufferEmpty, MarkBufferEmptyForced, Detach, Crash
  <1>6. ASSUME NEW b \in Buffers, Expire(b) PROVE last_seen_id' = last_seen_id
    BY <1>6 DEF Expire
  <1>7. CASE UNCHANGED vars
    BY <1>1, <1>7 DEF vars
  <1>. QED  BY <1>1, <1>2, <1>3, <1>4, <1>5, <1>6, <1>7 DEF Next

\* What a reader was given as chosen is no newer than what it has seen.
MetInv ==
    /\ met \in [Managers -> Nat]
    /\ \A p \in Managers : met[p] =< last_seen_id[p]

\* A reader that is given a buffer chose it by an id above all it has seen, and
\* the buffer was only filled with newer events since.
LEMMA GivenIsNewer ==
    ASSUME ~Destructive, TypeInv, OrderInv, [Next]_vars,
           NEW p \in Managers, NEW b \in Buffers, Acquires(p, b)
    PROVE  /\ last_seen_id[p] < frame[p].seq /\ frame[p].seq =< sequence_id[b]
           /\ last_seen_id'[p] = frame[p].seq
           /\ last_seen_id[p] \in Nat /\ frame[p].seq \in Nat /\ sequence_id[b] \in Nat
  <1>1. CheckReading(p) /\ b = frame[p].buf
    BY AcquiresByCheckReading
  <1>2. last_seen_id' = [last_seen_id EXCEPT ![p] = frame[p].seq]
    BY <1>1 DEF CheckReading, Acquires
  <1>3. frame[p].call = "GetBufferForReading" /\ frame[p].buf # NoBuffer
    BY <1>1 DEF CheckReading, At, Buffers, NoBuffer
  <1>4. last_seen_id[p] < frame[p].seq /\ frame[p].seq =< sequence_id[b]
    BY <1>1, <1>3 DEF OrderInv, CandidateInv
  <1>5. last_seen_id[p] \in Nat /\ frame[p].seq \in Nat /\ sequence_id[b] \in Nat
    BY DEF TypeInv, TypeOK, Frames
  <1>. QED  BY <1>2, <1>4, <1>5 DEF TypeInv, TypeOK

\* With one writer a broadcast reader is given only what is newer than all it
\* remembers, and never remembers more than it was given: whatever is overwritten
\* or reset while it is between its scan and its compare-and-swaps, and whoever
\* detaches or dies.
THEOREM NewerThanSeenAlways ==
    ASSUME OneWriter, ~Destructive
    PROVE  Spec => NewerThanSeen
  <1>. DEFINE Inv == TypeInv /\ OrderInv
  <1>1. Inv /\ [Next]_vars
           => [\A p \in Readers, b \in Buffers :
                  Acquires(p, b) => /\ sequence_id[b] > last_seen_id[p]
                                    /\ last_seen_id'[p] > last_seen_id[p]
                                    /\ last_seen_id'[p] <= sequence_id[b]]_vars
    <2>. SUFFICES ASSUME Inv, Next, NEW p \in Readers, NEW b \in Buffers, Acquires(p, b)
                  PROVE  /\ sequence_id[b] > last_seen_id[p]
                         /\ last_seen_id'[p] > last_seen_id[p]
                         /\ last_seen_id'[p] <= sequence_id[b]
      OBVIOUS
    <2>1. p \in Managers
      BY RolesAssumption
    <2>2. /\ last_seen_id[p] < frame[p].seq /\ frame[p].seq =< sequence_id[b]
          /\ last_seen_id'[p] = frame[p].seq
          /\ last_seen_id[p] \in Nat /\ frame[p].seq \in Nat /\ sequence_id[b] \in Nat
      BY <2>1, GivenIsNewer
    <2>. QED  BY <2>2
  <1>2. Init => Inv
    BY InitTypeInv, InitOrderInv
  <1>3. Inv /\ [Next]_vars => Inv'
    BY NextTypeInv, NextOrderInv
  <1>. QED  BY <1>1, <1>2, <1>3, PTL DEF Spec, NewerThanSeen

LEMMA NextMetInv ==
    ASSUME ~Destructive, TypeInv, OrderInv, MetInv, [OrderNext]_orderVars
    PROVE  MetInv'
  <1>1. CASE UNCHANGED orderVars
    BY <1>1 DEF orderVars, vars, MetInv
  <1>2. CASE OrderNext
    <2>1. [Next]_vars
      BY <1>2 DEF OrderNext
    <2>2. ASSUME NEW p \in Managers
          PROVE  met'[p] \in Nat /\ met'[p] =< last_seen_id'[p]
      <3>1. last_seen_id[p] =< last_seen_id'[p] /\ last_seen_id[p] \in Nat /\ last_seen_id'[p] \in Nat
        BY <2>1, LastSeenGrows, NextTypeInv DEF TypeInv, TypeOK
      <3>2. met[p] \in Nat /\ met[p] =< last_seen_id[p]
        BY DEF MetInv
      <3>3. CASE ~GetsChosen(p)
        <4>1. met'[p] = met[p]
          BY <1>2, <3>3 DEF OrderNext
        <4>. QED  BY <3>1, <3>2, <4>1
      <3>4. CASE GetsChosen(p)
        <4>1. met'[p] = frame[p].seq
          BY <1>2, <3>4 DEF OrderNext
        <4>2. PICK b \in Buffers : Acquires(p, b)
          BY <3>4 DEF GetsChosen
        <4>. QED  BY <2>1, <3>1, <4>1, <4>2, GivenIsNewer
      <3>. QED  BY <3>3, <3>4
    <2>3. met' = [p \in Managers |-> met'[p]]
      BY <1>2 DEF OrderNext
    <2>. QED  BY <2>2, <2>3 DEF MetInv
  <1>. QED  BY <1>1, <1>2

\* With one writer every event that a broadcast reader is given is newer than all
\* that it chose and got before: whatever is overwritten or reset while the reader
\* is between its scan and its compare-and-swaps, and whoever detaches or dies.
THEOREM ChosenInOrderAlways ==
    ASSUME OneWriter, ~Destructive
    PROVE  OrderSpec => ChosenInOrder
  <1>. DEFINE Inv == TypeInv /\ OrderInv /\ MetInv
  <1>1. Inv /\ [OrderNext]_orderVars
           => [\A p \in Readers, b \in Buffers :
                  Acquires(p, b) => sequence_id[b] > met[p]]_orderVars
    <2>. SUFFICES ASSUME Inv, OrderNext,
                         NEW p \in Readers, NEW b \in Buffers, Acquires(p, b)
                  PROVE  sequence_id[b] > met[p]
      OBVIOUS
    <2>1. p \in Managers /\ [Next]_vars
      BY RolesAssumption DEF OrderNext
    <2>2. last_seen_id[p] < frame[p].seq /\ frame[p].seq =< sequence_id[b]
      BY <2>1, GivenIsNewer
    <2>3. last_seen_id[p] \in Nat /\ frame[p].seq \in Nat /\ sequence_id[b] \in Nat
      BY <2>1, GivenIsNewer
    <2>4. met[p] \in Nat /\ met[p] =< last_seen_id[p]
      BY <2>1 DEF MetInv
    <2>. QED  BY <2>2, <2>3, <2>4
  <1>2. OrderInit => Inv
    <2>. SUFFICES ASSUME OrderInit PROVE Inv
      OBVIOUS
    <2>1. TypeInv /\ OrderInv
      BY InitTypeInv, InitOrderInv DEF OrderInit
    <2>. QED  BY <2>1 DEF OrderInit, Init, MetInv
  <1>3. Inv /\ [OrderNext]_orderVars => Inv'
    <2>. SUFFICES ASSUME Inv, [OrderNext]_orderVars PROVE Inv'
      OBVIOUS
    <2>1. [Next]_vars
      BY DEF OrderNext, orderVars, vars
    <2>. QED  BY <2>1, NextTypeInv, NextOrderInv, NextMetInv
  <1>. QED  BY <1>1, <1>2, <1>3, PTL DEF OrderSpec, ChosenInOrder

-----------------------------------------------------------------------------
(* No torn read: while the writer copies, its buffer is Writing, or Empty when *)
(* a reader it was taken from released it late, and never Reading.           *)

LEMMA TouchKeepsFresh ==
    ASSUME TypeInv, TornInv, NEW p \in Managers, NEW b, touchBuffer_(p, b) \/ UNCHANGED stale
    PROVE  \A c \in Buffers : ~stale'[c]
  BY DEF touchBuffer_, TornInv, TypeInv, TypeOK

\* Without a timeout no buffer is ever reset.
LEMMA NothingResets ==
    ASSUME TypeInv, TornInv, NEW p \in Managers
    PROVE  /\ ~ResetBuffer(p) /\ ~ResetRecheck(p) /\ ~ResetStoreFull(p)
           /\ ~ResetStoreEmpty(p) /\ ~ResetStoreId(p)
  <1>1. frame[p].pc \notin ResetPoints /\ ~stale[ScanBuffer(p)]
    BY ScanInBuffers DEF TornInv, RoleInv, TypeInv
  <1>. QED  BY <1>1 DEF ResetBuffer, ResetRecheck, ResetStoreFull, ResetStoreEmpty, ResetStoreId,
            NeedsReset, StaleBroadcast, StaleRead, ResetPoints

WritingStates == {"Writing", "Empty"}

\* A step of p disturbs only what TornInv says of p, as long as it publishes no
\* buffer that a writer has taken.
LEMMA TornLocal ==
    ASSUME OneWriter, TypeInv, TornInv, BufferInv', NEW p \in Managers,
           \A q \in Managers : q # p => frame'[q] = frame[q] /\ holds'[q] = holds[q],
           \A c \in Buffers : ~stale'[c],
           \A c \in Buffers : sem[c] \in WritingStates /\ sem'[c] \notin WritingStates => p \in Writers,
           RoleInv(p)',
           \A c \in Buffers : InWriting(p, c)' => sem'[c] \in WritingStates
    PROVE  TornInv'
  <1>1. ASSUME NEW q \in Managers, q # p PROVE RoleInv(q)'
    BY <1>1 DEF TornInv, RoleInv
  <1>2. ASSUME NEW q \in Managers, q # p, NEW c \in Buffers, InWriting(q, c)'
        PROVE  sem'[c] \in WritingStates
    <2>1. InWriting(q, c)
      BY <1>2 DEF InWriting, At
    <2>2. q \in Writers
      BY <2>1 DEF TornInv, RoleInv, InWriting, At
    <2>3. sem[c] \in WritingStates
      BY <2>1 DEF TornInv, WritingInv, WritingStates
    <2>. QED  BY <1>2, <2>2, <2>3 DEF OneWriter
  <1>3. WritingInv'
    BY <1>2 DEF WritingInv, WritingStates
  <1>. QED  BY <1>1, <1>3 DEF TornInv

\* p takes no more than it had, and nobody's buffer changes its state.
LEMMA TornQuiet ==
    ASSUME OneWriter, TypeInv, TornInv, BufferInv', NEW p \in Managers,
           \A q \in Managers : q # p => frame'[q] = frame[q] /\ holds'[q] = holds[q],
           \A c \in Buffers : ~stale'[c], UNCHANGED sem,
           RoleInv(p)',
           \A c \in Buffers : InWriting(p, c)' => InWriting(p, c)
    PROVE  TornInv'
  <1>1. \A c \in Buffers : InWriting(p, c)' => sem'[c] \in WritingStates
    BY DEF TornInv, WritingInv, WritingStates
  <1>. QED  BY <1>1, TornLocal

\* p's call goes on scanning, or ends there.
LEMMA RoleScans ==
    ASSUME TypeInv, TornInv, NEW p \in Managers, NEW f, Scans(frame[p], f), Goto(p, f),
           UNCHANGED holds
    PROVE  RoleInv(p)' /\ \A c \in Buffers : InWriting(p, c)' => InWriting(p, c)
  <1>1. frame'[p] = f /\ RoleInv(p)
    BY GotoMoves DEF TornInv
  <1>. QED  BY <1>1 DEF RoleInv, Scans, IdleFrame, InWriting, At, ResetPoints

\* p goes on in its call with the buffer it has.
LEMMA RoleSet ==
    ASSUME TypeInv, TornInv, NEW p \in Managers, NEW x, Set(p, x), x \notin ResetPoints,
           x \in {"cas_id", "cas_sem", "check"} => frame[p].call \in Gets, UNCHANGED holds
    PROVE  RoleInv(p)'
  <1>1. /\ frame'[p].pc = x /\ frame'[p].call = frame[p].call
        /\ frame'[p].want = frame[p].want /\ RoleInv(p)
    BY SetMoves DEF TornInv
  <1>. QED  BY <1>1 DEF RoleInv, Gets

\* p is in none of the calls that write or get a buffer.
LEMMA RoleElsewhere ==
    ASSUME TypeInv, TornInv, NEW p \in Managers, NEW f, Goto(p, f),
           f.call \notin Gets \cup {"Write"},
           f.pc \notin ResetPoints \cup {"cas_id", "cas_sem", "check"},
           f.call = "MarkBufferEmptyForced" => p = Owner,
           \A c \in Buffers : holds'[p][c] \in {"Writing", "Written"}
               => holds[p][c] \in {"Writing", "Written"}
    PROVE  RoleInv(p)' /\ \A c \in Buffers : InWriting(p, c)' => InWriting(p, c)
  <1>1. frame'[p] = f /\ RoleInv(p)
    BY GotoMoves DEF TornInv
  <1>. QED  BY <1>1 DEF RoleInv, InWriting, At, Gets

LEMMA OthersKeepHolds ==
    ASSUME TypeInv, NEW p \in Managers, NEW h, NEW b,
           \/ UNCHANGED holds
           \/ holds' = [holds EXCEPT ![p] = h]
           \/ holds' = [holds EXCEPT ![p][b] = h]
    PROVE  \A q \in Managers : q # p => holds'[q] = holds[q]
  BY DEF TypeInv, TypeOK

LEMMA IdleElsewhere ==
    /\ {IdleFrame.call, Gone.call} = {"none"}
    /\ IdleFrame.pc = "idle" /\ Gone.pc = "gone"
  BY DEF IdleFrame, Gone

\* The steps that look for a buffer.
LEMMA ScanTorn ==
    ASSUME OneWriter, TypeInv, TornInv, BufferInv', NEW p \in Managers,
           \/ PollEnd(p) \/ LoadSemForWriting(p) \/ LoadIdForWriting(p)
           \/ ScanForReading(p) \/ ReloadForReading(p)
    PROVE  TornInv'
  <1>0. frame[p] \in Frames /\ RoleInv(p)
    BY DEF TypeInv, TypeOK, TornInv
  <1>u. UNCHANGED <<sem, holds>>
    BY DEF PollEnd, LoadSemForWriting, LoadIdForWriting, ScanForReading, ReloadForReading,
       shmBuffers
  <1>t. \A c \in Buffers : ~stale'[c]
    <2>1. PICK b : touchBuffer_(p, b) \/ UNCHANGED stale
      BY DEF PollEnd, LoadSemForWriting, LoadIdForWriting, ScanForReading, ReloadForReading,
         shmBuffers
    <2>. QED  BY <2>1, TouchKeepsFresh
  <1>q. ASSUME NEW f, Goto(p, f),
               RoleInv(p)' /\ \A c \in Buffers : InWriting(p, c)' => InWriting(p, c)
        PROVE  TornInv'
    BY <1>q, <1>t, <1>u, GotoMoves, TornQuiet
  <1>s. ASSUME NEW f, Goto(p, f), Scans(frame[p], f) PROVE TornInv'
    BY <1>q, <1>s, <1>u, RoleScans
  <1>k. ASSUME NEW f, Goto(p, f), f.call \in Gets, f.call = frame[p].call, f.want = frame[p].want,
               f.pc \in {"load_id", "cas_id", "reload"}
        PROVE  TornInv'
    <2>1. frame'[p] = f
      BY <1>k, GotoMoves
    <2>2. RoleInv(p)'
      BY <1>0, <1>k, <1>u, <2>1 DEF RoleInv, Gets, ResetPoints
    <2>3. \A c \in Buffers : InWriting(p, c)' => InWriting(p, c)
      BY <1>k, <1>u, <2>1 DEF InWriting, At, Gets
    <2>. QED  BY <1>k, <1>q, <2>2, <2>3
  <1>1. CASE PollEnd(p)
    <2>1. Goto(p, IdleFrame)
      BY <1>1 DEF PollEnd
    <2>. QED  BY <1>s, <2>1 DEF Scans
  <1>2. CASE LoadSemForWriting(p)
    <2>. DEFINE f == [frame[p] EXCEPT !.pc = "load_id", !.buf = ScanBuffer(p)]
    <2>1. Goto(p, f) \/ Goto(p, NextBuffer(frame[p]))
      BY <1>2 DEF LoadSemForWriting
    <2>2. f.call \in Gets /\ f.call = frame[p].call /\ f.want = frame[p].want /\ f.pc = "load_id"
      BY <1>0, <1>2 DEF LoadSemForWriting, Frames, Gets
    <2>. HIDE DEF f
    <2>. QED  BY <1>0, <1>k, <1>s, <2>1, <2>2, NextBufferScans
  <1>3. CASE LoadIdForWriting(p)
    <2>. DEFINE f == [frame[p] EXCEPT !.pc = "cas_id", !.id = sem_id[frame[p].buf]]
    <2>1. Goto(p, f) \/ Goto(p, NextBuffer(frame[p]))
      BY <1>3 DEF LoadIdForWriting
    <2>2. f.call \in Gets /\ f.call = frame[p].call /\ f.want = frame[p].want /\ f.pc = "cas_id"
      BY <1>0, <1>3 DEF LoadIdForWriting, At, Frames, Gets
    <2>. HIDE DEF f
    <2>. QED  BY <1>0, <1>k, <1>s, <2>1, <2>2, NextBufferScans
  <1>4. CASE ScanForReading(p)
    <2>. DEFINE b == ScanBuffer(p)
                f == [frame[p] EXCEPT !.buf = b, !.seq = sequence_id[b]]
                g == [f EXCEPT !.pc = "reload"]
    <2>1. Goto(p, g) \/ Goto(p, NextBuffer(f)) \/ Goto(p, NextBuffer(frame[p]))
      BY <1>4 DEF ScanForReading
    <2>2. b \in Buffers /\ sequence_id[b] \in Nat
      BY ScanInBuffers DEF TypeInv, TypeOK
    <2>. HIDE DEF b
    <2>3. f \in Frames /\ f.call = frame[p].call /\ f.want = frame[p].want
      BY <1>0, <2>2 DEF Frames
    <2>. HIDE DEF f
    <2>4. g.call \in Gets /\ g.call = frame[p].call /\ g.want = frame[p].want /\ g.pc = "reload"
      BY <1>4, <2>3 DEF ScanForReading, Frames, Gets
    <2>. HIDE DEF g
    <2>5. ASSUME Goto(p, NextBuffer(f)) PROVE TornInv'
      <3>1. Scans(f, NextBuffer(f))
        BY <2>3, NextBufferScans
      <3>2. frame'[p] = NextBuffer(f)
        BY <2>5, GotoMoves
      <3>3. frame[p].call = "GetBufferForReading"
        BY <1>4 DEF ScanForReading
      <3>4. RoleInv(p)' /\ \A c \in Buffers : InWriting(p, c)' => InWriting(p, c)
        BY <1>0, <1>u, <2>3, <3>1, <3>2, <3>3
        DEF Scans, IdleFrame, RoleInv, InWriting, At, ResetPoints
      <3>. QED  BY <1>q, <2>5, <3>4
    <2>. QED  BY <1>0, <1>k, <1>s, <2>1, <2>4, <2>5, NextBufferScans
  <1>5. CASE ReloadForReading(p)
    <2>. DEFINE f == [frame[p] EXCEPT !.pc = "cas_id", !.id = sem_id[frame[p].buf],
                                      !.seq = sequence_id[frame[p].buf]]
    <2>1. Goto(p, f) \/ Goto(p, Retry(frame[p]))
      BY <1>5 DEF ReloadForReading
    <2>2. f.call \in Gets /\ f.call = frame[p].call /\ f.want = frame[p].want /\ f.pc = "cas_id"
      BY <1>0, <1>5 DEF ReloadForReading, At, Frames, Gets
    <2>. HIDE DEF f
    <2>. QED  BY <1>0, <1>k, <1>s, <2>1, <2>2, RetryScans
  <1>. QED  BY <1>1, <1>2, <1>3, <1>4, <1>5

\* The compare-and-swaps: a reader only takes Full buffers, and what a writer
\* takes becomes Writing.
LEMMA SwapTorn ==
    ASSUME OneWriter, TypeInv, TornInv, BufferInv', NEW p \in Managers, CasId(p) \/ CasSem(p)
    PROVE  TornInv'
  <1>. DEFINE b == frame[p].buf
  <1>0. /\ frame[p] \in Frames /\ RoleInv(p) /\ b \in Buffers /\ frame[p].call \in Gets
        /\ sem \in [Buffers -> BufferSemaphoreFlags]
    BY DEF TypeInv, TypeOK, TornInv, BufferInv, CasId, CasSem, ActingPoints, RoleInv, Gets
  <1>u. UNCHANGED <<stale, holds>>
    BY DEF CasId, CasSem
  <1>t. \A c \in Buffers : ~stale'[c]
    BY <1>u DEF TornInv
  <1>1. CASE Goto(p, Continue(frame[p])) /\ UNCHANGED sem
    BY <1>0, <1>1, <1>t, <1>u, ContinueScans, RoleScans, GotoMoves, TornQuiet
  <1>2. CASE Set(p, "cas_sem") /\ UNCHANGED sem
    <2>1. RoleInv(p)'
      BY <1>0, <1>2, <1>u, RoleSet DEF ResetPoints
    <2>2. \A c \in Buffers : InWriting(p, c)' => InWriting(p, c)
      BY <1>2, <1>u, SetMoves, <1>0 DEF InWriting, At, Gets
    <2>3. \A q \in Managers : q # p => frame'[q] = frame[q] /\ holds'[q] = holds[q]
      BY <1>2, <1>u, SetMoves
    <2>. QED  BY <1>2, <1>t, <2>1, <2>2, <2>3, TornQuiet
  <1>3. CASE Set(p, "check") /\ SemUnchanged(p) /\ sem' = [sem EXCEPT ![b] = Target(p)]
    <2>1. RoleInv(p)'
      BY <1>0, <1>3, <1>u, RoleSet DEF ResetPoints
    <2>2. \A q \in Managers : q # p => frame'[q] = frame[q] /\ holds'[q] = holds[q]
      BY <1>3, <1>u, SetMoves
    <2>3. /\ frame'[p].pc = "check" /\ frame'[p].buf = b /\ frame'[p].call = frame[p].call
      BY <1>3, SetMoves
    <2>4. CASE frame[p].call = "GetBufferForWriting"
      <3>1. \A c \in Buffers : sem'[c] = IF c = b THEN "Writing" ELSE sem[c]
        BY <1>0, <1>3, <2>4 DEF Target
      <3>2. \A c \in Buffers : InWriting(p, c)' /\ c # b => InWriting(p, c)
        BY <1>u, <2>3 DEF InWriting, At
      <3>3. \A c \in Buffers : InWriting(p, c)' => sem'[c] \in WritingStates
        BY <3>1, <3>2 DEF TornInv, WritingInv, WritingStates
      <3>. QED  BY <1>t, <2>1, <2>2, <3>1, <3>3, TornLocal DEF WritingStates
    <2>5. CASE frame[p].call = "GetBufferForReading"
      <3>1. sem[b] = "Full"
        BY <1>0, <1>3, <2>5 DEF RoleInv, SemUnchanged
      <3>2. \A c \in Buffers : c # b => sem'[c] = sem[c]
        BY <1>0, <1>3
      <3>3. \A c \in Buffers : InWriting(p, c)' => InWriting(p, c)
        BY <1>u, <2>3, <2>5 DEF InWriting, At
      <3>4. \A c \in Buffers : InWriting(p, c)' => sem'[c] \in WritingStates
        BY <3>1, <3>2, <3>3 DEF TornInv, WritingInv, WritingStates
      <3>. QED  BY <1>t, <2>1, <2>2, <3>1, <3>2, <3>4, TornLocal DEF WritingStates
    <2>. QED  BY <1>0, <2>4, <2>5 DEF Gets
  <1>. QED  BY <1>1, <1>2, <1>3 DEF CasId, CasSem

\* The end of GetBufferForWriting and of GetBufferForReading.
LEMMA CheckTorn ==
    ASSUME OneWriter, TypeInv, TornInv, BufferInv', NEW p \in Managers,
           CheckWriting(p) \/ StoreSequenceId(p) \/ CheckReading(p)
    PROVE  TornInv'
  <1>. DEFINE b == frame[p].buf
  <1>0. /\ frame[p] \in Frames /\ RoleInv(p) /\ b \in Buffers
        /\ holds \in [Managers -> [Buffers -> Holdings]]
    BY DEF TypeInv, TypeOK, TornInv, BufferInv, CheckWriting, StoreSequenceId, CheckReading,
       At, ActingPoints
  <1>u. UNCHANGED sem
    BY DEF CheckWriting, StoreSequenceId, CheckReading, shmBuffers
  <1>t. \A c \in Buffers : ~stale'[c]
    BY TouchKeepsFresh DEF CheckWriting, StoreSequenceId, CheckReading, shmBuffers
  <1>s. ASSUME NEW f, Goto(p, f), Scans(frame[p], f), UNCHANGED holds PROVE TornInv'
    BY <1>s, <1>t, <1>u, RoleScans, GotoMoves, TornQuiet
  <1>1. CASE CheckWriting(p)
    <2>. DEFINE f == [frame[p] EXCEPT !.pc = "store_seq", !.seq = next_sequence_id + 1]
    <2>1. UNCHANGED holds /\ (Goto(p, f) \/ Goto(p, NextBuffer(frame[p])))
      BY <1>1 DEF CheckWriting
    <2>2. /\ f.call = "GetBufferForWriting" /\ f.want = frame[p].want
          /\ f.pc = "store_seq" /\ f.buf = b
          /\ frame[p].call = "GetBufferForWriting" /\ frame[p].pc = "check"
      BY <1>0, <1>1 DEF CheckWriting, At, Frames
    <2>. HIDE DEF f
    <2>3. ASSUME Goto(p, f) PROVE TornInv'
      <3>1. frame'[p] = f /\ \A q \in Managers : q # p => frame'[q] = frame[q]
        BY <2>3, GotoMoves
      <3>2. RoleInv(p)'
        BY <1>0, <2>1, <2>2, <3>1 DEF RoleInv, ResetPoints
      <3>3. \A c \in Buffers : InWriting(p, c)' => InWriting(p, c)
        BY <2>1, <2>2, <3>1 DEF InWriting, At
      <3>. QED  BY <1>t, <1>u, <2>1, <3>1, <3>2, <3>3, TornQuiet
    <2>. QED  BY <1>0, <1>s, <2>1, <2>3, NextBufferScans
  <1>2. CASE StoreSequenceId(p)
    <2>1. frame[p].call = "GetBufferForWriting" /\ frame[p].pc = "store_seq" /\ p \in Writers
      BY <1>0, <1>2 DEF StoreSequenceId, At, RoleInv
    <2>2. CASE Goto(p, NextBuffer(frame[p])) /\ UNCHANGED holds
      BY <1>0, <1>s, <2>2, NextBufferScans
    <2>3. CASE Goto(p, IdleFrame) /\ holds' = [holds EXCEPT ![p][b] = "Writing"]
      <3>1. frame'[p] = IdleFrame
            /\ \A q \in Managers : q # p => frame'[q] = frame[q] /\ holds'[q] = holds[q]
        BY <2>3, GotoMoves, OthersKeepHolds
      <3>2. \A c \in Buffers : holds'[p][c] = IF c = b THEN "Writing" ELSE holds[p][c]
        BY <1>0, <2>3
      <3>3. RoleInv(p)'
        BY <2>1, <3>1, IdleElsewhere DEF RoleInv, ResetPoints
      <3>4. \A c \in Buffers : InWriting(p, c)' => InWriting(p, c)
        BY <2>1, <3>1, <3>2, IdleElsewhere DEF InWriting, At
      <3>. QED  BY <1>t, <1>u, <3>1, <3>3, <3>4, TornQuiet
    <2>. QED  BY <1>2, <2>2, <2>3 DEF StoreSequenceId
  <1>3. CASE CheckReading(p)
    <2>1. CASE Goto(p, Retry(frame[p])) /\ UNCHANGED holds
      BY <1>0, <1>s, <2>1, RetryScans
    <2>2. CASE Goto(p, IdleFrame) /\ holds' = [holds EXCEPT ![p][b] = "Reading"]
      <3>1. \A c \in Buffers : holds'[p][c] \in {"Writing", "Written"}
               => holds[p][c] \in {"Writing", "Written"}
        BY <1>0, <2>2
      <3>2. RoleInv(p)' /\ \A c \in Buffers : InWriting(p, c)' => InWriting(p, c)
        BY <2>2, <3>1, RoleElsewhere, IdleElsewhere DEF ResetPoints, Gets
      <3>3. \A q \in Managers : q # p => frame'[q] = frame[q] /\ holds'[q] = holds[q]
        BY <2>2, GotoMoves, OthersKeepHolds
      <3>. QED  BY <1>t, <1>u, <3>2, <3>3, TornQuiet
    <2>. QED  BY <1>3, <2>1, <2>2 DEF CheckReading
  <1>. QED  BY <1>1, <1>2, <1>3

\* A step of p into a frame that writes nothing and gets nothing.
LEMMA ElsewhereTorn ==
    ASSUME OneWriter, TypeInv, TornInv, BufferInv', NEW p \in Managers, NEW f, Goto(p, f),
           f.call \notin Gets \cup {"Write"},
           f.pc \notin ResetPoints \cup {"cas_id", "cas_sem", "check"},
           f.call = "MarkBufferEmptyForced" => p = Owner,
           \A q \in Managers : q # p => holds'[q] = holds[q],
           \A c \in Buffers : holds'[p][c] \in {"Writing", "Written"}
               => holds[p][c] \in {"Writing", "Written"},
           \A c \in Buffers : ~stale'[c],
           \A c \in Buffers : sem[c] \in WritingStates => sem'[c] \in WritingStates
    PROVE  TornInv'
  <1>1. RoleInv(p)' /\ \A c \in Buffers : InWriting(p, c)' => InWriting(p, c)
    BY RoleElsewhere
  <1>2. \A c \in Buffers : InWriting(p, c)' => sem'[c] \in WritingStates
    BY <1>1 DEF TornInv, WritingInv, WritingStates
  <1>3. \A q \in Managers : q # p => frame'[q] = frame[q]
    BY GotoMoves
  <1>. QED  BY <1>1, <1>2, <1>3, TornLocal

LEMMA BeginDetachTorn ==
    ASSUME OneWriter, TypeInv, TornInv, BufferInv', NEW p \in Managers, BeginDetach(p),
           UNCHANGED <<sem, stale>>
    PROVE  TornInv'
  <1>1. /\ Goto(p, DetachFrame(p))
        /\ holds' = [holds EXCEPT ![p] = [b \in Buffers |-> "none"]]
    BY DEF BeginDetach
  <1>2. DetachFrame(p).call = "Detach" /\ DetachFrame(p).pc = "detach"
    BY DEF DetachFrame, IdleFrame
  <1>3. \A c \in Buffers : holds'[p][c] = "none"
    BY <1>1 DEF TypeInv, TypeOK
  <1>4. \A q \in Managers : q # p => holds'[q] = holds[q]
    BY <1>1, OthersKeepHolds
  <1>5. \A c \in Buffers : ~stale'[c]
    BY DEF TornInv
  <1>. QED  BY <1>1, <1>2, <1>3, <1>4, <1>5, ElsewhereTorn DEF Gets, ResetPoints

\* The copies.
LEMMA CopyTorn ==
    ASSUME OneWriter, TypeInv, TornInv, BufferInv', NEW p \in Managers,
           Copy(p) \/ WriteEnd(p) \/ ReadEnd(p)
    PROVE  TornInv'
  <1>0. /\ frame[p] \in Frames /\ RoleInv(p)
        /\ holds \in [Managers -> [Buffers -> Holdings]]
    BY DEF TypeInv, TypeOK, TornInv
  <1>1. ASSUME NEW b \in Buffers, Write(p, b) PROVE TornInv'
    <2>. DEFINE f == [IdleFrame EXCEPT !.call = "Write", !.pc = "copy", !.buf = b]
    <2>1. CASE BeginDetach(p) /\ UNCHANGED stale
      BY <1>1, <2>1, BeginDetachTorn DEF Write
    <2>2. CASE Goto(p, f) /\ touchBuffer_(p, b) /\ UNCHANGED holds
      <3>1. f.call = "Write" /\ f.pc = "copy" /\ f.buf = b
        BY DEF IdleFrame
      <3>. HIDE DEF f
      <3>2. frame'[p] = f /\ \A q \in Managers : q # p => frame'[q] = frame[q]
        BY <2>2, GotoMoves
      <3>3. holds[p][b] = "Writing" /\ UNCHANGED sem
        BY <1>1 DEF Write
      <3>4. p \in Writers
        BY <1>0, <3>3 DEF RoleInv
      <3>5. RoleInv(p)'
        BY <1>0, <2>2, <3>1, <3>2, <3>4 DEF RoleInv, ResetPoints
      <3>6. \A c \in Buffers : InWriting(p, c)' => InWriting(p, c)
        BY <2>2, <3>1, <3>2, <3>3 DEF InWriting, At
      <3>7. \A c \in Buffers : ~stale'[c]
        BY <2>2, TouchKeepsFresh
      <3>. QED  BY <2>2, <3>2, <3>3, <3>5, <3>6, <3>7, TornQuiet
    <2>. QED  BY <1>1, <2>1, <2>2 DEF Write
  <1>2. ASSUME NEW b \in Buffers, Read(p, b) PROVE TornInv'
    <2>. DEFINE f == [IdleFrame EXCEPT !.call = "Read", !.pc = "copy", !.buf = b]
    <2>1. CASE BeginDetach(p) /\ UNCHANGED stale
      BY <1>2, <2>1, BeginDetachTorn DEF Read
    <2>2. CASE Goto(p, f) /\ touchBuffer_(p, b) /\ UNCHANGED holds
      <3>1. f.call = "Read" /\ f.pc = "copy"
        BY DEF IdleFrame
      <3>. HIDE DEF f
      <3>2. UNCHANGED sem
        BY <1>2 DEF Read
      <3>3. \A c \in Buffers : ~stale'[c]
        BY <2>2, TouchKeepsFresh
      <3>. QED  BY <2>2, <3>1, <3>2, <3>3, ElsewhereTorn DEF Gets, ResetPoints
    <2>. QED  BY <1>2, <2>1, <2>2 DEF Read
  <1>3. CASE WriteEnd(p)
    <2>. DEFINE b == frame[p].buf
    <2>1. /\ At(p, "Write", "copy") /\ Goto(p, IdleFrame) /\ UNCHANGED sem
          /\ holds' = [holds EXCEPT ![p][b] = "Written"] /\ touchBuffer_(p, b)
      BY <1>3 DEF WriteEnd
    <2>2. p \in Writers
      BY <1>0, <2>1 DEF RoleInv, At
    <2>3. frame'[p] = IdleFrame
          /\ \A q \in Managers : q # p => frame'[q] = frame[q] /\ holds'[q] = holds[q]
      BY <2>1, GotoMoves, OthersKeepHolds
    <2>4. \A c \in Buffers : (holds'[p][c] = "Written" /\ c = b) \/ holds'[p][c] = holds[p][c]
      BY <1>0, <2>1
    <2>5. RoleInv(p)'
      BY <2>2, <2>3, IdleElsewhere DEF RoleInv, ResetPoints
    <2>6. \A c \in Buffers : InWriting(p, c)' => InWriting(p, c)
      BY <2>1, <2>3, <2>4, IdleElsewhere DEF InWriting, At
    <2>7. \A c \in Buffers : ~stale'[c]
      BY <2>1, TouchKeepsFresh
    <2>. QED  BY <2>1, <2>3, <2>5, <2>6, <2>7, TornQuiet
  <1>4. CASE ReadEnd(p)
    <2>. DEFINE b == frame[p].buf
    <2>1. /\ Goto(p, IdleFrame) /\ UNCHANGED sem
          /\ holds' = [holds EXCEPT ![p][b] = "Read"]
          /\ touchBuffer_(p, b) \/ UNCHANGED stale
      BY <1>4 DEF ReadEnd
    <2>2. \A c \in Buffers : ~stale'[c]
      BY <2>1, TouchKeepsFresh
    <2>3. \A c \in Buffers : holds'[p][c] = "Read" \/ holds'[p][c] = holds[p][c]
      BY <1>0, <2>1
    <2>4. \A q \in Managers : q # p => holds'[q] = holds[q]
      BY <2>1, OthersKeepHolds
    <2>. QED  BY <2>1, <2>2, <2>3, <2>4, ElsewhereTorn, IdleElsewhere DEF Gets, ResetPoints
  <1>. QED  BY <1>1, <1>2, <1>3, <1>4 DEF Copy

\* Only the writer publishes, and it gives its buffer up with that.
LEMMA PublishTorn ==
    ASSUME OneWriter, TypeInv, TornInv, BufferInv', NEW p \in Managers,
           NEW b \in Buffers, NEW d \in Destinations, MarkBufferFull(p, b, d)
    PROVE  TornInv'
  <1>0. /\ frame[p] \in Frames /\ RoleInv(p) /\ p \in Writers
        /\ holds \in [Managers -> [Buffers -> Holdings]]
        /\ sem \in [Buffers -> BufferSemaphoreFlags]
    BY DEF TypeInv, TypeOK, TornInv, RoleInv, MarkBufferFull
  <1>. DEFINE f == [IdleFrame EXCEPT !.call = "MarkBufferFull", !.pc = "release",
                                     !.buf = b, !.id = d]
  <1>1. f.call = "MarkBufferFull" /\ f.pc = "release"
    BY DEF IdleFrame
  <1>. HIDE DEF f
  <1>2. \/ Goto(p, f) /\ sem' = [sem EXCEPT ![b] = "Full"]
        \/ UNCHANGED <<sem, frame>>
    BY DEF MarkBufferFull, f
  <1>3. holds' = [holds EXCEPT ![p][b] = "none"] /\ touchBuffer_(p, b) /\ frame[p].pc = "idle"
    BY DEF MarkBufferFull
  <1>4. \A q \in Managers : q # p => frame'[q] = frame[q] /\ holds'[q] = holds[q]
    BY <1>2, <1>3, GotoMoves, OthersKeepHolds
  <1>5. \A c \in Buffers : holds'[p][c] = IF c = b THEN "none" ELSE holds[p][c]
    BY <1>0, <1>3
  <1>6. \A c \in Buffers : ~stale'[c]
    BY <1>3, TouchKeepsFresh
  <1>7. (frame'[p] = f \/ frame'[p] = frame[p])
    BY <1>2, GotoMoves
  <1>8. RoleInv(p)'
    BY <1>0, <1>1, <1>5, <1>7 DEF RoleInv, ResetPoints
  <1>9. \A c \in Buffers : InWriting(p, c)' => c # b /\ InWriting(p, c)
    BY <1>1, <1>3, <1>5, <1>7 DEF InWriting, At
  <1>10. \A c \in Buffers : InWriting(p, c)' => sem'[c] \in WritingStates
    <2>1. \A c \in Buffers : c # b => sem'[c] = sem[c]
      BY <1>0, <1>2
    <2>. QED  BY <1>9, <2>1 DEF TornInv, WritingInv, WritingStates
  <1>. QED  BY <1>0, <1>4, <1>6, <1>8, <1>10, TornLocal

\* A release that comes too late makes the writer's buffer Empty, never Full.
LEMMA ReleaseTorn ==
    ASSUME NobodyRepublishes, TypeInv, TornInv, BufferInv', NEW p \in Managers,
           \/ \E b \in Buffers : MarkBufferEmpty(p, b) \/ MarkBufferEmptyForced(p, b)
           \/ ReleaseStoreSem(p) \/ ReleaseStoreId(p)
    PROVE  TornInv'
  <1>0. /\ frame[p] \in Frames /\ RoleInv(p) /\ OneWriter
        /\ holds \in [Managers -> [Buffers -> Holdings]]
        /\ sem \in [Buffers -> BufferSemaphoreFlags]
    BY DEF TypeInv, TypeOK, TornInv, NobodyRepublishes
  <1>1. ASSUME NEW b \in Buffers, MarkBufferEmpty(p, b) \/ MarkBufferEmptyForced(p, b)
        PROVE  TornInv'
    <2>1. UNCHANGED sem
      BY <1>1 DEF MarkBufferEmpty, MarkBufferEmptyForced
    <2>2. CASE BeginDetach(p) /\ UNCHANGED stale
      BY <1>0, <2>1, <2>2, BeginDetachTorn
    <2>3. ASSUME NEW c \in {"MarkBufferEmpty", "MarkBufferEmptyForced"},
                 c = "MarkBufferEmptyForced" => p \in Forcers,
                 Goto(p, [IdleFrame EXCEPT !.call = c, !.pc = "store_sem", !.buf = b]),
                 touchBuffer_(p, b), holds' = [holds EXCEPT ![p][b] = "none"]
          PROVE  TornInv'
      <3>. DEFINE f == [IdleFrame EXCEPT !.call = c, !.pc = "store_sem", !.buf = b]
      <3>1. f.call = c /\ f.pc = "store_sem" /\ Goto(p, f)
        BY <2>3 DEF IdleFrame
      <3>. HIDE DEF f
      <3>2. f.call = "MarkBufferEmptyForced" => p = Owner
        BY <2>3, <3>1 DEF NobodyRepublishes
      <3>3. \A k \in Buffers : holds'[p][k] = "none" \/ holds'[p][k] = holds[p][k]
        BY <1>0, <2>3
      <3>4. \A q \in Managers : q # p => holds'[q] = holds[q]
        BY <2>3, OthersKeepHolds
      <3>5. \A k \in Buffers : ~stale'[k]
        BY <2>3, TouchKeepsFresh
      <3>6. f.call \notin Gets \cup {"Write"} /\ f.pc \notin ResetPoints \cup {"cas_id", "cas_sem", "check"}
        BY <3>1 DEF Gets, ResetPoints
      <3>7. \A k \in Buffers : holds'[p][k] \in {"Writing", "Written"}
               => holds[p][k] \in {"Writing", "Written"}
        BY <3>3
      <3>. QED  BY <1>0, <2>1, <3>1, <3>2, <3>4, <3>5, <3>6, <3>7, ElsewhereTorn
    <2>. QED  BY <1>1, <2>2, <2>3 DEF MarkBufferEmpty, MarkBufferEmptyForced
  <1>2. CASE ReleaseStoreSem(p)
    <2>. DEFINE b == frame[p].buf
    <2>1. b \in Buffers /\ frame[p].pc = "store_sem" /\ Set(p, "release") /\ UNCHANGED <<holds, stale>>
      BY <1>2 DEF ReleaseStoreSem, TypeInv, BufferInv, ActingPoints, Set
    <2>2. sem' = [sem EXCEPT ![b] = "Empty"]
      BY <1>0, <1>2 DEF ReleaseStoreSem, NobodyRepublishes, RoleInv
    <2>3. /\ frame'[p].pc = "release"
          /\ \A q \in Managers : q # p => frame'[q] = frame[q] /\ holds'[q] = holds[q]
      BY <2>1, SetMoves
    <2>4. RoleInv(p)'
      BY <2>1, RoleSet DEF ResetPoints
    <2>5. \A c \in Buffers : InWriting(p, c)' => InWriting(p, c)
      BY <2>1, <2>3 DEF InWriting, At
    <2>6. \A c \in Buffers : sem'[c] = "Empty" \/ sem'[c] = sem[c]
      BY <1>0, <2>1, <2>2
    <2>7. \A c \in Buffers : InWriting(p, c)' => sem'[c] \in WritingStates
      BY <2>5, <2>6 DEF TornInv, WritingInv, WritingStates
    <2>8. \A c \in Buffers : ~stale'[c]
      BY <2>1 DEF TornInv
    <2>. QED  BY <1>0, <2>3, <2>4, <2>6, <2>7, <2>8, TornLocal DEF WritingStates
  <1>3. CASE ReleaseStoreId(p)
    <2>1. Goto(p, IdleFrame) /\ UNCHANGED <<sem, stale, holds>>
      BY <1>3 DEF ReleaseStoreId
    <2>2. \A c \in Buffers : ~stale'[c]
      BY <2>1 DEF TornInv
    <2>. QED  BY <1>0, <2>1, <2>2, ElsewhereTorn, IdleElsewhere DEF Gets, ResetPoints
  <1>. QED  BY <1>1, <1>2, <1>3

\* Detach gives nothing back that a writer has taken.
LEMMA DetachTorn ==
    ASSUME OneWriter, TypeInv, TornInv, BufferInv', NEW p \in Managers,
           DetachStoreSem(p) \/ DetachStoreId(p) \/ DetachEnd(p) \/ Detach(p) \/ Crash(p)
    PROVE  TornInv'
  <1>0. /\ frame[p] \in Frames /\ sem \in [Buffers -> BufferSemaphoreFlags]
        /\ \A c \in Buffers : ~stale[c]
    BY DEF TypeInv, TypeOK, TornInv
  <1>k. ASSUME NEW f, Goto(p, f), f.call \in {"Detach", "none"}, f.pc \in {"detach", "detach_id", "gone"},
               UNCHANGED <<stale, holds>>,
               \A c \in Buffers : sem[c] \in WritingStates => sem'[c] \in WritingStates
        PROVE  TornInv'
    BY <1>0, <1>k, ElsewhereTorn DEF Gets, ResetPoints
  <1>1. CASE DetachStoreSem(p)
    <2>1. PICK b \in frame[p].todo :
             /\ sem' = [sem EXCEPT ![b] = GivenBack(@)]
             /\ Goto(p, [frame[p] EXCEPT !.pc = "detach_id", !.buf = b])
      BY <1>1 DEF DetachStoreSem
    <2>. DEFINE f == [frame[p] EXCEPT !.pc = "detach_id", !.buf = b]
    <2>2. f.call = "Detach" /\ f.pc = "detach_id"
      BY <1>0, <1>1 DEF DetachStoreSem, At, Frames
    <2>. HIDE DEF f
    <2>3. \A c \in Buffers : sem'[c] = sem[c] \/ sem'[c] = GivenBack(sem[c])
      BY <1>0, <2>1
    <2>4. \A c \in Buffers : sem[c] \in WritingStates => sem'[c] \in WritingStates
      BY <2>3 DEF GivenBack, WritingStates
    <2>5. Goto(p, f) /\ UNCHANGED <<stale, holds>>
      BY <1>1, <2>1 DEF DetachStoreSem, f
    <2>. QED  BY <1>k, <2>2, <2>4, <2>5
  <1>2. CASE DetachStoreId(p)
    <2>. DEFINE f == [frame[p] EXCEPT !.pc = "detach", !.todo = @ \ {frame[p].buf}]
    <2>1. f.call = "Detach" /\ f.pc = "detach"
      BY <1>0, <1>2 DEF DetachStoreId, At, Frames
    <2>2. Goto(p, f) /\ UNCHANGED <<sem, stale, holds>>
      BY <1>2 DEF DetachStoreId
    <2>. HIDE DEF f
    <2>. QED  BY <1>k, <2>1, <2>2
  <1>3. CASE DetachEnd(p)
    BY <1>3, <1>k, IdleElsewhere DEF DetachEnd, shmBuffers
  <1>4. CASE Detach(p)
    BY <1>4, BeginDetachTorn DEF Detach, shmBuffers
  <1>5. CASE Crash(p)
    <2>1. /\ Goto(p, Gone) /\ UNCHANGED <<sem, stale>>
          /\ holds' = [holds EXCEPT ![p] = [b \in Buffers |-> "none"]]
      BY <1>5 DEF Crash, shmBuffers
    <2>2. \A c \in Buffers : holds'[p][c] = "none"
      BY <2>1 DEF TypeInv, TypeOK
    <2>3. \A q \in Managers : q # p => holds'[q] = holds[q]
      BY <2>1, OthersKeepHolds
    <2>. QED  BY <1>0, <2>1, <2>2, <2>3, ElsewhereTorn, IdleElsewhere DEF Gets, ResetPoints
  <1>. QED  BY <1>1, <1>2, <1>3, <1>4, <1>5

\* Where the calls that look for a buffer start.
LEMMA StartTorn ==
    ASSUME OneWriter, TypeInv, TornInv, BufferInv', NEW p \in Managers,
           \/ GetBufferForWriting(p) \/ GetBufferForReading(p)
           \/ \E b \in Buffers : Poll(p, b)
    PROVE  TornInv'
  <1>0. RoleInv(p)
    BY DEF TornInv
  <1>u. UNCHANGED <<sem, stale, holds>> /\ \A c \in Buffers : ~stale'[c]
    BY DEF GetBufferForWriting, GetBufferForReading, Poll, shmBuffers, TornInv
  <1>k. ASSUME NEW f, Goto(p, f), f.pc = "scan",
               \/ f.call = "GetBufferForWriting" /\ p \in Writers
               \/ f.call = "GetBufferForReading" /\ f.want = "Full"
               \/ f.call = "ResetBuffer"
        PROVE  TornInv'
    <2>1. frame'[p] = f /\ \A q \in Managers : q # p => frame'[q] = frame[q]
      BY <1>k, GotoMoves
    <2>2. RoleInv(p)'
      BY <1>0, <1>k, <1>u, <2>1 DEF RoleInv, ResetPoints
    <2>3. \A c \in Buffers : InWriting(p, c)' => InWriting(p, c)
      BY <1>k, <1>u, <2>1 DEF InWriting, At
    <2>. QED  BY <1>u, <2>1, <2>2, <2>3, TornQuiet
  <1>1. CASE GetBufferForWriting(p)
    BY <1>1, <1>k DEF GetBufferForWriting, IdleFrame
  <1>2. CASE GetBufferForReading(p)
    BY <1>2, <1>k DEF GetBufferForReading, IdleFrame
  <1>3. ASSUME NEW b \in Buffers, Poll(p, b) PROVE TornInv'
    BY <1>3, <1>k DEF Poll, IdleFrame
  <1>. QED  BY <1>1, <1>2, <1>3

LEMMA InitTornInv == Init => TornInv
  <1>. SUFFICES ASSUME Init PROVE TornInv
    OBVIOUS
  <1>1. BufferInv
    BY InitTypeInv DEF TypeInv
  <1>2. \A p \in Managers : frame[p] = IdleFrame /\ \A b \in Buffers : holds[p][b] = "none"
    BY DEF Init
  <1>. QED  BY <1>1, <1>2, IdleElsewhere
       DEF Init, TornInv, RoleInv, WritingInv, InWriting, At, ResetPoints

LEMMA NextTornInv ==
    ASSUME NobodyRepublishes, TypeInv, TornInv, [Next]_vars
    PROVE  TornInv'
  <1>0. BufferInv' /\ OneWriter
    BY NextTypeInv DEF TypeInv, NobodyRepublishes
  <1>1. ASSUME NEW p \in Managers, Step(p) PROVE TornInv'
    BY <1>0, <1>1, NothingResets, ScanTorn, SwapTorn, CheckTorn, CopyTorn, ReleaseTorn, DetachTorn
    DEF Step
  <1>2. ASSUME NEW p \in Managers, Client(p) PROVE TornInv'
    BY <1>0, <1>2, StartTorn, CopyTorn, PublishTorn, ReleaseTorn DEF Client, Publish, Release
  <1>3. ASSUME NEW p \in Managers, Detach(p) \/ Crash(p) PROVE TornInv'
    BY <1>0, <1>3, DetachTorn
  <1>4. ASSUME NEW b \in Buffers, Expire(b) PROVE TornInv'
    BY <1>4 DEF Expire, NobodyRepublishes
  <1>5. CASE UNCHANGED vars
    BY <1>0, <1>5 DEF vars, TornInv, RoleInv, WritingInv, InWriting, At
  <1>. QED  BY <1>1, <1>2, <1>3, <1>4, <1>5 DEF Next

\* A Read that says it succeeded gave one event's data: even if the writer takes
\* Full buffers and the buffers of slow readers, and managers detach or die.
THEOREM NoTornReadAlways == ASSUME NobodyRepublishes PROVE Spec => []NoTornRead
  <1>1. TypeInv /\ TornInv => NoTornRead
    <2>. SUFFICES ASSUME TypeInv, TornInv, NEW p \in Managers, NEW q \in Managers,
                         At(p, "Read", "copy"), ReadSucceeds(p),
                         At(q, "Write", "copy"), frame[q].buf = frame[p].buf
                  PROVE  FALSE
      BY DEF NoTornRead
    <2>1. frame[p].buf \in Buffers
      BY DEF TypeInv, BufferInv, At, ActingPoints
    <2>2. InWriting(q, frame[p].buf)
      BY DEF InWriting
    <2>3. sem[frame[p].buf] \in {"Writing", "Empty"}
      BY <2>1, <2>2 DEF TornInv, WritingInv
    <2>. QED  BY <2>3 DEF ReadSucceeds, checkBuffer_
  <1>2. Init => TypeInv /\ TornInv
    BY InitTypeInv, InitTornInv
  <1>3. TypeInv /\ TornInv /\ [Next]_vars => (TypeInv /\ TornInv)'
    BY NextTypeInv, NextTornInv
  <1>. QED  BY <1>1, <1>2, <1>3, PTL DEF Spec

-----------------------------------------------------------------------------
(***************************************************************************)
(* The dual semaphore works: while nothing takes buffers from their owners *)
(* (no overwrite, no timeout, no forced release by the owner of the        *)
(* segment), every buffer has one holder, data whenever it is offered, and *)
(* in destructive mode one reader per event.                               *)
(*                                                                         *)
(* LockInv is inductive.  A step of manager p changes buffers that p owns, *)
(* or that nobody owns, and LockInv ties what the other managers rely on   *)
(* to buffers that they own: so a step of p disturbs only what LockInv     *)
(* says of p and of the buffers p changes (LocalStep), and that much is    *)
(* checked action by action.                                               *)
(*                                                                         *)
(* From LockInv follows that the protocol implements BufferPool.           *)
(***************************************************************************)

LEMMA NoOneIsNotAManager == NoOne \notin Managers
  BY ManagersAssumption DEF NoOne

\* p changes its own call frame and holdings, and the buffers in B.
Local(p, B) ==
    /\ \A q \in Managers \ {p} : frame'[q] = frame[q] /\ holds'[q] = holds[q]
    /\ \A c \in Buffers \ B : /\ sem'[c] = sem[c] /\ sem_id'[c] = sem_id[c]
                              /\ writePos'[c] = writePos[c] /\ readBy'[c] = readBy[c]
    /\ \A c \in Buffers : ~stale'[c]

\* What LockInv says of one manager.
ActorInv(p) == CallInv(p) /\ OwnInv(p) /\ HoldInv(p) /\ ReadInv(p)

LEMMA OthersKeep ==
    ASSUME TypeInv, LockInv, NEW p \in Managers, NEW B \in SUBSET Buffers, Local(p, B),
           \A c \in B : sem_id[c] \in {p, NoOne},
           NEW q \in Managers, q # p
    PROVE  ActorInv(q)'
  <1>0. /\ CallInv(q) /\ OwnInv(q) /\ HoldInv(q) /\ ReadInv(q)
        /\ frame[q] \in Frames
        /\ frame[q].pc \in ActingPoints => frame[q].buf \in Buffers
    BY DEF LockInv, TypeInv, TypeOK, BufferInv
  <1>1. frame'[q] = frame[q] /\ holds'[q] = holds[q]
    BY DEF Local
  <1>2. \A c \in Buffers : sem_id[c] = q => /\ sem'[c] = sem[c] /\ sem_id'[c] = sem_id[c]
                                            /\ writePos'[c] = writePos[c]
                                            /\ readBy'[c] = readBy[c]
    BY NoOneIsNotAManager DEF Local
  <1>3. CallInv(q)'
    BY <1>0, <1>1 DEF CallInv
  <1>4. HoldInv(q)'
    BY <1>0, <1>1, <1>2 DEF HoldInv
  <1>5. OwnInv(q)'
    <2>1. frame[q].todo \subseteq Buffers
      BY <1>0 DEF Frames
    <2>2. frame[q].call = "Detach" => (\A c \in frame[q].todo : sem_id'[c] = q)
      BY <1>0, <1>2, <2>1 DEF OwnInv
    <2>3. frame[q].pc \in OwningPoints \cup {"detach_id"}
             => frame[q].buf \in Buffers /\ sem_id[frame[q].buf] = q
      BY <1>0 DEF OwnInv, CallInv, OwningPoints, ActingPoints
    <2>4. frame[q].pc \in OwningPoints \cup {"detach_id"}
             => sem'[frame[q].buf] = sem[frame[q].buf] /\ sem_id'[frame[q].buf] = q
      BY <1>2, <2>3
    <2>5. frame[q].pc = "cas_id" /\ frame[q].id # NoOne => sem_id'[frame[q].buf] = q
      BY <1>0, <1>2 DEF OwnInv, ActingPoints
    <2>. QED  BY <1>0, <1>1, <2>2, <2>4, <2>5 DEF OwnInv, OwningPoints, Target
  <1>6. ReadInv(q)'
    BY <1>0, <1>1, <1>2 DEF ReadInv, OwnInv, OwningPoints, ActingPoints, At
  <1>. QED  BY <1>3, <1>4, <1>5, <1>6 DEF ActorInv

\* A step of p preserves LockInv if it leaves p and the buffers it changes in order.
LEMMA LocalStep ==
    ASSUME TypeInv, LockInv, BufferInv', NEW p \in Managers, NEW B \in SUBSET Buffers,
           Local(p, B),
           \A c \in B : sem_id[c] \in {p, NoOne},
           \A c \in B : EventInv(c)',
           ActorInv(p)'
    PROVE  LockInv'
  <1>1. \A q \in Managers : ActorInv(q)'
    BY OthersKeep
  <1>2. \A c \in Buffers : EventInv(c)'
    <2>1. \A c \in Buffers \ B : EventInv(c)'
      BY DEF Local, LockInv, EventInv
    <2>. QED  BY <2>1
  <1>3. \A c \in Buffers : ~stale'[c]
    BY DEF Local
  <1>. QED  BY <1>1, <1>2, <1>3 DEF LockInv, ActorInv

-----------------------------------------------------------------------------
(* Frames of a manager that owns nothing on behalf of its call *)

Rest(f) ==
    /\ f.pc \in {"idle", "scan", "reload"}
    /\ f.call \notin {"Detach", "MarkBufferEmptyForced"}
    /\ f.call = "GetBufferForWriting" => f.want = "Empty"
    /\ f.call = "GetBufferForReading" => f.want = "Full"

LEMMA IdleRests == Rest(IdleFrame)
  BY DEF Rest, IdleFrame

\* A scan or a retry keeps to the buffers its call is looking for.
LEMMA ContinueRests ==
    ASSUME NothingTaken, NEW f \in Frames, f.call \notin {"Detach", "MarkBufferEmptyForced"},
           f.call = "GetBufferForWriting" => f.want = "Empty",
           f.call = "GetBufferForReading" => f.want = "Full"
    PROVE  Rest(NextBuffer(f)) /\ Rest(Retry(f)) /\ Rest(Continue(f))
  <1>1. Rest(NextBuffer(f))
    <2>1. CASE f.ii + 1 < NumBuffers
      BY <2>1 DEF NextBuffer, Rest, Frames
    <2>2. CASE ~(f.ii + 1 < NumBuffers) /\ f.call = "GetBufferForReading"
      BY <2>2 DEF NextBuffer, Rest, Frames
    <2>3. CASE ~(f.ii + 1 < NumBuffers) /\ f.call # "GetBufferForReading"
      <3>1. NextBuffer(f) = IdleFrame
        BY <2>3 DEF NextBuffer, NothingTaken
      <3>. QED  BY <3>1, IdleRests
    <2>. QED  BY <2>1, <2>2, <2>3
  <1>2. Rest(Retry(f))
    <2>1. CASE f.retry < MaxRetry
      BY <2>1 DEF Retry, Rest, Frames
    <2>2. CASE ~(f.retry < MaxRetry)
      BY <2>2, IdleRests DEF Retry
    <2>. QED  BY <2>1, <2>2
  <1>. QED  BY <1>1, <1>2 DEF Continue

LEMMA RestingActor ==
    ASSUME NEW p \in Managers, Rest(frame'[p])
    PROVE  CallInv(p)' /\ OwnInv(p)' /\ ReadInv(p)'
  BY DEF Rest, CallInv, OwnInv, ReadInv, ResetPoints, OwningPoints, At

\* What p holds is not touched.
LEMMA HoldKept ==
    ASSUME NEW p \in Managers, HoldInv(p), holds'[p] = holds[p],
           \A c \in Buffers : holds[p][c] # "none" =>
               /\ sem'[c] = sem[c] /\ sem_id'[c] = sem_id[c]
               /\ writePos'[c] = writePos[c] /\ readBy'[c] = readBy[c]
    PROVE  HoldInv(p)'
  BY DEF HoldInv

LEMMA TouchNotStale ==
    ASSUME TypeInv, LockInv, NEW p \in Managers, NEW b \in Buffers,
           touchBuffer_(p, b) \/ UNCHANGED stale
    PROVE  \A c \in Buffers : ~stale'[c]
  BY DEF touchBuffer_, LockInv, TypeInv, TypeOK

-----------------------------------------------------------------------------
(* Steps that change no buffer *)

LEMMA QuietStep ==
    ASSUME TypeInv, LockInv, BufferInv', NEW p \in Managers, NEW f \in Frames, Goto(p, f),
           UNCHANGED <<sem, sem_id, writePos, holds, readBy>>,
           \A c \in Buffers : ~stale'[c],
           CallInv(p)', OwnInv(p)', ReadInv(p)'
    PROVE  LockInv'
  <1>1. Local(p, {})
    BY GotoFrame DEF Local, TypeInv, TypeOK
  <1>2. HoldInv(p)'
    BY HoldKept DEF LockInv
  <1>. QED  BY <1>1, <1>2, LocalStep DEF ActorInv

LEMMA RestStep ==
    ASSUME TypeInv, LockInv, BufferInv', NEW p \in Managers, NEW f \in Frames, Goto(p, f),
           Rest(f),
           UNCHANGED <<sem, sem_id, writePos, holds, readBy>>,
           \A c \in Buffers : ~stale'[c]
    PROVE  LockInv'
  <1>1. frame'[p] = f
    BY GotoFrame DEF TypeInv, TypeOK
  <1>. QED  BY <1>1, RestingActor, QuietStep

\* What LockInv and the types say of the manager that makes the step.
LEMMA ActorFacts ==
    ASSUME TypeInv, LockInv, NEW p \in Managers
    PROVE  /\ frame[p] \in Frames
           /\ frame[p].pc \in ActingPoints => frame[p].buf \in Buffers
           /\ ScanBuffer(p) \in Buffers
           /\ CallInv(p) /\ OwnInv(p) /\ HoldInv(p) /\ ReadInv(p)
           /\ \A c \in Buffers : ~stale[c]
  BY ScanInBuffers DEF TypeInv, TypeOK, BufferInv, LockInv

\* No buffer is stale, so nothing is reset.
LEMMA NothingReset ==
    ASSUME TypeInv, LockInv, NEW p \in Managers
    PROVE  ~(ResetBuffer(p) \/ ResetRecheck(p) \/ ResetStoreFull(p) \/ ResetStoreEmpty(p)
             \/ ResetStoreId(p))
  BY ActorFacts DEF ResetBuffer, NeedsReset, StaleBroadcast, StaleRead, ResetRecheck,
     ResetStoreFull, ResetStoreEmpty, ResetStoreId, CallInv, ResetPoints

LEMMA AfterResetScans ==
    ASSUME TypeInv, LockInv, NEW p \in Managers, AfterReset(p)
    PROVE  frame[p].pc = "scan"
  BY ActorFacts DEF AfterReset, CallInv, ResetPoints

\* The scans, polls included.
LEMMA ScanLock ==
    ASSUME NothingTaken, TypeInv, LockInv, BufferInv', NEW p \in Managers,
           \/ PollEnd(p) \/ LoadSemForWriting(p) \/ LoadIdForWriting(p)
           \/ ScanForReading(p) \/ ReloadForReading(p)
    PROVE  LockInv'
  <1>. DEFINE b == ScanBuffer(p)
  <1>0. /\ frame[p] \in Frames /\ b \in Buffers
        /\ CallInv(p) /\ OwnInv(p) /\ HoldInv(p) /\ \A c \in Buffers : ~stale[c]
    BY ActorFacts
  <1>1. CASE PollEnd(p)
    <2>1. \A c \in Buffers : ~stale'[c]
      BY <1>0, <1>1, TouchNotStale DEF PollEnd
    <2>. QED  BY <1>1, <2>1, IdleRests, ConstantFrames, RestStep DEF PollEnd
  <1>2. CASE LoadSemForWriting(p)
    <2>1. frame[p].want = "Empty" /\ frame[p].call = "GetBufferForWriting"
      BY <1>0, <1>2 DEF LoadSemForWriting, CallInv
    <2>2. CASE sem[b] = frame[p].want
      <3>. DEFINE f == [frame[p] EXCEPT !.pc = "load_id", !.buf = b]
      <3>1. f \in Frames
        BY <1>0, PointNames DEF Frames, ActingPoints
      <3>2. f.pc = "load_id" /\ f.call = "GetBufferForWriting" /\ f.want = "Empty"
        BY <1>0, <2>1 DEF Frames
      <3>. HIDE DEF f
      <3>3. Goto(p, f) /\ UNCHANGED <<sem, sem_id, writePos, holds, readBy, stale>>
        BY <1>2, <2>2 DEF LoadSemForWriting, f, shmBuffers
      <3>4. frame'[p] = f
        BY <3>1, <3>3, GotoFrame DEF TypeInv, TypeOK
      <3>5. CallInv(p)' /\ OwnInv(p)' /\ ReadInv(p)'
        BY <3>2, <3>4 DEF CallInv, OwnInv, ReadInv, ResetPoints, OwningPoints, At
      <3>. QED  BY <1>0, <3>1, <3>3, <3>5, QuietStep
    <2>3. CASE sem[b] # frame[p].want
      <3>1. Goto(p, NextBuffer(frame[p])) /\ UNCHANGED <<sem, sem_id, writePos, holds, readBy, stale>>
        BY <1>2, <2>3 DEF LoadSemForWriting, shmBuffers
      <3>. QED  BY <1>0, <2>1, <3>1, ContinueRests, NextBufferFrame, RestStep
    <2>. QED  BY <2>2, <2>3
  <1>3. CASE LoadIdForWriting(p)
    <2>. DEFINE d == frame[p].buf
    <2>1. /\ frame[p].want = "Empty" /\ frame[p].call = "GetBufferForWriting" /\ d \in Buffers
      BY <1>0, <1>3, ActorFacts DEF LoadIdForWriting, CallInv, At, ActingPoints
    <2>2. CASE sem_id[d] = NoOne
      <3>. DEFINE f == [frame[p] EXCEPT !.pc = "cas_id", !.id = sem_id[d]]
      <3>0. "cas_id" \in Points /\ sem_id[d] \in Managers \cup {NoOne}
        BY <2>2, PointNames DEF ActingPoints
      <3>1. f \in Frames
        BY <1>0, <3>0 DEF Frames
      <3>2. f.pc = "cas_id" /\ f.id = NoOne /\ f.call = "GetBufferForWriting" /\ f.want = "Empty"
        BY <1>0, <2>1, <2>2 DEF Frames
      <3>. HIDE DEF f
      <3>3. Goto(p, f) /\ UNCHANGED <<sem, sem_id, writePos, holds, readBy>> /\ touchBuffer_(p, d)
        BY <1>3, <2>2 DEF LoadIdForWriting, f
      <3>4. frame'[p] = f
        BY <3>1, <3>3, GotoFrame DEF TypeInv, TypeOK
      <3>5. CallInv(p)' /\ OwnInv(p)' /\ ReadInv(p)'
        BY <3>2, <3>4 DEF CallInv, OwnInv, ReadInv, ResetPoints, OwningPoints, At
      <3>. QED  BY <2>1, <3>1, <3>3, <3>5, QuietStep, TouchNotStale
    <2>3. CASE sem_id[d] # NoOne
      <3>1. Goto(p, NextBuffer(frame[p])) /\ UNCHANGED <<sem, sem_id, writePos, holds, readBy, stale>>
        BY <1>3, <2>1, <2>3 DEF LoadIdForWriting
      <3>. QED  BY <1>0, <2>1, <3>1, ContinueRests, NextBufferFrame, RestStep
    <2>. QED  BY <2>2, <2>3
  <1>4. CASE ScanForReading(p)
    <2>. DEFINE found == [frame[p] EXCEPT !.buf = b, !.seq = sequence_id[b]]
                turn == [found EXCEPT !.pc = "reload"]
    <2>1. frame[p].want = "Full" /\ frame[p].call = "GetBufferForReading"
      BY <1>0, <1>4 DEF ScanForReading, CallInv
    <2>2. sequence_id[b] \in Nat /\ "reload" \in Points
      BY <1>0, PointNames DEF TypeInv, TypeOK
    <2>3. found \in Frames /\ found.call = "GetBufferForReading" /\ found.want = "Full"
      BY <1>0, <2>1, <2>2 DEF Frames
    <2>. HIDE DEF found
    <2>4. turn \in Frames /\ Rest(turn)
      BY <2>2, <2>3 DEF Frames, Rest
    <2>. HIDE DEF turn
    <2>5. \E f \in {turn, NextBuffer(found), NextBuffer(frame[p])} : Goto(p, f)
      BY <1>4 DEF ScanForReading, turn, found
    <2>6. \A f \in {turn, NextBuffer(found), NextBuffer(frame[p])} : f \in Frames /\ Rest(f)
      BY <1>0, <2>1, <2>3, <2>4, ContinueRests, NextBufferFrame
    <2>7. \A c \in Buffers : ~stale'[c]
      BY <1>0, <1>4, TouchNotStale DEF ScanForReading
    <2>8. UNCHANGED <<sem, sem_id, writePos, holds, readBy>>
      BY <1>4 DEF ScanForReading
    <2>. QED  BY <2>5, <2>6, <2>7, <2>8, RestStep
  <1>5. CASE ReloadForReading(p)
    <2>. DEFINE d == frame[p].buf
    <2>1. frame[p].want = "Full" /\ frame[p].call = "GetBufferForReading"
      BY <1>0, <1>5 DEF ReloadForReading, At, CallInv
    <2>2. UNCHANGED <<sem, sem_id, writePos, holds, readBy>>
      BY <1>5 DEF ReloadForReading
    <2>3. CASE Goto(p, Retry(frame[p])) /\ UNCHANGED stale
      BY <1>0, <2>1, <2>2, <2>3, ContinueRests, RetryFrame, RestStep
    <2>4. CASE d # NoBuffer /\ sem_id[d] \in {NoOne, p} /\ sem[d] = "Full" /\ touchBuffer_(p, d)
               /\ Goto(p, [frame[p] EXCEPT !.pc = "cas_id", !.id = sem_id[d],
                                           !.seq = sequence_id[d]])
      <3>. DEFINE f == [frame[p] EXCEPT !.pc = "cas_id", !.id = sem_id[d],
                                        !.seq = sequence_id[d]]
      <3>1. d \in Buffers
        BY <1>0, <2>4 DEF Frames
      <3>2. "cas_id" \in Points /\ sem_id[d] \in Managers \cup {NoOne} /\ sequence_id[d] \in Nat
        BY <2>4, <3>1, PointNames DEF ActingPoints, TypeInv, TypeOK
      <3>3. f \in Frames
        BY <1>0, <3>2 DEF Frames
      <3>4. /\ f.pc = "cas_id" /\ f.id = sem_id[d] /\ f.buf = d
            /\ f.call = "GetBufferForReading" /\ f.want = "Full"
        BY <1>0, <2>1 DEF Frames
      <3>. HIDE DEF f
      <3>5. frame'[p] = f
        BY <2>4, <3>3, GotoFrame DEF TypeInv, TypeOK, f
      <3>6. holds[p][d] = "none"
        BY <1>0, <2>4, <3>1 DEF HoldInv, StateOf
      <3>7. CallInv(p)' /\ OwnInv(p)' /\ ReadInv(p)'
        BY <2>2, <2>4, <3>4, <3>5, <3>6
           DEF CallInv, OwnInv, ReadInv, ResetPoints, OwningPoints, At
      <3>. QED  BY <2>2, <2>4, <3>1, <3>3, <3>7, QuietStep, TouchNotStale DEF f
    <2>. QED  BY <1>5, <2>3, <2>4 DEF ReloadForReading
  <1>. QED  BY <1>1, <1>2, <1>3, <1>4, <1>5

-----------------------------------------------------------------------------
(* Steps that take a buffer *)

LEMMA SetFields ==
    ASSUME TypeInv, NEW p \in Managers, NEW x \in Points, Set(p, x)
    PROVE  /\ frame'[p].pc = x /\ frame'[p].buf = frame[p].buf
           /\ frame'[p].call = frame[p].call /\ frame'[p].want = frame[p].want
           /\ frame'[p].id = frame[p].id /\ frame'[p].todo = frame[p].todo
           /\ \A q \in Managers : q # p => frame'[q] = frame[q]
  <1>1. frame[p] \in Frames /\ frame'[p] = [frame[p] EXCEPT !.pc = x]
    BY SetFrame DEF TypeInv, TypeOK
  <1>. QED  BY <1>1, SetFrame DEF TypeInv, TypeOK, Frames

\* A compare-and-swap that failed goes on with the scan.
LEMMA FailedSwap ==
    ASSUME NothingTaken, TypeInv, LockInv, BufferInv', NEW p \in Managers,
           frame[p].pc \in {"cas_id", "cas_sem", "check"}, Goto(p, Continue(frame[p])),
           UNCHANGED <<sem, sem_id, writePos, stale, holds, readBy>>
    PROVE  LockInv'
  <1>1. /\ frame[p] \in Frames /\ CallInv(p) /\ \A c \in Buffers : ~stale[c]
    BY ActorFacts
  <1>2. Continue(frame[p]) \in Frames /\ Rest(Continue(frame[p]))
    BY <1>1, ContinueFrame, ContinueRests DEF CallInv
  <1>. QED  BY <1>1, <1>2, RestStep

LEMMA CasIdLock ==
    ASSUME NothingTaken, TypeInv, LockInv, BufferInv', NEW p \in Managers, CasId(p)
    PROVE  LockInv'
  <1>. DEFINE b == frame[p].buf
  <1>0. /\ frame[p] \in Frames /\ b \in Buffers /\ frame[p].pc = "cas_id"
        /\ CallInv(p) /\ OwnInv(p) /\ HoldInv(p) /\ \A c \in Buffers : ~stale[c]
        /\ EventInv(b)
    BY ActorFacts DEF CasId, ActingPoints, LockInv
  <1>1. CASE IdUnchanged(p)
    <2>1. /\ sem_id' = [sem_id EXCEPT ![b] = p] /\ Set(p, "cas_sem")
          /\ UNCHANGED <<sem, writePos, stale, holds, readBy>>
      BY <1>1 DEF CasId
    <2>2. /\ frame'[p].pc = "cas_sem" /\ frame'[p].buf = b
          /\ frame'[p].call = frame[p].call /\ frame'[p].want = frame[p].want
          /\ \A q \in Managers : q # p => frame'[q] = frame[q]
      BY <2>1, SetFields, PointNames DEF ActingPoints
    <2>3. sem_id[b] \in {p, NoOne} /\ holds[p][b] = "none"
      BY <1>0, <1>1, NoOneIsNotAManager DEF IdUnchanged, OwnInv, HoldInv
    <2>4. sem_id'[b] = p /\ \A c \in Buffers : c # b => sem_id'[c] = sem_id[c]
      BY <1>0, <2>1 DEF TypeInv, TypeOK
    <2>5. Local(p, {b})
      BY <1>0, <2>1, <2>2, <2>4 DEF Local
    <2>6. \A c \in {b} : EventInv(c)'
      <3>1. readBy[b] \subseteq Managers
        BY <1>0 DEF TypeInv, TypeOK
      <3>. QED  BY <1>0, <2>1, <2>3, <2>4, <3>1, NoOneIsNotAManager DEF EventInv
    <2>7. CallInv(p)' /\ OwnInv(p)' /\ ReadInv(p)'
      BY <1>0, <2>1, <2>2, <2>3, <2>4
         DEF CallInv, OwnInv, ReadInv, ResetPoints, OwningPoints, At
    <2>8. HoldInv(p)'
      BY <1>0, <2>1, <2>3, <2>4, HoldKept
    <2>. QED  BY <1>0, <2>3, <2>5, <2>6, <2>7, <2>8, LocalStep DEF ActorInv
  <1>2. CASE ~IdUnchanged(p)
    BY <1>0, <1>2, FailedSwap DEF CasId
  <1>. QED  BY <1>1, <1>2

LEMMA CasSemLock ==
    ASSUME NothingTaken, TypeInv, LockInv, BufferInv', NEW p \in Managers, CasSem(p)
    PROVE  LockInv'
  <1>. DEFINE b == frame[p].buf
  <1>0. /\ frame[p] \in Frames /\ b \in Buffers /\ frame[p].pc = "cas_sem"
        /\ CallInv(p) /\ OwnInv(p) /\ HoldInv(p) /\ \A c \in Buffers : ~stale[c]
        /\ EventInv(b)
    BY ActorFacts DEF CasSem, ActingPoints, LockInv
  <1>1. CASE SemUnchanged(p)
    <2>1. /\ sem' = [sem EXCEPT ![b] = Target(p)] /\ Set(p, "check")
          /\ UNCHANGED <<sem_id, writePos, stale, holds, readBy>>
      BY <1>1 DEF CasSem
    <2>2. /\ frame'[p].pc = "check" /\ frame'[p].buf = b
          /\ frame'[p].call = frame[p].call /\ frame'[p].want = frame[p].want
          /\ \A q \in Managers : q # p => frame'[q] = frame[q]
      BY <2>1, SetFields, PointNames DEF ActingPoints
    <2>3. sem_id[b] = p /\ holds[p][b] = "none"
      BY <1>0 DEF OwnInv, OwningPoints
    <2>4. sem'[b] = Target(p) /\ \A c \in Buffers : c # b => sem'[c] = sem[c]
      BY <1>0, <2>1 DEF TypeInv, TypeOK
    <2>5. Local(p, {b})
      BY <1>0, <2>1, <2>2, <2>4 DEF Local
    <2>6. frame[p].call = "GetBufferForReading" => sem[b] = "Full"
      BY <1>0, <1>1 DEF CallInv, SemUnchanged
    <2>7. frame[p].call \in {"GetBufferForWriting", "GetBufferForReading"}
      BY <1>0 DEF CallInv
    <2>8. \A c \in {b} : EventInv(c)'
      BY <1>0, <2>1, <2>3, <2>4, <2>6, <2>7, NoOneIsNotAManager DEF EventInv, Target
    <2>9. CallInv(p)'
      BY <1>0, <2>2, <2>7 DEF CallInv, ResetPoints
    <2>10. OwnInv(p)'
      BY <1>0, <2>1, <2>2, <2>3, <2>4, <2>7 DEF OwnInv, OwningPoints, Target
    <2>11. ReadInv(p)'
      BY <1>0, <2>1, <2>2, <2>6 DEF ReadInv, EventInv, At
    <2>12. HoldInv(p)'
      BY <1>0, <2>1, <2>3, <2>4, HoldKept
    <2>. QED  BY <1>0, <2>3, <2>5, <2>8, <2>9, <2>10, <2>11, <2>12, LocalStep DEF ActorInv
  <1>2. CASE ~SemUnchanged(p)
    BY <1>0, <1>2, FailedSwap DEF CasSem
  <1>. QED  BY <1>1, <1>2

LEMMA CheckWritingLock ==
    ASSUME NothingTaken, TypeInv, LockInv, BufferInv', NEW p \in Managers, CheckWriting(p)
    PROVE  LockInv'
  <1>. DEFINE b == frame[p].buf
              f == [frame[p] EXCEPT !.pc = "store_seq", !.seq = next_sequence_id + 1]
  <1>0. /\ frame[p] \in Frames /\ b \in Buffers /\ frame[p].pc = "check"
        /\ frame[p].call = "GetBufferForWriting"
        /\ CallInv(p) /\ OwnInv(p) /\ HoldInv(p) /\ \A c \in Buffers : ~stale[c]
    BY ActorFacts DEF CheckWriting, ActingPoints, At
  <1>1. UNCHANGED <<sem, sem_id, writePos, stale, holds, readBy>>
    BY <1>0 DEF CheckWriting, shmBuffers
  <1>2. CASE checkBuffer_(p, b, "Writing")
    <2>1. next_sequence_id + 1 \in Nat /\ "store_seq" \in Points
      BY PointNames DEF TypeInv, TypeOK, ActingPoints
    <2>2. f \in Frames
      BY <1>0, <2>1 DEF Frames
    <2>3. f.pc = "store_seq" /\ f.call = "GetBufferForWriting" /\ f.buf = b /\ f.want = frame[p].want
      BY <1>0 DEF Frames
    <2>. HIDE DEF f
    <2>4. Goto(p, f)
      BY <1>2, <1>0 DEF CheckWriting, f
    <2>5. frame'[p] = f
      BY <2>2, <2>4, GotoFrame DEF TypeInv, TypeOK
    <2>6. CallInv(p)' /\ OwnInv(p)' /\ ReadInv(p)'
      BY <1>0, <1>1, <1>2, <2>3, <2>5
         DEF CallInv, OwnInv, ReadInv, ResetPoints, OwningPoints, At, checkBuffer_
    <2>. QED  BY <1>0, <1>1, <2>2, <2>4, <2>6, QuietStep
  <1>3. CASE ~checkBuffer_(p, b, "Writing")
    <2>1. Goto(p, Continue(frame[p]))
      BY <1>0, <1>3 DEF CheckWriting, Continue
    <2>. QED  BY <1>0, <1>1, <2>1, FailedSwap
  <1>. QED  BY <1>2, <1>3

LEMMA StoreSequenceIdLock ==
    ASSUME NothingTaken, TypeInv, LockInv, BufferInv', NEW p \in Managers, StoreSequenceId(p)
    PROVE  LockInv'
  <1>. DEFINE b == frame[p].buf
  <1>0. /\ b \in Buffers /\ frame[p].pc = "store_seq" /\ sem_id[b] = p /\ sem[b] = "Writing"
        /\ holds[p][b] = "none" /\ HoldInv(p)
    BY ActorFacts DEF StoreSequenceId, ActingPoints, At, OwnInv, OwningPoints
  <1>1. /\ Goto(p, IdleFrame)
        /\ holds' = [holds EXCEPT ![p][b] = "Writing"] /\ writePos' = [writePos EXCEPT ![b] = 0]
        /\ touchBuffer_(p, b) /\ UNCHANGED <<sem, sem_id, readBy>>
    BY <1>0 DEF StoreSequenceId, checkBuffer_
  <1>2. frame'[p] = IdleFrame /\ \A q \in Managers : q # p => frame'[q] = frame[q]
    BY <1>1, GotoFrame, ConstantFrames DEF TypeInv, TypeOK
  <1>3. /\ \A q \in Managers : q # p => holds'[q] = holds[q]
        /\ holds'[p][b] = "Writing" /\ \A c \in Buffers : c # b => holds'[p][c] = holds[p][c]
        /\ \A c \in Buffers : c # b => writePos'[c] = writePos[c]
    BY <1>0, <1>1 DEF TypeInv, TypeOK
  <1>4. Local(p, {b})
    BY <1>0, <1>1, <1>2, <1>3, TouchNotStale DEF Local
  <1>5. \A c \in {b} : EventInv(c)'
    BY <1>0, <1>1, NoOneIsNotAManager DEF EventInv
  <1>6. HoldInv(p)'
    BY <1>0, <1>1, <1>3 DEF HoldInv, StateOf
  <1>7. CallInv(p)' /\ OwnInv(p)' /\ ReadInv(p)'
    BY <1>2, IdleRests, RestingActor
  <1>. QED  BY <1>0, <1>4, <1>5, <1>6, <1>7, LocalStep DEF ActorInv

LEMMA CheckReadingLock ==
    ASSUME NothingTaken, TypeInv, LockInv, BufferInv', NEW p \in Managers, CheckReading(p)
    PROVE  LockInv'
  <1>. DEFINE b == frame[p].buf
  <1>0. /\ frame[p] \in Frames /\ b \in Buffers /\ frame[p].pc = "check"
        /\ frame[p].call = "GetBufferForReading"
        /\ sem_id[b] = p /\ sem[b] = "Reading" /\ holds[p][b] = "none"
        /\ HoldInv(p) /\ ReadInv(p) /\ EventInv(b)
    BY ActorFacts DEF CheckReading, ActingPoints, At, OwnInv, OwningPoints, Target, LockInv
  <1>1. /\ Goto(p, IdleFrame)
        /\ holds' = [holds EXCEPT ![p][b] = "Reading"] /\ readBy' = [readBy EXCEPT ![b] = @ \cup {p}]
        /\ touchBuffer_(p, b) /\ UNCHANGED <<sem, sem_id, writePos>>
    BY <1>0 DEF CheckReading, checkBuffer_
  <1>2. frame'[p] = IdleFrame /\ \A q \in Managers : q # p => frame'[q] = frame[q]
    BY <1>1, GotoFrame, ConstantFrames DEF TypeInv, TypeOK
  <1>3. /\ \A q \in Managers : q # p => holds'[q] = holds[q]
        /\ holds'[p][b] = "Reading" /\ \A c \in Buffers : c # b => holds'[p][c] = holds[p][c]
        /\ readBy'[b] = readBy[b] \cup {p} /\ \A c \in Buffers : c # b => readBy'[c] = readBy[c]
    BY <1>0, <1>1 DEF TypeInv, TypeOK
  <1>4. Local(p, {b})
    BY <1>0, <1>1, <1>2, <1>3, TouchNotStale DEF Local
  <1>5. \A c \in {b} : EventInv(c)'
    BY <1>0, <1>1, <1>3 DEF EventInv
  <1>6. HoldInv(p)'
    BY <1>0, <1>1, <1>3 DEF HoldInv, StateOf
  <1>7. CallInv(p)' /\ OwnInv(p)' /\ ReadInv(p)'
    BY <1>2, IdleRests, RestingActor
  <1>. QED  BY <1>0, <1>4, <1>5, <1>6, <1>7, LocalStep DEF ActorInv

-----------------------------------------------------------------------------
(* Write and Read *)

\* A client that throws, or detaches, gives up what it holds.
LEMMA BeginDetachLock ==
    ASSUME TypeInv, LockInv, BufferInv', NEW p \in Managers, BeginDetach(p),
           UNCHANGED <<sem, sem_id, writePos, stale, readBy>>
    PROVE  LockInv'
  <1>. DEFINE f == DetachFrame(p)
  <1>1. /\ f \in Frames /\ f.call = "Detach" /\ f.pc = "detach"
        /\ f.todo \subseteq Buffers /\ \A c \in f.todo : sem_id[c] = p
    BY ConstantFrames, PointNames DEF DetachFrame, GetBuffersOwnedByManager, IdleFrame, Frames, Calls
  <1>2. frame'[p] = f /\ \A q \in Managers : q # p => frame'[q] = frame[q]
    BY <1>1, GotoFrame DEF BeginDetach, TypeInv, TypeOK
  <1>. HIDE DEF f
  <1>3. /\ \A c \in Buffers : holds'[p][c] = "none"
        /\ \A q \in Managers : q # p => holds'[q] = holds[q]
    BY DEF BeginDetach, TypeInv, TypeOK
  <1>4. Local(p, {})
    BY <1>2, <1>3, ActorFacts DEF Local
  <1>5. CallInv(p)' /\ OwnInv(p)' /\ ReadInv(p)'
    BY <1>1, <1>2, <1>3 DEF CallInv, OwnInv, ReadInv, ResetPoints, OwningPoints, At
  <1>6. HoldInv(p)'
    BY <1>3 DEF HoldInv
  <1>. QED  BY <1>4, <1>5, <1>6, LocalStep DEF ActorInv

\* The start of a copy from or to a buffer that the client holds.
LEMMA CopyStarts ==
    ASSUME TypeInv, LockInv, BufferInv', NEW p \in Managers, NEW b \in Buffers,
           \/ Write(p, b) /\ checkBuffer_(p, b, "Writing")
           \/ Read(p, b) /\ checkBuffer_(p, b, "Reading")
    PROVE  LockInv'
  <1>. DEFINE call == IF holds[p][b] = "Writing" THEN "Write" ELSE "Read"
              f == [IdleFrame EXCEPT !.call = call, !.pc = "copy", !.buf = b]
  <1>1. /\ Goto(p, f) /\ touchBuffer_(p, b) /\ holds[p][b] \in {"Writing", "Reading"}
        /\ UNCHANGED <<sem, sem_id, writePos, holds, readBy>>
    BY DEF Write, Read
  <1>2. call \in Calls /\ "copy" \in Points
    BY DEF Calls, Points
  <1>3. f \in Frames /\ f.call = call /\ f.pc = "copy" /\ f.buf = b
    BY <1>2, ConstantFrames DEF Frames, IdleFrame
  <1>. HIDE DEF f
  <1>4. frame'[p] = f
    BY <1>1, <1>3, GotoFrame DEF TypeInv, TypeOK
  <1>5. CallInv(p)' /\ OwnInv(p)' /\ ReadInv(p)'
    BY <1>1, <1>3, <1>4 DEF CallInv, OwnInv, ReadInv, ResetPoints, OwningPoints, At
  <1>. QED  BY <1>1, <1>3, <1>5, QuietStep, TouchNotStale

LEMMA CopyLock ==
    ASSUME TypeInv, LockInv, BufferInv', NEW p \in Managers, Copy(p)
    PROVE  LockInv'
  <1>1. PICK b \in Buffers : Write(p, b) \/ Read(p, b)
    BY DEF Copy
  <1>. DEFINE started == \/ Write(p, b) /\ checkBuffer_(p, b, "Writing")
                         \/ Read(p, b) /\ checkBuffer_(p, b, "Reading")
  <1>2. CASE started
    BY <1>2, CopyStarts
  <1>3. CASE ~started
    BY <1>1, <1>3, BeginDetachLock DEF Write, Read
  <1>. QED  BY <1>2, <1>3

LEMMA CopyEndLock ==
    ASSUME TypeInv, LockInv, BufferInv', NEW p \in Managers, WriteEnd(p) \/ ReadEnd(p)
    PROVE  LockInv'
  <1>. DEFINE b == frame[p].buf
              new == IF frame[p].call = "Write" THEN "Written" ELSE "Read"
  <1>0. /\ frame[p] \in Frames /\ b \in Buffers /\ frame[p].pc = "copy"
        /\ HoldInv(p) /\ EventInv(b) /\ OwnInv(p)
    BY ActorFacts DEF WriteEnd, ReadEnd, ActingPoints, At, LockInv
  <1>1. /\ Goto(p, IdleFrame) /\ holds' = [holds EXCEPT ![p][b] = new]
        /\ touchBuffer_(p, b) \/ UNCHANGED stale
        /\ UNCHANGED <<sem, sem_id, readBy>>
        /\ \/ writePos' = [writePos EXCEPT ![b] = 1]
           \/ new # "Written" /\ UNCHANGED writePos
    BY DEF WriteEnd, ReadEnd, At
  <1>2. frame'[p] = IdleFrame /\ \A q \in Managers : q # p => frame'[q] = frame[q]
    BY <1>1, GotoFrame, ConstantFrames DEF TypeInv, TypeOK
  <1>3. /\ holds[p][b] = IF new = "Written" THEN "Writing" ELSE "Reading"
        /\ new \in {"Written", "Read"}
    BY <1>0 DEF OwnInv
  <1>. HIDE DEF new
  <1>4. /\ \A q \in Managers : q # p => holds'[q] = holds[q]
        /\ holds'[p][b] = new /\ \A c \in Buffers : c # b => holds'[p][c] = holds[p][c]
        /\ \A c \in Buffers : c # b => writePos'[c] = writePos[c]
        /\ writePos'[b] = 1 \/ (new = "Read" /\ writePos'[b] = writePos[b])
    BY <1>0, <1>1, <1>3 DEF TypeInv, TypeOK
  <1>5. sem_id[b] = p
    BY <1>0, <1>3 DEF HoldInv
  <1>6. Local(p, {b})
    BY <1>0, <1>1, <1>2, <1>4, TouchNotStale DEF Local
  <1>7. \A c \in {b} : EventInv(c)'
    BY <1>0, <1>1, <1>4 DEF EventInv
  <1>8. HoldInv(p)'
    BY <1>0, <1>1, <1>3, <1>4 DEF HoldInv, StateOf
  <1>9. CallInv(p)' /\ OwnInv(p)' /\ ReadInv(p)'
    BY <1>2, IdleRests, RestingActor
  <1>. QED  BY <1>0, <1>5, <1>6, <1>7, <1>8, <1>9, LocalStep DEF ActorInv

-----------------------------------------------------------------------------
(* Steps that give a buffer up *)

LEMMA PublishLock ==
    ASSUME TypeInv, LockInv, BufferInv', NEW p \in Managers, Publish(p)
    PROVE  LockInv'
  <1>1. PICK b \in Buffers, d \in Destinations : MarkBufferFull(p, b, d)
    BY DEF Publish
  <1>. DEFINE f == [IdleFrame EXCEPT !.call = "MarkBufferFull", !.pc = "release",
                                     !.buf = b, !.id = d]
  <1>2. sem_id[b] = p /\ sem[b] = "Writing" /\ writePos[b] = 1 /\ HoldInv(p) /\ EventInv(b)
    BY <1>1, ActorFacts DEF MarkBufferFull, HoldInv, StateOf, LockInv
  <1>3. /\ Goto(p, f) /\ sem' = [sem EXCEPT ![b] = "Full"] /\ readBy' = [readBy EXCEPT ![b] = {}]
        /\ holds' = [holds EXCEPT ![p][b] = "none"] /\ touchBuffer_(p, b)
        /\ UNCHANGED <<sem_id, writePos>>
    BY <1>1, <1>2 DEF MarkBufferFull
  <1>4. /\ f \in Frames /\ f.call = "MarkBufferFull" /\ f.pc = "release" /\ f.buf = b
    <2>1. "MarkBufferFull" \in Calls /\ "release" \in Points /\ d \in Managers \cup {NoOne}
      BY RolesAssumption DEF Calls, Points
    <2>. QED  BY <2>1, ConstantFrames DEF Frames, IdleFrame
  <1>. HIDE DEF f
  <1>5. frame'[p] = f /\ \A q \in Managers : q # p => frame'[q] = frame[q]
    BY <1>3, <1>4, GotoFrame DEF TypeInv, TypeOK
  <1>6. /\ \A q \in Managers : q # p => holds'[q] = holds[q]
        /\ holds'[p][b] = "none" /\ \A c \in Buffers : c # b => holds'[p][c] = holds[p][c]
        /\ sem'[b] = "Full" /\ \A c \in Buffers : c # b => sem'[c] = sem[c]
        /\ readBy'[b] = {} /\ \A c \in Buffers : c # b => readBy'[c] = readBy[c]
    BY <1>3 DEF TypeInv, TypeOK
  <1>7. Local(p, {b})
    BY <1>3, <1>5, <1>6, TouchNotStale DEF Local
  <1>8. \A c \in {b} : EventInv(c)'
    BY <1>2, <1>3, <1>6 DEF EventInv
  <1>9. HoldInv(p)'
    BY <1>2, <1>3, <1>6 DEF HoldInv
  <1>10. CallInv(p)' /\ OwnInv(p)' /\ ReadInv(p)'
    BY <1>2, <1>3, <1>4, <1>5, <1>6
       DEF CallInv, OwnInv, ReadInv, ResetPoints, OwningPoints, At
  <1>. QED  BY <1>2, <1>7, <1>8, <1>9, <1>10, LocalStep DEF ActorInv

\* The start of MarkBufferEmpty, with or without force, by the holder.
LEMMA ReleaseStarts ==
    ASSUME TypeInv, LockInv, BufferInv', NEW p \in Managers, NEW b \in Buffers,
           NEW call \in {"MarkBufferEmpty", "MarkBufferEmptyForced"},
           Goto(p, [IdleFrame EXCEPT !.call = call, !.pc = "store_sem", !.buf = b]),
           holds[p][b] # "none",
           call = "MarkBufferEmpty" => holds[p][b] \in {"Reading", "Read"},
           call = "MarkBufferEmptyForced" => p \in Forcers,
           holds' = [holds EXCEPT ![p][b] = "none"], touchBuffer_(p, b),
           UNCHANGED <<sem, sem_id, writePos, readBy>>
    PROVE  LockInv'
  <1>. DEFINE f == [IdleFrame EXCEPT !.call = call, !.pc = "store_sem", !.buf = b]
  <1>1. f \in Frames /\ f.call = call /\ f.pc = "store_sem" /\ f.buf = b
    <2>1. call \in Calls /\ "store_sem" \in Points
      BY DEF Calls, Points
    <2>. QED  BY <2>1, ConstantFrames DEF Frames, IdleFrame
  <1>. HIDE DEF f
  <1>2. frame'[p] = f /\ \A q \in Managers : q # p => frame'[q] = frame[q]
    BY <1>1, GotoFrame DEF TypeInv, TypeOK, f
  <1>3. /\ \A q \in Managers : q # p => holds'[q] = holds[q]
        /\ holds'[p][b] = "none" /\ \A c \in Buffers : c # b => holds'[p][c] = holds[p][c]
    BY DEF TypeInv, TypeOK
  <1>4. /\ HoldInv(p) /\ EventInv(b) /\ sem_id[b] = p
        /\ sem[b] = StateOf(holds[p][b])
        /\ Destructive /\ sem[b] = "Reading" => p \in readBy[b]
    BY ActorFacts DEF LockInv, HoldInv, StateOf, TypeInv, TypeOK, Holdings
  <1>5. Local(p, {})
    BY <1>2, <1>3, TouchNotStale DEF Local
  <1>6. HoldInv(p)'
    BY <1>3, <1>4 DEF HoldInv
  <1>7. CallInv(p)' /\ OwnInv(p)' /\ ReadInv(p)'
    BY <1>1, <1>2, <1>3, <1>4
       DEF CallInv, OwnInv, ReadInv, ResetPoints, OwningPoints, At, StateOf
  <1>. QED  BY <1>5, <1>6, <1>7, LocalStep DEF ActorInv

LEMMA ReleaseLock ==
    ASSUME NothingTaken, TypeInv, LockInv, BufferInv', NEW p \in Managers,
           Release(p) \/ \E b \in Buffers : MarkBufferEmptyForced(p, b)
    PROVE  LockInv'
  <1>1. CASE Release(p)
    <2>1. PICK b \in Buffers : MarkBufferEmpty(p, b)
      BY <1>1 DEF Release
    <2>2. CASE checkBuffer_(p, b, "Reading")
      BY <2>1, <2>2, ReleaseStarts DEF MarkBufferEmpty
    <2>3. CASE ~checkBuffer_(p, b, "Reading")
      BY <2>1, <2>3, BeginDetachLock DEF MarkBufferEmpty
    <2>. QED  BY <2>2, <2>3
  <1>2. CASE \E b \in Buffers : MarkBufferEmptyForced(p, b)
    <2>1. PICK b \in Buffers : MarkBufferEmptyForced(p, b)
      BY <1>2
    <2>2. holds[p][b] # "none"
      BY <2>1 DEF MarkBufferEmptyForced, NothingTaken
    <2>. QED  BY <2>1, <2>2, ReleaseStarts DEF MarkBufferEmptyForced
  <1>. QED  BY <1>1, <1>2

LEMMA ReleaseStoreSemLock ==
    ASSUME TypeInv, LockInv, BufferInv', NEW p \in Managers, ReleaseStoreSem(p)
    PROVE  LockInv'
  <1>. DEFINE b == frame[p].buf
  <1>0. /\ frame[p] \in Frames /\ b \in Buffers /\ frame[p].pc = "store_sem"
        /\ sem_id[b] = p /\ holds[p][b] = "none" /\ CallInv(p) /\ OwnInv(p) /\ HoldInv(p)
        /\ EventInv(b) /\ \A c \in Buffers : ~stale[c]
        /\ frame[p].call # "MarkBufferEmptyForced" => sem[b] = "Reading"
    BY ActorFacts DEF ReleaseStoreSem, ActingPoints, OwnInv, OwningPoints, LockInv
  <1>1. /\ Goto(p, [frame[p] EXCEPT !.pc = "release"])
        /\ UNCHANGED <<sem_id, stale, holds, readBy>>
        /\ \/ writePos' = [writePos EXCEPT ![b] = 0] /\ sem' = [sem EXCEPT ![b] = "Empty"]
           \/ /\ ~Destructive /\ frame[p].call # "MarkBufferEmptyForced"
              /\ sem' = [sem EXCEPT ![b] = "Full"] /\ UNCHANGED writePos
    BY <1>0 DEF ReleaseStoreSem
  <1>2. /\ frame'[p].pc = "release" /\ frame'[p].buf = b /\ frame'[p].call = frame[p].call
        /\ frame'[p].want = frame[p].want /\ frame'[p].todo = frame[p].todo
        /\ \A q \in Managers : q # p => frame'[q] = frame[q]
    BY <1>1, SetFields, PointNames DEF Set, ActingPoints
  <1>3. /\ \A c \in Buffers : c # b => sem'[c] = sem[c] /\ writePos'[c] = writePos[c]
        /\ \/ sem'[b] = "Empty"
           \/ ~Destructive /\ sem'[b] = "Full" /\ sem[b] = "Reading" /\ writePos'[b] = writePos[b]
    BY <1>0, <1>1 DEF TypeInv, TypeOK
  <1>4. Local(p, {b})
    BY <1>0, <1>1, <1>2, <1>3 DEF Local
  <1>5. \A c \in {b} : EventInv(c)'
    BY <1>0, <1>1, <1>3 DEF EventInv
  <1>6. HoldInv(p)'
    BY <1>0, <1>1, <1>3, HoldKept
  <1>7. CallInv(p)' /\ OwnInv(p)' /\ ReadInv(p)'
    BY <1>0, <1>1, <1>2, <1>3 DEF CallInv, OwnInv, ReadInv, ResetPoints, OwningPoints, At
  <1>. QED  BY <1>0, <1>4, <1>5, <1>6, <1>7, LocalStep DEF ActorInv

LEMMA ReleaseStoreIdLock ==
    ASSUME TypeInv, LockInv, BufferInv', NEW p \in Managers, ReleaseStoreId(p)
    PROVE  LockInv'
  <1>. DEFINE b == frame[p].buf
  <1>0. /\ b \in Buffers /\ sem_id[b] = p /\ holds[p][b] = "none" /\ HoldInv(p)
        /\ EventInv(b) /\ sem[b] \in {"Empty", "Full"} /\ \A c \in Buffers : ~stale[c]
    BY ActorFacts DEF ReleaseStoreId, ActingPoints, OwnInv, OwningPoints, LockInv
  <1>1. /\ Goto(p, IdleFrame) /\ UNCHANGED <<sem, writePos, stale, holds, readBy>>
        /\ \A c \in Buffers : c # b => sem_id'[c] = sem_id[c]
    BY <1>0 DEF ReleaseStoreId, TypeInv, TypeOK
  <1>2. frame'[p] = IdleFrame /\ \A q \in Managers : q # p => frame'[q] = frame[q]
    BY <1>1, GotoFrame, ConstantFrames DEF TypeInv, TypeOK
  <1>3. Local(p, {b})
    BY <1>0, <1>1, <1>2 DEF Local
  <1>4. \A c \in {b} : EventInv(c)'
    BY <1>0, <1>1 DEF EventInv
  <1>5. HoldInv(p)'
    BY <1>0, <1>1, HoldKept
  <1>6. CallInv(p)' /\ OwnInv(p)' /\ ReadInv(p)'
    BY <1>2, IdleRests, RestingActor
  <1>. QED  BY <1>0, <1>3, <1>4, <1>5, <1>6, LocalStep DEF ActorInv

-----------------------------------------------------------------------------
(* Detach and crash *)

LEMMA DetachStoreSemLock ==
    ASSUME TypeInv, LockInv, BufferInv', NEW p \in Managers, DetachStoreSem(p)
    PROVE  LockInv'
  <1>0. /\ frame[p] \in Frames /\ frame[p].call = "Detach" /\ CallInv(p) /\ OwnInv(p)
        /\ \A c \in Buffers : ~stale[c] /\ EventInv(c)
    BY ActorFacts DEF DetachStoreSem, At, LockInv
  <1>1. PICK b \in frame[p].todo :
           /\ sem' = [sem EXCEPT ![b] = GivenBack(@)]
           /\ readBy' = [readBy EXCEPT ![b] = IF sem[b] = "Reading" THEN @ \ {p} ELSE @]
           /\ Goto(p, [frame[p] EXCEPT !.pc = "detach_id", !.buf = b])
    BY DEF DetachStoreSem
  <1>. DEFINE f == [frame[p] EXCEPT !.pc = "detach_id", !.buf = b]
  <1>2. b \in Buffers /\ sem_id[b] = p /\ \A c \in Buffers : holds[p][c] = "none"
    BY <1>0, <1>1 DEF OwnInv, Frames
  <1>3. f \in Frames /\ f.pc = "detach_id" /\ f.buf = b /\ f.call = "Detach" /\ f.todo = frame[p].todo
    BY <1>0, <1>2, PointNames DEF Frames, ActingPoints
  <1>. HIDE DEF f
  <1>4. frame'[p] = f /\ \A q \in Managers : q # p => frame'[q] = frame[q]
    BY <1>1, <1>3, GotoFrame DEF TypeInv, TypeOK, f
  <1>5. /\ sem'[b] = GivenBack(sem[b]) /\ \A c \in Buffers : c # b => sem'[c] = sem[c]
        /\ readBy'[b] = IF sem[b] = "Reading" THEN readBy[b] \ {p} ELSE readBy[b]
        /\ \A c \in Buffers : c # b => readBy'[c] = readBy[c]
        /\ UNCHANGED <<sem_id, writePos, stale, holds>>
    BY <1>1, <1>2 DEF TypeInv, TypeOK, DetachStoreSem
  <1>6. Local(p, {b})
    BY <1>0, <1>4, <1>5 DEF Local
  <1>7. \A c \in {b} : EventInv(c)'
    <2>1. CASE sem[b] = "Reading"
      BY <1>0, <1>2, <1>5, <2>1 DEF EventInv, GivenBack
    <2>2. CASE sem[b] # "Reading"
      BY <1>0, <1>2, <1>5, <2>2 DEF EventInv, GivenBack
    <2>. QED  BY <2>1, <2>2
  <1>8. HoldInv(p)'
    BY <1>2, <1>5 DEF HoldInv
  <1>9. sem'[b] \in {"Empty", "Full"}
    BY <1>2, <1>5 DEF GivenBack, TypeInv, TypeOK, BufferSemaphoreFlags
  <1>10. CallInv(p)' /\ OwnInv(p)' /\ ReadInv(p)'
    BY <1>0, <1>1, <1>2, <1>3, <1>4, <1>5, <1>9
       DEF CallInv, OwnInv, ReadInv, ResetPoints, OwningPoints, At
  <1>. QED  BY <1>2, <1>6, <1>7, <1>8, <1>10, LocalStep DEF ActorInv

LEMMA DetachStoreIdLock ==
    ASSUME TypeInv, LockInv, BufferInv', NEW p \in Managers, DetachStoreId(p)
    PROVE  LockInv'
  <1>. DEFINE b == frame[p].buf
              f == [frame[p] EXCEPT !.pc = "detach", !.todo = @ \ {b}]
  <1>0. /\ frame[p] \in Frames /\ frame[p].call = "Detach" /\ b \in frame[p].todo
        /\ b \in Buffers /\ sem_id[b] = p /\ sem[b] \in {"Empty", "Full"} /\ EventInv(b)
        /\ \A c \in frame[p].todo : sem_id[c] = p
        /\ \A c \in Buffers : ~stale[c] /\ holds[p][c] = "none"
    BY ActorFacts DEF DetachStoreId, At, LockInv, OwnInv, Frames
  <1>1. frame[p].todo \ {b} \in SUBSET Buffers /\ "detach" \in Points
    BY <1>0, PointNames DEF Frames
  <1>2. f \in Frames /\ f.pc = "detach" /\ f.call = "Detach" /\ f.todo = frame[p].todo \ {b}
    BY <1>0, <1>1 DEF Frames
  <1>. HIDE DEF f
  <1>3. /\ Goto(p, f) /\ UNCHANGED <<sem, writePos, stale, holds, readBy>>
        /\ sem_id'[b] = NoOne /\ \A c \in Buffers : c # b => sem_id'[c] = sem_id[c]
    BY <1>0 DEF DetachStoreId, TypeInv, TypeOK, f
  <1>4. frame'[p] = f /\ \A q \in Managers : q # p => frame'[q] = frame[q]
    BY <1>2, <1>3, GotoFrame DEF TypeInv, TypeOK
  <1>5. Local(p, {b})
    BY <1>0, <1>3, <1>4 DEF Local
  <1>6. \A c \in {b} : EventInv(c)'
    BY <1>0, <1>3 DEF EventInv
  <1>7. HoldInv(p)'
    BY <1>0, <1>3 DEF HoldInv
  <1>8. \A c \in f.todo : sem_id'[c] = p
    BY <1>0, <1>1, <1>2, <1>3
  <1>9. CallInv(p)' /\ OwnInv(p)' /\ ReadInv(p)'
    BY <1>0, <1>2, <1>3, <1>4, <1>8
       DEF CallInv, OwnInv, ReadInv, ResetPoints, OwningPoints, At
  <1>. QED  BY <1>0, <1>5, <1>6, <1>7, <1>9, LocalStep DEF ActorInv

LEMMA GoneLock ==
    ASSUME TypeInv, LockInv, BufferInv', NEW p \in Managers, DetachEnd(p) \/ Crash(p)
    PROVE  LockInv'
  <1>1. /\ Goto(p, Gone) /\ UNCHANGED <<sem, sem_id, writePos, stale, readBy>>
        /\ \A c \in Buffers : holds'[p][c] = "none"
        /\ \A q \in Managers : q # p => holds'[q] = holds[q]
    BY ActorFacts DEF DetachEnd, Crash, At, OwnInv, shmBuffers, TypeInv, TypeOK
  <1>2. frame'[p] = Gone /\ \A q \in Managers : q # p => frame'[q] = frame[q]
    BY <1>1, GotoFrame, ConstantFrames DEF TypeInv, TypeOK
  <1>3. Local(p, {})
    BY <1>1, <1>2, ActorFacts DEF Local
  <1>4. CallInv(p)' /\ OwnInv(p)' /\ ReadInv(p)'
    BY <1>1, <1>2 DEF Gone, IdleFrame, CallInv, OwnInv, ReadInv, ResetPoints, OwningPoints, At
  <1>5. HoldInv(p)'
    BY <1>1 DEF HoldInv
  <1>. QED  BY <1>3, <1>4, <1>5, LocalStep DEF ActorInv

-----------------------------------------------------------------------------
(* The calls of a client that start with a scan *)

LEMMA StartLock ==
    ASSUME TypeInv, LockInv, BufferInv', NEW p \in Managers,
           \/ GetBufferForWriting(p) \/ GetBufferForReading(p)
           \/ \E b \in Buffers : Poll(p, b)
    PROVE  LockInv'
  <1>0. /\ "scan" \in Points /\ {"Empty", "Full"} \subseteq BufferSemaphoreFlags
        /\ {"GetBufferForWriting", "GetBufferForReading", "ResetBuffer"} \subseteq Calls
        /\ reader_pos \in Buffers /\ writer_pos \in Buffers
    BY DEF Points, BufferSemaphoreFlags, Calls, TypeInv, TypeOK
  <1>1. UNCHANGED <<sem, sem_id, writePos, stale, holds, readBy>>
    BY DEF GetBufferForWriting, GetBufferForReading, Poll, shmBuffers
  <1>2. ASSUME NEW f \in Frames, Goto(p, f), Rest(f) PROVE LockInv'
    BY <1>1, <1>2, ActorFacts, RestStep
  <1>3. CASE GetBufferForWriting(p)
    <2>. DEFINE f == [IdleFrame EXCEPT !.call = "GetBufferForWriting", !.pc = "scan",
                                       !.pos = writer_pos, !.want = "Empty"]
    <2>1. f \in Frames /\ Rest(f)
      BY <1>0, ConstantFrames DEF Frames, IdleFrame, Rest
    <2>. QED  BY <1>2, <1>3, <2>1 DEF GetBufferForWriting
  <1>4. CASE GetBufferForReading(p)
    <2>. DEFINE f == [IdleFrame EXCEPT !.call = "GetBufferForReading", !.pc = "scan",
                                       !.pos = reader_pos, !.want = "Full"]
    <2>1. f \in Frames /\ Rest(f)
      BY <1>0, ConstantFrames DEF Frames, IdleFrame, Rest
    <2>. QED  BY <1>2, <1>4, <2>1 DEF GetBufferForReading
  <1>5. CASE \E b \in Buffers : Poll(p, b)
    <2>1. PICK b \in Buffers : Poll(p, b)
      BY <1>5
    <2>. DEFINE f == [IdleFrame EXCEPT !.call = "ResetBuffer", !.pc = "scan", !.pos = b]
    <2>2. f \in Frames /\ Rest(f)
      BY <1>0, ConstantFrames DEF Frames, IdleFrame, Rest
    <2>. QED  BY <1>2, <2>1, <2>2 DEF Poll
  <1>. QED  BY <1>3, <1>4, <1>5

-----------------------------------------------------------------------------
(* LockInv is an invariant *)

LEMMA InitLockInv == Init => LockInv
  <1>. SUFFICES ASSUME Init PROVE LockInv
    OBVIOUS
  <1>1. BufferInv
    BY InitTypeInv DEF TypeInv
  <1>2. ASSUME NEW b \in Buffers PROVE ~stale[b] /\ EventInv(b)
    BY <1>2 DEF Init, EventInv
  <1>3. ASSUME NEW p \in Managers PROVE CallInv(p) /\ OwnInv(p) /\ HoldInv(p) /\ ReadInv(p)
    BY <1>3 DEF Init, IdleFrame, CallInv, OwnInv, HoldInv, ReadInv, ResetPoints, OwningPoints, At
  <1>. QED  BY <1>1, <1>2, <1>3 DEF LockInv

LEMMA NextLockInv == NothingTaken /\ TypeInv /\ LockInv /\ [Next]_vars => LockInv'
  <1>. SUFFICES ASSUME NothingTaken, TypeInv, LockInv, [Next]_vars PROVE LockInv'
    OBVIOUS
  <1>0. BufferInv'
    BY NextTypeInv DEF TypeInv
  <1>1. ASSUME NEW p \in Managers, Step(p) PROVE LockInv'
    BY <1>0, <1>1, NothingReset, ScanLock, CasIdLock, CasSemLock, CheckWritingLock,
       StoreSequenceIdLock, CheckReadingLock, CopyEndLock, ReleaseStoreSemLock,
       ReleaseStoreIdLock, DetachStoreSemLock, DetachStoreIdLock, GoneLock DEF Step
  <1>2. ASSUME NEW p \in Managers, Client(p) PROVE LockInv'
    BY <1>0, <1>2, StartLock, CopyLock, PublishLock, ReleaseLock DEF Client
  <1>3. ASSUME NEW p \in Managers, Detach(p) PROVE LockInv'
    BY <1>0, <1>3, BeginDetachLock DEF Detach, shmBuffers
  <1>4. ASSUME NEW p \in Managers, Crash(p) PROVE LockInv'
    BY <1>0, <1>4, GoneLock
  <1>5. ASSUME NEW b \in Buffers, Expire(b) PROVE LockInv'
    BY <1>5 DEF Expire, NothingTaken
  <1>6. CASE UNCHANGED vars
    BY <1>0, <1>6 DEF vars, LockInv, CallInv, OwnInv, HoldInv, ReadInv, EventInv, Target, At
  <1>. QED  BY <1>1, <1>2, <1>3, <1>4, <1>5, <1>6 DEF Next

\* The ownership discipline of the dual semaphore is an invariant.
THEOREM LockInvariant == ASSUME NothingTaken PROVE Spec => [](TypeInv /\ LockInv)
  <1>1. TypeInv /\ LockInv /\ [Next]_vars => (TypeInv /\ LockInv)'
    BY NextTypeInv, NextLockInv
  <1>. QED  BY <1>1, InitTypeInv, InitLockInv, PTL DEF Spec

\* GetBufferForWriting and GetBufferForReading give a buffer to one manager at
\* a time, and no check of a client that keeps to the protocol fails.
THEOREM HolderOwnsAlways == ASSUME NothingTaken PROVE Spec => []HolderOwns
  <1>1. TypeInv /\ LockInv => HolderOwns
    BY DEF LockInv, HoldInv, HolderOwns
  <1>. QED  BY <1>1, LockInvariant, PTL

\* A reader is never offered a buffer that MarkBufferFull has not published
\* with its data, wherever writers and readers crash or detach.
THEOREM PublishedHasDataAlways == ASSUME NothingTaken PROVE Spec => []PublishedHasData
  <1>1. TypeInv /\ LockInv => PublishedHasData
    BY DEF LockInv, EventInv, PublishedHasData
  <1>. QED  BY <1>1, LockInvariant, PTL

-----------------------------------------------------------------------------
(* Every event is delivered once, and none is lost *)

\* No two readers are given the same event, however their scans interleave;
\* only what a reader's Detach put back is given out again.
THEOREM DeliveredOnceAlways == ASSUME NothingTaken, Destructive PROVE Spec => DeliveredOnce
  <1>1. TypeInv /\ LockInv /\ [Next]_vars
           => [\A p \in Managers, b \in Buffers : Acquires(p, b) => readBy[b] = {}]_vars
    <2>. SUFFICES ASSUME TypeInv, LockInv, [Next]_vars,
                         NEW p \in Managers, NEW b \in Buffers, Acquires(p, b)
                  PROVE  readBy[b] = {}
      OBVIOUS
    <2>1. CheckReading(p) /\ b = frame[p].buf
      BY AcquiresByCheckReading
    <2>. QED  BY <2>1 DEF CheckReading, LockInv, ReadInv
  <1>. QED  BY <1>1, LockInvariant, PTL DEF Spec, DeliveredOnce

\* A buffer with a published event is reused only after a reader was given it.
THEOREM NoEventLostAlways == ASSUME NothingTaken, Destructive PROVE Spec => NoEventLost
  <1>1. TypeInv /\ LockInv /\ [Next]_vars
           => [\A b \in Buffers :
                 sem[b] \in {"Full", "Reading"} /\ sem'[b] \in {"Empty", "Writing"}
                     => readBy'[b] # {}]_vars
    <2>. SUFFICES ASSUME TypeInv, LockInv, [Next]_vars, NEW b \in Buffers,
                         sem[b] \in {"Full", "Reading"}, sem'[b] \in {"Empty", "Writing"}
                  PROVE  readBy'[b] # {}
      OBVIOUS
    <2>1. sem' # sem
      OBVIOUS
    <2>2. ASSUME NEW p \in Managers, CasSem(p) PROVE FALSE
      <3>1. frame[p].buf \in Buffers /\ CallInv(p) /\ frame[p].pc = "cas_sem"
        BY <2>2, ActorFacts DEF CasSem, ActingPoints
      <3>2. sem' = [sem EXCEPT ![frame[p].buf] = Target(p)] /\ SemUnchanged(p)
        BY <2>1, <2>2 DEF CasSem
      <3>3. b = frame[p].buf /\ sem'[b] = Target(p)
        BY <3>1, <3>2 DEF TypeInv, TypeOK
      <3>. QED  BY <3>1, <3>2, <3>3 DEF CallInv, Target, SemUnchanged
    <2>3. ASSUME NEW p \in Managers, ReleaseStoreSem(p) PROVE readBy'[b] # {}
      <3>1. /\ frame[p].buf \in Buffers /\ frame[p].pc = "store_sem"
            /\ OwnInv(p) /\ ReadInv(p)
        BY <2>3, ActorFacts DEF ReleaseStoreSem, ActingPoints
      <3>2. b = frame[p].buf /\ readBy' = readBy
        BY <2>3, <3>1 DEF ReleaseStoreSem, TypeInv, TypeOK
      <3>3. sem[b] = "Reading"
        BY <3>1, <3>2 DEF OwnInv
      <3>. QED  BY <3>1, <3>2, <3>3 DEF ReadInv
    <2>4. ASSUME NEW p \in Managers, DetachStoreSem(p) PROVE FALSE
      <3>1. PICK c \in frame[p].todo : sem' = [sem EXCEPT ![c] = GivenBack(@)]
        BY <2>4 DEF DetachStoreSem
      <3>. QED  BY <3>1 DEF GivenBack, TypeInv, TypeOK
    <2>5. ASSUME NEW p \in Managers, Step(p) PROVE readBy'[b] # {}
      BY <2>1, <2>2, <2>3, <2>4, <2>5, NothingReset DEF Step, PollEnd, LoadSemForWriting,
         LoadIdForWriting, CheckWriting, StoreSequenceId, CasId, ScanForReading,
         ReloadForReading, CheckReading, WriteEnd, ReadEnd, ReleaseStoreId, DetachStoreId,
         DetachEnd, shmBuffers
    <2>6. ASSUME NEW p \in Managers, Client(p) PROVE FALSE
      <3>1. PICK c \in Buffers, d \in Destinations : MarkBufferFull(p, c, d)
        BY <2>1, <2>6 DEF Client, GetBufferForWriting, GetBufferForReading, Poll, Copy, Write,
           Read, Publish, Release, MarkBufferEmpty, MarkBufferEmptyForced, shmBuffers
      <3>. QED  BY <2>1, <3>1 DEF MarkBufferFull, TypeInv, TypeOK
    <2>7. ASSUME NEW p \in Managers, Detach(p) \/ Crash(p) PROVE FALSE
      BY <2>1, <2>7 DEF Detach, Crash, shmBuffers
    <2>8. ASSUME NEW c \in Buffers, Expire(c) PROVE FALSE
      BY <2>1, <2>8 DEF Expire
    <2>. QED  BY <2>1, <2>5, <2>6, <2>7, <2>8 DEF Next, vars
  <1>. QED  BY <1>1, LockInvariant, PTL DEF Spec, NoEventLost

-----------------------------------------------------------------------------
(* The refinement: the four stores that move a buffer (CasSem,             *)
(* MarkBufferFull, ReleaseStoreSem, DetachStoreSem) are the steps of the   *)
(* pool; LockInv says that sem_id names the manager that makes them, and   *)
(* that every other step leaves the state and the holder alone.            *)

\* One buffer moves, the others keep their state and their owner.
LEMMA Moves ==
    ASSUME TypeInv, NEW b \in Buffers, NEW s \in BufferSemaphoreFlags, NEW h,
           sem' = [sem EXCEPT ![b] = s],
           UNCHANGED sem_id,
           h = IF s \in {"Writing", "Reading"} THEN sem_id[b] ELSE NoOne
    PROVE  Pool!Becomes(b, s, h)
  <1>1. sem' \in [Buffers -> BufferSemaphoreFlags]
        /\ sem'[b] = s /\ \A c \in Buffers : c # b => sem'[c] = sem[c]
    BY DEF TypeInv, TypeOK
  <1>2. holder' = [holder EXCEPT ![b] = h]
    BY <1>1 DEF holder
  <1>. QED  BY <1>2 DEF Pool!Becomes

\* Nothing moves: the state stays, and so does every owner of a buffer in use.
LEMMA Stutters ==
    ASSUME UNCHANGED sem,
           \A b \in Buffers : sem[b] \in {"Writing", "Reading"} => sem_id'[b] = sem_id[b]
    PROVE  UNCHANGED Pool!vars
  BY DEF holder, Pool!vars

\* sem_id changes hands only while its buffer is Empty or Full.
LEMMA OwnerChanges ==
    ASSUME TypeInv, LockInv, NEW p \in Managers,
           CasId(p) \/ ReleaseStoreId(p) \/ DetachStoreId(p)
    PROVE  UNCHANGED Pool!vars
  <1>. DEFINE b == frame[p].buf
  <1>0. b \in Buffers /\ OwnInv(p) /\ EventInv(b)
    BY ActorFacts DEF CasId, ReleaseStoreId, DetachStoreId, At, ActingPoints, LockInv
  <1>1. UNCHANGED sem /\ \A c \in Buffers : c # b => sem_id'[c] = sem_id[c]
    BY <1>0 DEF CasId, ReleaseStoreId, DetachStoreId, TypeInv, TypeOK
  <1>2. sem[b] \in {"Writing", "Reading"} => sem_id'[b] = sem_id[b]
    <2>1. CASE CasId(p)
      BY <1>0, <2>1 DEF CasId, IdUnchanged, OwnInv, EventInv, TypeInv, TypeOK
    <2>2. CASE ReleaseStoreId(p) \/ DetachStoreId(p)
      BY <1>0, <2>2 DEF ReleaseStoreId, DetachStoreId, OwnInv, At
    <2>. QED  BY <2>1, <2>2
  <1>. QED  BY <1>1, <1>2, Stutters

LEMMA TakesBuffer ==
    ASSUME TypeInv, LockInv, NEW p \in Managers, CasSem(p)
    PROVE  [Pool!Next]_(Pool!vars)
  <1>. DEFINE b == frame[p].buf
  <1>0. b \in Buffers /\ CallInv(p) /\ sem_id[b] = p /\ frame[p].pc = "cas_sem"
    BY ActorFacts DEF CasSem, ActingPoints, OwnInv, OwningPoints
  <1>1. CASE SemUnchanged(p)
    <2>1. sem' = [sem EXCEPT ![b] = Target(p)] /\ UNCHANGED sem_id
      BY <1>1 DEF CasSem
    <2>2. /\ Target(p) \in {"Writing", "Reading"}
          /\ Target(p) = "Writing" => sem[b] = "Empty"
          /\ Target(p) = "Reading" => sem[b] = "Full"
      BY <1>0, <1>1 DEF CallInv, Target, SemUnchanged
    <2>3. Pool!Becomes(b, Target(p), p)
      BY <1>0, <2>1, <2>2, Moves DEF BufferSemaphoreFlags
    <2>4. Pool!Fill(p, b) \/ Pool!Take(p, b)
      BY <2>2, <2>3 DEF Pool!Fill, Pool!Take
    <2>. QED  BY <1>0, <2>4 DEF Pool!Next
  <1>2. CASE ~SemUnchanged(p)
    BY <1>2, Stutters DEF CasSem
  <1>. QED  BY <1>1, <1>2

LEMMA PublishesBuffer ==
    ASSUME TypeInv, LockInv, NEW p \in Managers, Publish(p)
    PROVE  Pool!Next
  <1>1. PICK b \in Buffers, d \in Destinations : MarkBufferFull(p, b, d)
    BY DEF Publish
  <1>2. sem_id[b] = p /\ sem[b] = "Writing"
    BY <1>1, ActorFacts DEF MarkBufferFull, HoldInv, StateOf
  <1>3. sem' = [sem EXCEPT ![b] = "Full"] /\ UNCHANGED sem_id
    BY <1>1, <1>2 DEF MarkBufferFull
  <1>4. Pool!Becomes(b, "Full", NoOne)
    BY <1>3, Moves DEF BufferSemaphoreFlags
  <1>5. Pool!Publish(p, b)
    BY <1>2, <1>4 DEF Pool!Publish, holder
  <1>. QED  BY <1>5 DEF Pool!Next

LEMMA ReleasesBuffer ==
    ASSUME NothingTaken, TypeInv, LockInv, NEW p \in Managers, ReleaseStoreSem(p)
    PROVE  Pool!Next
  <1>. DEFINE b == frame[p].buf
  <1>0. /\ b \in Buffers /\ sem_id[b] = p /\ frame[p].pc = "store_sem" /\ UNCHANGED sem_id
        /\ IF frame[p].call = "MarkBufferEmptyForced"
           THEN sem[b] \in {"Writing", "Reading"} ELSE sem[b] = "Reading"
    BY ActorFacts DEF ReleaseStoreSem, ActingPoints, OwnInv, OwningPoints
  <1>1. holder[b] = p
    BY <1>0 DEF holder
  <1>2. CASE frame[p].call = "MarkBufferEmptyForced"
    <2>1. Pool!Becomes(b, "Empty", NoOne)
      BY <1>0, <1>2, Moves DEF ReleaseStoreSem, BufferSemaphoreFlags
    <2>2. CASE sem[b] = "Writing"
      BY <1>0, <1>1, <2>1, <2>2 DEF Pool!Abandon, Pool!Next
    <2>3. CASE sem[b] = "Reading"
      <3>1. p \in Forcers
        BY <1>2, ActorFacts DEF CallInv
      <3>. QED  BY <1>0, <1>1, <2>1, <3>1 DEF Pool!Discard, Pool!Next
    <2>. QED  BY <1>0, <1>2, <2>2, <2>3
  <1>3. CASE frame[p].call # "MarkBufferEmptyForced"
    <2>. DEFINE s == IF Destructive THEN "Empty" ELSE "Full"
    <2>1. sem' = [sem EXCEPT ![b] = s]
      BY <1>0, <1>3 DEF ReleaseStoreSem
    <2>2. Pool!Becomes(b, s, NoOne)
      BY <1>0, <2>1, Moves DEF BufferSemaphoreFlags
    <2>. QED  BY <1>0, <1>1, <1>3, <2>2 DEF Pool!Finish, Pool!Next
  <1>. QED  BY <1>2, <1>3

LEMMA DetachMovesBuffer ==
    ASSUME TypeInv, LockInv, NEW p \in Managers, DetachStoreSem(p)
    PROVE  [Pool!Next]_(Pool!vars)
  <1>0. frame[p] \in Frames /\ OwnInv(p) /\ frame[p].call = "Detach"
    BY ActorFacts DEF DetachStoreSem, At
  <1>1. PICK b \in frame[p].todo : sem' = [sem EXCEPT ![b] = GivenBack(@)]
    BY DEF DetachStoreSem
  <1>2. b \in Buffers /\ sem_id[b] = p /\ UNCHANGED sem_id /\ sem[b] \in BufferSemaphoreFlags
    BY <1>0, <1>1 DEF OwnInv, Frames, DetachStoreSem, TypeInv, TypeOK
  <1>3. CASE sem[b] \in {"Writing", "Reading"}
    <2>. DEFINE s == IF sem[b] = "Writing" THEN "Empty" ELSE "Full"
    <2>1. sem' = [sem EXCEPT ![b] = s]
      BY <1>1, <1>3 DEF GivenBack
    <2>2. Pool!Becomes(b, s, NoOne)
      BY <1>2, <2>1, Moves DEF BufferSemaphoreFlags
    <2>3. holder[b] = p
      BY <1>2, <1>3 DEF holder
    <2>. QED  BY <1>2, <1>3, <2>2, <2>3 DEF Pool!Abandon, Pool!Next
  <1>4. CASE sem[b] \notin {"Writing", "Reading"}
    <2>1. UNCHANGED sem
      BY <1>1, <1>2, <1>4 DEF GivenBack, TypeInv, TypeOK
    <2>. QED  BY <1>2, <2>1, Stutters
  <1>. QED  BY <1>3, <1>4

LEMMA NextRefines ==
    NothingTaken /\ TypeInv /\ LockInv /\ [Next]_vars => [Pool!Next]_(Pool!vars)
  <1>. SUFFICES ASSUME NothingTaken, TypeInv, LockInv, [Next]_vars
                PROVE  [Pool!Next]_(Pool!vars)
    OBVIOUS
  <1>1. ASSUME NEW p \in Managers, Step(p) PROVE [Pool!Next]_(Pool!vars)
    <2>1. CASE CasSem(p) \/ ReleaseStoreSem(p) \/ DetachStoreSem(p)
      BY <2>1, TakesBuffer, ReleasesBuffer, DetachMovesBuffer
    <2>2. CASE CasId(p) \/ ReleaseStoreId(p) \/ DetachStoreId(p)
      BY <2>2, OwnerChanges
    <2>3. CASE UNCHANGED <<sem, sem_id>>
      BY <2>3, Stutters
    <2>. QED
      BY <1>1, <2>1, <2>2, <2>3, NothingReset
      DEF Step, PollEnd, LoadSemForWriting, LoadIdForWriting, CheckWriting, StoreSequenceId,
          ScanForReading, ReloadForReading, CheckReading, WriteEnd, ReadEnd, DetachEnd, shmBuffers
  <1>2. ASSUME NEW p \in Managers, Client(p) PROVE [Pool!Next]_(Pool!vars)
    <2>1. CASE Publish(p)
      BY <2>1, PublishesBuffer
    <2>2. CASE UNCHANGED <<sem, sem_id>>
      BY <2>2, Stutters
    <2>. QED
      BY <1>2, <2>1, <2>2 DEF Client, GetBufferForWriting, GetBufferForReading, Poll, Copy,
         Write, Read, Release, MarkBufferEmpty, MarkBufferEmptyForced, shmBuffers
  <1>3. ASSUME NEW p \in Managers, Detach(p) \/ Crash(p) PROVE [Pool!Next]_(Pool!vars)
    <2>1. UNCHANGED <<sem, sem_id>>
      BY <1>3 DEF Detach, Crash, shmBuffers
    <2>. QED  BY <2>1, Stutters
  <1>4. ASSUME NEW b \in Buffers, Expire(b) PROVE [Pool!Next]_(Pool!vars)
    <2>1. UNCHANGED <<sem, sem_id>>
      BY <1>4 DEF Expire
    <2>. QED  BY <2>1, Stutters
  <1>5. CASE UNCHANGED vars
    BY <1>5, Stutters DEF vars
  <1>. QED  BY <1>1, <1>2, <1>3, <1>4, <1>5 DEF Next

\* The lock-free protocol of GetBufferForWriting, GetBufferForReading,
\* MarkBufferFull, MarkBufferEmpty and Detach is as good as atomic operations.
THEOREM ImplementsBufferPool == ASSUME NothingTaken PROVE Spec => PoolSpec
  <1>1. Init => Pool!Init
    BY DEF Init, Pool!Init, holder
  <1>2. TypeInv /\ LockInv /\ [Next]_vars => [Pool!Next]_(Pool!vars)
    BY NextRefines
  <1>. QED  BY <1>1, <1>2, LockInvariant, PTL DEF Spec, PoolSpec, Pool!Spec
=============================================================================
