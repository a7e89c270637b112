------------------------- MODULE BufferPositionsProofs -------------------------
(***************************************************************************)
(* Proofs about BufferPositions: the properties of its run hold for every   *)
(* set of managers, every size of the buffer and every portions.            *)
(***************************************************************************)
EXTENDS BufferPositions, TLAPS

\* What NothingLeftOver needs: the bytes in front of writePos are by the one that
\* writes, or by the last one that did.
OneAuthor ==
    /\ sem = "Writing" => \A i \in Written : author[i] = sem_id
    /\ \A i, j \in Written : author[i] = author[j]

IInv == TypeOK /\ WriteInside /\ OneAuthor

LEMMA InitIInv == Init => IInv
<1> SUFFICES ASSUME Init PROVE IInv
  OBVIOUS
<1>1. TypeOK
  BY ManagersAssumption, SizesAssumption DEF Init, TypeOK
<1>2. WriteInside /\ Written = {}
  BY SizesAssumption DEF Init, WriteInside, Written
<1> QED BY <1>1, <1>2 DEF IInv, OneAuthor

-----------------------------------------------------------------------------
\* Writing n bytes that fit keeps the three.
LEMMA ExtendKeeps ==
    ASSUME IInv, NEW m \in attached, NEW n \in Sizes,
           sem = "Writing", sem_id = m, Fits(writePos, n), Extend(m, n)
    PROVE  /\ writePos' \in Nat /\ WriteInside'
           /\ author' \in [Bytes -> Managers \cup {NoManager}]
           /\ \A i \in 0 .. writePos' - 1 : author'[i] = m
<1>1. n \in Nat /\ writePos \in Nat /\ BufferSize \in Nat /\ m \in Managers
  BY SizesAssumption DEF IInv, TypeOK
<1>2. writePos' \in Nat /\ WriteInside'
  BY <1>1 DEF Fits, Extend, WriteInside
<1>3. author' \in [Bytes -> Managers \cup {NoManager}]
  BY <1>1 DEF Extend, IInv, TypeOK
<1>4. ASSUME NEW i \in 0 .. writePos' - 1 PROVE author'[i] = m
  <2>1. i \in Bytes /\ i < writePos + n
    BY <1>1, <1>2 DEF WriteInside, Bytes, Extend
  <2>2. CASE writePos <= i
    BY <2>1, <2>2 DEF Extend
  <2>3. CASE ~(writePos <= i)
    <3>1. i \in Written
      BY <1>1, <2>3, <2>1 DEF Written, Bytes
    <3>2. author[i] = m
      BY <3>1 DEF IInv, OneAuthor
    <3> QED BY <3>2, <2>1, <2>3 DEF Extend
  <2> QED BY <2>2, <2>3
<1> QED BY <1>2, <1>3, <1>4

\* A step that neither writes nor makes a writer keeps the three if it keeps TypeOK.
LEMMA PositionKept ==
    ASSUME IInv, author' = author, writePos' \in {0, writePos},
           sem' = "Writing" => sem = "Writing" /\ sem_id' = sem_id
    PROVE  WriteInside' /\ OneAuthor'
<1>1. writePos \in Nat /\ writePos' \in Nat /\ writePos' <= writePos
  BY DEF IInv, TypeOK
<1>2. Written' \subseteq Written
  <2>1. ASSUME NEW a \in Nat, NEW b \in Nat, b <= a PROVE 0 .. b - 1 \subseteq 0 .. a - 1
    BY <2>1
  <2> QED BY <1>1, <2>1, Zenon DEF Written
<1>3. WriteInside'
  BY <1>1, SizesAssumption DEF WriteInside, IInv
<1>4. \A i, j \in Written' : author'[i] = author'[j]
  BY <1>2 DEF OneAuthor, IInv
<1>5. sem' = "Writing" => \A i \in Written' : author'[i] = sem_id'
  BY <1>2 DEF OneAuthor, IInv
<1>6. OneAuthor'
  BY <1>4, <1>5 DEF OneAuthor
<1> QED BY <1>3, <1>6

LEMMA StepIInv == IInv /\ [Next]_vars => IInv'
<1> SUFFICES ASSUME IInv, [Next]_vars PROVE IInv'
  OBVIOUS
<1> USE ManagersAssumption, SizesAssumption
<1>1. ASSUME NEW m \in Managers, Detach(m) PROVE IInv'
  <2>1. TypeOK'
    BY <1>1 DEF Detach, Leave, GivenBack, history, IInv, TypeOK
  <2> QED BY <1>1, <2>1, PositionKept DEF Detach, Leave, GivenBack, history, IInv
<1>2. ASSUME NEW m \in Managers, Attach(m) PROVE IInv'
  <2>1. TypeOK'
    BY <1>2 DEF Attach, history, IInv, TypeOK
  <2> QED BY <1>2, <2>1, PositionKept DEF Attach, history, IInv
<1>3. ASSUME NEW m \in Managers, GetBufferForWriting(m) PROVE IInv'
  <2>1. TypeOK'
    BY <1>3 DEF GetBufferForWriting, WriteStart, IInv, TypeOK
  <2>2. writePos' = 0 /\ Written' = {}
    BY <1>3 DEF GetBufferForWriting, WriteStart, Written
  <2> QED BY <2>1, <2>2 DEF IInv, WriteInside, OneAuthor
<1>4. ASSUME NEW m \in Managers, ResetWritePos(m) PROVE IInv'
  <2>1. TypeOK'
    BY <1>4 DEF ResetWritePos, history, IInv, TypeOK
  <2> QED BY <1>4, <2>1, PositionKept DEF ResetWritePos, history, IInv
<1>5. ASSUME NEW m \in Managers, NEW d \in attached \cup {NoManager}, MarkBufferFull(m, d)
      PROVE IInv'
  <2>1. TypeOK'
    BY <1>5 DEF MarkBufferFull, IInv, TypeOK
  <2> QED BY <1>5, <2>1, PositionKept DEF MarkBufferFull, IInv
<1>6. ASSUME NEW m \in Managers, GetBufferForReading(m) PROVE IInv'
  <2>1. TypeOK'
    BY <1>6 DEF GetBufferForReading, history, IInv, TypeOK
  <2> QED BY <1>6, <2>1, PositionKept DEF GetBufferForReading, history, IInv
<1>7. ASSUME NEW m \in Managers, ResetReadPos(m) PROVE IInv'
  <2>1. TypeOK'
    BY <1>7 DEF ResetReadPos, history, IInv, TypeOK
  <2> QED BY <1>7, <2>1, PositionKept DEF ResetReadPos, history, IInv
<1>8. ASSUME NEW toEmpty \in BOOLEAN, Release(toEmpty), readPos' \in {0, readPos} PROVE IInv'
  <2>1. TypeOK'
    BY <1>8 DEF Release, history, IInv, TypeOK
  <2> QED BY <1>8, <2>1, PositionKept DEF Release, history, IInv
<1>9. ASSUME NEW m \in Managers,
             MarkBufferEmpty(m) \/ MarkBufferEmptyForced(m) \/ ResetBuffer(m)
      PROVE IInv'
  BY <1>8, <1>9 DEF MarkBufferEmpty, MarkBufferEmptyForced, ResetBuffer
<1>10. ASSUME NEW m \in Managers, NEW n \in Sizes, Write(m, n) PROVE IInv'
  <2>1. m \in attached /\ sem = "Writing" /\ sem_id = m /\ sem' = sem /\ sem_id' = sem_id
    BY <1>10 DEF Write, Holds
  <2>2. /\ writePos' \in Nat /\ WriteInside'
        /\ author' \in [Bytes -> Managers \cup {NoManager}]
        /\ \A i \in 0 .. writePos' - 1 : author'[i] = m
    BY <1>10, <2>1, ExtendKeeps DEF Write
  <2>3. TypeOK'
    BY <1>10, <2>1, <2>2 DEF Write, IInv, TypeOK
  <2>4. OneAuthor'
    BY <2>1, <2>2 DEF OneAuthor, Written
  <2> QED BY <2>2, <2>3, <2>4 DEF IInv
<1>11. ASSUME NEW m \in Managers, NEW n \in Sizes, IncrementWritePos(m, n) PROVE IInv'
  <2>1. m \in attached /\ sem = "Writing" /\ sem_id = m
    BY <1>11 DEF IncrementWritePos, Holds
  <2>2. /\ writePos' \in Nat /\ WriteInside'
        /\ author' \in [Bytes -> Managers \cup {NoManager}]
        /\ \A i \in 0 .. writePos' - 1 : author'[i] = m
    BY <1>11, <2>1, ExtendKeeps DEF IncrementWritePos
  <2>3. TypeOK'
    BY <1>11, <2>1, <2>2 DEF IncrementWritePos, Leave, GivenBack, IInv, TypeOK
  <2>4. sem' = "Writing" => sem_id' = m
    BY <1>11, <2>1 DEF IncrementWritePos, Leave, GivenBack
  <2>5. OneAuthor'
    BY <2>2, <2>4 DEF OneAuthor, Written
  <2> QED BY <2>2, <2>3, <2>5 DEF IInv
<1>12. ASSUME NEW m \in Managers, NEW n \in Sizes, Read(m, n) \/ IncrementReadPos(m, n)
       PROVE IInv'
  <2>1. n \in Nat /\ readPos \in Nat /\ readPos + n \in Nat
    BY DEF IInv, TypeOK
  <2>2. TypeOK'
    BY <1>12, <2>1 DEF Read, IncrementReadPos, history, IInv, TypeOK
  <2> QED BY <1>12, <2>2, PositionKept DEF Read, IncrementReadPos, history, IInv
<1>13. CASE UNCHANGED vars
  <2>1. TypeOK'
    BY <1>13 DEF vars, history, IInv, TypeOK
  <2> QED BY <1>13, <2>1, PositionKept DEF vars, history, IInv
<1> QED
  BY <1>1, <1>2, <1>3, <1>4, <1>5, <1>6, <1>7, <1>9, <1>10, <1>11, <1>12, <1>13 DEF Next

\* The position of the writer never leaves the buffer and a published buffer is by
\* one writer, whoever gave up in the middle: SharedMemoryManager's Write,
\* IncrementWritePos, ResetWritePos and Detach in every order.
THEOREM PositionsSafe == Spec => [](TypeOK /\ WriteInside /\ NothingLeftOver)
<1>1. IInv => TypeOK /\ WriteInside /\ NothingLeftOver
  BY DEF IInv, OneAuthor, NothingLeftOver
<1> QED BY <1>1, InitIInv, StepIInv, PTL DEF Spec

-----------------------------------------------------------------------------
\* If only the owner empties by force (MarkBufferEmpty's force), no buffer is
\* published but by its writer's MarkBufferFull.
THEOREM OnlyFinishedHolds ==
    ASSUME Forcers \subseteq {Owner}
    PROVE  Spec => []OnlyFinished
<1>1. Init => OnlyFinished
  BY DEF Init, OnlyFinished, Published
<1>2. OnlyFinished /\ [Next]_vars => OnlyFinished'
  <2> SUFFICES ASSUME OnlyFinished, [Next]_vars, Published' PROVE finished'
    BY DEF OnlyFinished
  <2>1. CASE UNCHANGED vars
    BY <2>1 DEF vars, history, OnlyFinished, Published
  <2>2. ASSUME NEW m \in Managers, NEW n \in Sizes,
               Write(m, n) \/ IncrementWritePos(m, n) \/ Read(m, n) \/ IncrementReadPos(m, n)
        PROVE finished'
    BY <2>2 DEF Write, IncrementWritePos, Read, IncrementReadPos, Holds, Leave, GivenBack,
                history, OnlyFinished, Published
  <2>3. ASSUME NEW m \in Managers,
               Detach(m) \/ Attach(m) \/ GetBufferForReading(m) \/ ResetReadPos(m)
        PROVE finished'
    BY <2>3 DEF Detach, Attach, GetBufferForReading, ResetReadPos, Leave, GivenBack,
                history, OnlyFinished, Published
  <2>4. ASSUME NEW m \in Managers, GetBufferForWriting(m) \/ ResetWritePos(m) PROVE finished'
    BY <2>4 DEF GetBufferForWriting, ResetWritePos, Holds, OnlyFinished, Published
  <2>5. ASSUME NEW m \in Managers,
               MarkBufferEmpty(m) \/ MarkBufferEmptyForced(m) \/ ResetBuffer(m)
        PROVE finished'
    BY <2>5 DEF MarkBufferEmpty, MarkBufferEmptyForced, ResetBuffer, Release, Holds,
                history, OnlyFinished, Published
  <2>6. ASSUME NEW m \in Managers, NEW d \in attached \cup {NoManager}, MarkBufferFull(m, d)
        PROVE finished'
    BY <2>6 DEF MarkBufferFull
  <2> QED BY <2>1, <2>2, <2>3, <2>4, <2>5, <2>6 DEF Next
<1> QED BY <1>1, <1>2, PTL DEF Spec

\* What is published does not change under its readers: every call that moves the
\* writer's position or writes asks for the state Writing first.
THEOREM PublishedStaysHolds == Spec => PublishedStays
<1>1. [Next]_vars => [Published /\ Published' => writePos' = writePos /\ author' = author]_vars
  <2> SUFFICES ASSUME Next, Published, Published'
               PROVE  writePos' = writePos /\ author' = author
    OBVIOUS
  <2>1. ASSUME NEW m \in Managers, NEW n \in Sizes,
               Write(m, n) \/ IncrementWritePos(m, n) \/ Read(m, n) \/ IncrementReadPos(m, n)
        PROVE writePos' = writePos /\ author' = author
    BY <2>1 DEF Write, IncrementWritePos, Read, IncrementReadPos, Holds, history, Published
  <2>2. ASSUME NEW m \in Managers,
               Detach(m) \/ Attach(m) \/ GetBufferForReading(m) \/ ResetReadPos(m)
        PROVE writePos' = writePos /\ author' = author
    BY <2>2 DEF Detach, Attach, GetBufferForReading, ResetReadPos, history
  <2>3. ASSUME NEW m \in Managers, GetBufferForWriting(m) \/ ResetWritePos(m)
        PROVE writePos' = writePos /\ author' = author
    BY <2>3 DEF GetBufferForWriting, ResetWritePos, Holds, Published
  <2>4. ASSUME NEW m \in Managers,
               MarkBufferEmpty(m) \/ MarkBufferEmptyForced(m) \/ ResetBuffer(m)
        PROVE writePos' = writePos /\ author' = author
    BY <2>4 DEF MarkBufferEmpty, MarkBufferEmptyForced, ResetBuffer, Release, history, Published
  <2>5. ASSUME NEW m \in Managers, NEW d \in attached \cup {NoManager}, MarkBufferFull(m, d)
        PROVE writePos' = writePos /\ author' = author
    BY <2>5 DEF MarkBufferFull
  <2> QED BY <2>1, <2>2, <2>3, <2>4, <2>5 DEF Next
<1> QED BY <1>1, PTL DEF Spec, PublishedStays
=============================================================================
