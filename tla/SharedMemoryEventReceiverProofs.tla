---------------- MODULE SharedMemoryEventReceiverProofs ----------------
(***************************************************************************)
(* What a receiver hands to its client is one event, whole, and one Init   *)
(* event in its life, for every number of receivers, buffers, events and   *)
(* fragments, where no writer overwrites.  (A writer that does takes the   *)
(* buffer from under every step, and none of this holds.)                  *)
(***************************************************************************)
EXTENDS SharedMemoryEventReceiver, FiniteSetTheorems, TLAPS

\* The writers do not overwrite: TakeBuffer takes Empty buffers only.
NothingOverwritten == Overwritten = {}

-----------------------------------------------------------------------------
(* The inductive invariant *)

Event(p) == sequence_id[source(p)][buffer(p)]
Pos(p) == readPos[source(p)][buffer(p)]

\* The points at which a receiver has a buffer.
Delivering == {"true", "header", "fragments", "more", "read", "copy", "done"}
Typing == {"types", "more_types", "next_type", "decide"}
Holding == Delivering \cup Typing \cup {"release"}

\* A buffer is its receiver's from ReadyForRead to ReleaseBuffer: no check fails.
CallInv(p) ==
    /\ call[p] # "dead" /\ attached[p] = Segments
    /\ call[p] \in Holding =>
          source(p) \in Segments /\ buffer(p) \in Buffers[source(p)] /\ CheckBuffer(p)
    /\ call[p] \notin Holding => buffer(p) = NoBuffer
    /\ call[p] = "get" => source(p) \in Segments
    /\ call[p] \in Typing => source(p) = "broadcasts"

\* What a receiver has met of its event is the part in front of the read position.
ReadInv(p) ==
    /\ call[p] \in {"more_types", "next_type", "decide", "more", "read", "copy", "done"} =>
          Pos(p) \in 1 .. (NumFragments + 1)
    /\ call[p] \in {"next_type", "read", "copy"} => Pos(p) <= NumFragments
    /\ call[p] \in {"decide", "done"} => Pos(p) = NumFragments + 1
    /\ call[p] \in {"more_types", "next_type", "decide"} =>
          types[p] = IF Pos(p) > 1 THEN {Event(p)} ELSE {}
    /\ call[p] \in Delivering \ {"true", "header"} => header[p] = Event(p)
    /\ call[p] \in {"more", "read", "copy", "done"} =>
          output[p] = [i \in 1 .. (Pos(p) - 1) |-> header[p]]

NoInits(p) == \A i \in DOMAIN handed[p] : handed[p][i] \notin Inits

\* The broadcasts handed on are seen ones, in order, and the one in hand is newer;
\* an Init among them is the only one.
HandedInv(p) ==
    /\ \A i \in DOMAIN handed[p] : handed[p][i] <= last_seen_id_[p]
    /\ \A i, j \in DOMAIN handed[p] : i < j => handed[p][i] < handed[p][j]
    /\ \A i, j \in DOMAIN handed[p] : handed[p][i] \in Inits /\ handed[p][j] \in Inits => i = j
    /\ ~initialized_[p] => NoInits(p)
    /\ source(p) = "broadcasts" /\ call[p] \in Typing \cup Delivering =>
          /\ Event(p) = last_seen_id_[p]
          /\ \A i \in DOMAIN handed[p] : handed[p][i] < last_seen_id_[p]
    /\ source(p) = "broadcasts" /\ call[p] \in Delivering /\ Event(p) \in Inits =>
          initialized_[p] /\ NoInits(p)

\* A buffer is one receiver's or the writer's, and is filled by one event.
BufferInv(s, b) ==
    /\ sem[s][b] = "Reading" =>
          sem_id[s][b] \in Receivers /\ source(sem_id[s][b]) = s /\ buffer(sem_id[s][b]) = b
    /\ sem[s][b] \in {"Full", "Reading"} =>
          writePos[s][b] = NumFragments + 1 /\ \A i \in Parts : memory[s][b][i] = sequence_id[s][b]
    /\ sequence_id[s][b] <= events[s]

WriterInv(s) ==
    writing[s] # NoBuffer =>
        /\ sem[s][writing[s]] = "Writing"
        /\ sequence_id[s][writing[s]] = events[s] =>
              \A i \in 0 .. (writePos[s][writing[s]] - 1) : memory[s][writing[s]][i] = events[s]

ReceiverInv(p) == CallInv(p) /\ ReadInv(p) /\ HandedInv(p)

EventInv ==
    /\ \A p \in Receivers : ReceiverInv(p)
    /\ \A s \in Segments : WriterInv(s) /\ \A b \in Buffers[s] : BufferInv(s, b)

Inv == TypeOK /\ EventInv

-----------------------------------------------------------------------------
(* One value is stored in one buffer *)

LEMMA Put ==
    ASSUME NEW S, NEW x, PerBufferIn(x, S),
           NEW s \in Segments, NEW b \in Buffers[s], NEW v \in S,
           NEW y, y = [x EXCEPT ![s][b] = v]
    PROVE  /\ DOMAIN y = Segments
           /\ \A t \in Segments : y[t] \in [Buffers[t] -> S]
           /\ y[s][b] = v
           /\ \A t \in Segments : \A c \in Buffers[t] : t # s \/ c # b => y[t][c] = x[t][c]
  BY DEF PerBufferIn

LEMMA SeqGrows ==
    ASSUME NEW S, NEW h \in S, NEW n \in Nat
    PROVE  Append([i \in 1 .. n |-> h], h) = [i \in 1 .. (n + 1) |-> h]
  <1>. DEFINE f == [i \in 1 .. n |-> h]
  <1>1. f \in Seq({h}) /\ Len(f) = n
    OBVIOUS
  <1>. QED  BY <1>1

LEMMA InitInv == Init => Inv
  <1>. SUFFICES ASSUME Init PROVE Inv
    OBVIOUS
  <1>. USE DEF Init, PerBuffer
  <1>1. TypeOK
    <2>1. /\ PerBufferIn(sem, {"Empty", "Writing", "Full", "Reading"})
          /\ PerBufferIn(sem_id, Receivers \cup {Nobody, Writer})
          /\ PerBufferIn(sequence_id, Nat) /\ PerBufferIn(memory, [Parts -> Nat])
      BY DEF PerBufferIn
    <2>2. PerBufferIn(writePos, 0 .. (NumFragments + 1)) /\ PerBufferIn(readPos, 0 .. (NumFragments + 1))
      BY EventsAssumption DEF PerBufferIn
    <2>3. <<>> \in Seq(Nat)
      OBVIOUS
    <2>. QED  BY <2>1, <2>2, <2>3 DEF TypeOK, Points
  <1>2. ASSUME NEW p \in Receivers PROVE ReceiverInv(p)
    BY DEF ReceiverInv, CallInv, ReadInv, HandedInv, NoInits, Holding, Delivering, Typing, source, buffer
  <1>3. ASSUME NEW s \in Segments PROVE WriterInv(s) /\ \A b \in Buffers[s] : BufferInv(s, b)
    BY NamesAssumption DEF WriterInv, BufferInv
  <1>. QED  BY <1>1, <1>2, <1>3 DEF Inv, EventInv

-----------------------------------------------------------------------------
(* What a step leaves alone *)

Keeps(s, b) ==
    /\ sem'[s][b] = sem[s][b] /\ sem_id'[s][b] = sem_id[s][b]
    /\ sequence_id'[s][b] = sequence_id[s][b]
    /\ writePos'[s][b] = writePos[s][b] /\ readPos'[s][b] = readPos[s][b]
    /\ memory'[s][b] = memory[s][b]

\* Only buffer b of segment s changes.
Touches(s, b) == \A t \in Segments : \A c \in Buffers[t] : t # s \/ c # b => Keeps(t, c)

Rests(q) ==
    /\ current_read_buffer_'[q] = current_read_buffer_[q]
    /\ current_data_source_'[q] = current_data_source_[q]
    /\ initialized_'[q] = initialized_[q] /\ last_seen_id_'[q] = last_seen_id_[q]
    /\ attached'[q] = attached[q] /\ call'[q] = call[q] /\ types'[q] = types[q]
    /\ header'[q] = header[q] /\ output'[q] = output[q] /\ handed'[q] = handed[q]

LEMMA Holds ==
    ASSUME Inv, NEW p \in Receivers, call[p] \in Holding
    PROVE  /\ source(p) \in Segments /\ buffer(p) \in Buffers[source(p)] /\ CheckBuffer(p)
           /\ buffer(p) # NoBuffer
           /\ sem[source(p)][buffer(p)] = "Reading" /\ sem_id[source(p)][buffer(p)] = p
           /\ writePos[source(p)][buffer(p)] = NumFragments + 1
           /\ \A i \in Parts : memory[source(p)][buffer(p)][i] = Event(p)
           /\ Event(p) \in Nat /\ Event(p) <= events[source(p)] /\ Pos(p) \in 0 .. (NumFragments + 1)
  <1>1. source(p) \in Segments /\ buffer(p) \in Buffers[source(p)] /\ CheckBuffer(p)
    BY DEF Inv, EventInv, ReceiverInv, CallInv
  <1>2. BufferInv(source(p), buffer(p))
    BY <1>1 DEF Inv, EventInv
  <1>3. sequence_id[source(p)][buffer(p)] \in Nat /\ readPos[source(p)][buffer(p)] \in 0 .. (NumFragments + 1)
    BY <1>1 DEF Inv, TypeOK, PerBufferIn
  <1>. QED  BY <1>1, <1>2, <1>3, NamesAssumption DEF CheckBuffer, BufferInv, Event, Pos

LEMMA ReceiverKept ==
    ASSUME Inv, NEW q \in Receivers, Rests(q), call[q] \in Holding => Keeps(source(q), buffer(q))
    PROVE  ReceiverInv(q)'
  <1>0. ReceiverInv(q)
    BY DEF Inv, EventInv
  <1>1. CASE call[q] \in Holding
    <2>1. /\ sem'[source(q)][buffer(q)] = sem[source(q)][buffer(q)]
          /\ sem_id'[source(q)][buffer(q)] = sem_id[source(q)][buffer(q)]
          /\ Event(q)' = Event(q) /\ Pos(q)' = Pos(q) /\ source(q)' = source(q) /\ buffer(q)' = buffer(q)
      BY <1>1 DEF Keeps, Rests, Event, Pos, source, buffer
    <2>2. CallInv(q)'
      BY <1>0, <2>1 DEF ReceiverInv, CallInv, Rests, CheckBuffer
    <2>3. ReadInv(q)'
      BY <1>0, <2>1 DEF ReceiverInv, ReadInv, Rests
    <2>4. HandedInv(q)'
      BY <1>0, <2>1 DEF ReceiverInv, HandedInv, Rests, NoInits
    <2>. QED  BY <2>2, <2>3, <2>4 DEF ReceiverInv
  <1>2. CASE call[q] \notin Holding
    <2>2. CallInv(q)'
      BY <1>0, <1>2 DEF ReceiverInv, CallInv, Rests, source, buffer, Holding
    <2>3. ReadInv(q)'
      BY <1>0, <1>2 DEF ReceiverInv, ReadInv, Rests, Holding, Delivering, Typing
    <2>4. HandedInv(q)'
      BY <1>0, <1>2 DEF ReceiverInv, HandedInv, Rests, Holding, NoInits
    <2>. QED  BY <2>2, <2>3, <2>4 DEF ReceiverInv
  <1>. QED  BY <1>1, <1>2

LEMMA BufferKept ==
    ASSUME Inv, NEW s \in Segments, NEW b \in Buffers[s], Keeps(s, b),
           events[s] <= events'[s], events'[s] \in Nat,
           sem[s][b] = "Reading" =>
              /\ current_data_source_'[sem_id[s][b]] = current_data_source_[sem_id[s][b]]
              /\ current_read_buffer_'[sem_id[s][b]] = current_read_buffer_[sem_id[s][b]]
    PROVE  BufferInv(s, b)'
  <1>1. BufferInv(s, b) /\ sequence_id[s][b] \in Nat /\ events[s] \in Nat
    BY DEF Inv, EventInv, TypeOK, PerBufferIn
  <1>. QED  BY <1>1 DEF BufferInv, Keeps, source, buffer

-----------------------------------------------------------------------------
(* The writers *)

LEMMA WriterTouches ==
    ASSUME Inv, NEW s \in Segments, NEW b \in Buffers[s],
           sem[s][b] # "Reading", Touches(s, b), UNCHANGED receiverVars,
           \A t \in Segments \ {s} : events'[t] = events[t] /\ writing'[t] = writing[t],
           events[s] <= events'[s],
           writing[s] \in {NoBuffer, b},
           TypeOK', WriterInv(s)', BufferInv(s, b)'
    PROVE  Inv'
  <1>0. TypeOK /\ EventInv
    BY DEF Inv
  <1>1. ASSUME NEW q \in Receivers PROVE ReceiverInv(q)'
    <2>1. Rests(q)
      BY DEF receiverVars, Rests
    <2>2. call[q] \in Holding => Keeps(source(q), buffer(q))
      BY Holds DEF Touches
    <2>. QED  BY <2>1, <2>2, ReceiverKept
  <1>2. ASSUME NEW t \in Segments, NEW c \in Buffers[t] PROVE BufferInv(t, c)'
    <2>1. CASE t # s \/ c # b
      <3>1. Keeps(t, c)
        BY <2>1 DEF Touches
      <3>2. events'[t] \in Nat /\ events[t] <= events'[t]
        <4>1. events[t] \in Nat /\ events'[t] \in Nat
          BY <1>0 DEF TypeOK
        <4>. QED  BY <4>1
      <3>. QED  BY <3>1, <3>2, BufferKept DEF receiverVars
    <2>. QED  BY <2>1
  <1>3. ASSUME NEW t \in Segments, t # s PROVE WriterInv(t)'
    <2>1. WriterInv(t) /\ writing'[t] = writing[t] /\ events'[t] = events[t]
      BY <1>0, <1>3 DEF EventInv
    <2>2. writing[t] # NoBuffer => Keeps(t, writing[t])
      BY <1>0, <1>3 DEF TypeOK, Touches
    <2>. QED  BY <2>1, <2>2 DEF WriterInv, Keeps
  <1>. QED  BY <1>1, <1>2, <1>3 DEF Inv, EventInv

LEMMA TakeBufferKeeps ==
    ASSUME NothingOverwritten, Inv, NEW s \in Segments, TakeBuffer(s)
    PROVE  Inv'
  <1>0. TypeOK /\ EventInv
    BY DEF Inv
  <1>1. PICK b \in Buffers[s] :
            /\ writing[s] = NoBuffer /\ sem[s][b] = "Empty"
            /\ sem' = [sem EXCEPT ![s][b] = "Writing"]
            /\ sem_id' = [sem_id EXCEPT ![s][b] = Writer]
            /\ writing' = [writing EXCEPT ![s] = b]
            /\ events' = [events EXCEPT ![s] = @ + 1]
    BY DEF TakeBuffer, Takeable, NothingOverwritten
  <1>2. UNCHANGED <<sequence_id, writePos, readPos, memory, endOfData, receiverVars>>
    BY DEF TakeBuffer
  <1>3. PerBufferIn(sem, {"Empty", "Writing", "Full", "Reading"}) /\ PerBufferIn(sem_id, Receivers \cup {Nobody, Writer})
    BY <1>0 DEF TypeOK
  <1>4. /\ PerBufferIn(sem', {"Empty", "Writing", "Full", "Reading"}) /\ sem'[s][b] = "Writing"
        /\ \A t \in Segments : \A c \in Buffers[t] : t # s \/ c # b => sem'[t][c] = sem[t][c]
    BY <1>1, <1>3, Put DEF PerBufferIn
  <1>5. /\ PerBufferIn(sem_id', Receivers \cup {Nobody, Writer})
        /\ \A t \in Segments : \A c \in Buffers[t] : t # s \/ c # b => sem_id'[t][c] = sem_id[t][c]
    BY <1>1, <1>3, Put DEF PerBufferIn
  <1>6. TypeOK'
    BY <1>0, <1>1, <1>2, <1>4, <1>5 DEF TypeOK, receiverVars, PerBufferIn
  <1>7. Touches(s, b)
    BY <1>2, <1>4, <1>5 DEF Touches, Keeps
  <1>8. events[s] \in Nat /\ events'[s] = events[s] + 1 /\ sequence_id[s][b] \in Nat /\ sequence_id[s][b] <= events[s]
    BY <1>0, <1>1 DEF TypeOK, PerBufferIn, EventInv, BufferInv
  <1>9. writing'[s] = b
    BY <1>0, <1>1 DEF TypeOK
  <1>10. WriterInv(s)' /\ BufferInv(s, b)'
    BY <1>2, <1>4, <1>8, <1>9 DEF WriterInv, BufferInv
  <1>11. \A t \in Segments \ {s} : events'[t] = events[t] /\ writing'[t] = writing[t]
    BY <1>0, <1>1 DEF TypeOK
  <1>. QED  BY <1>1, <1>2, <1>6, <1>7, <1>8, <1>10, <1>11, WriterTouches

LEMMA ClearBufferKeeps ==
    ASSUME Inv, NEW s \in Segments, ClearBuffer(s)
    PROVE  Inv'
  <1>. DEFINE b == writing[s]
  <1>0. TypeOK /\ EventInv
    BY DEF Inv
  <1>1. b \in Buffers[s] /\ sem[s][b] = "Writing"
    BY <1>0 DEF TypeOK, ClearBuffer, EventInv, WriterInv
  <1>2. /\ sequence_id' = [sequence_id EXCEPT ![s][b] = events[s]]
        /\ writePos' = [writePos EXCEPT ![s][b] = 0]
        /\ UNCHANGED <<sem, sem_id, readPos, memory, writing, events, endOfData, receiverVars>>
    BY DEF ClearBuffer
  <1>3. PerBufferIn(sequence_id, Nat) /\ PerBufferIn(writePos, 0 .. (NumFragments + 1))
        /\ events[s] \in Nat /\ 0 \in 0 .. (NumFragments + 1)
    BY <1>0, EventsAssumption DEF TypeOK
  <1>4. /\ PerBufferIn(sequence_id', Nat) /\ sequence_id'[s][b] = events[s]
        /\ \A t \in Segments : \A c \in Buffers[t] : t # s \/ c # b => sequence_id'[t][c] = sequence_id[t][c]
    BY <1>1, <1>2, <1>3, Put DEF PerBufferIn
  <1>5. /\ PerBufferIn(writePos', 0 .. (NumFragments + 1)) /\ writePos'[s][b] = 0
        /\ \A t \in Segments : \A c \in Buffers[t] : t # s \/ c # b => writePos'[t][c] = writePos[t][c]
    BY <1>1, <1>2, <1>3, Put DEF PerBufferIn
  <1>6. TypeOK'
    BY <1>0, <1>2, <1>4, <1>5 DEF TypeOK, receiverVars, PerBufferIn
  <1>7. Touches(s, b)
    BY <1>2, <1>4, <1>5 DEF Touches, Keeps
  <1>8. WriterInv(s)' /\ BufferInv(s, b)'
    BY <1>1, <1>2, <1>3, <1>4, <1>5 DEF WriterInv, BufferInv
  <1>. QED  BY <1>1, <1>2, <1>3, <1>6, <1>7, <1>8, WriterTouches

LEMMA WritePartKeeps ==
    ASSUME Inv, NEW s \in Segments, WritePart(s)
    PROVE  Inv'
  <1>. DEFINE b == writing[s]
              pos == writePos[s][b]
  <1>0. TypeOK /\ EventInv
    BY DEF Inv
  <1>1. b \in Buffers[s] /\ sem[s][b] = "Writing" /\ sequence_id[s][b] = events[s]
        /\ \A i \in 0 .. (pos - 1) : memory[s][b][i] = events[s]
    BY <1>0 DEF TypeOK, WritePart, EventInv, WriterInv
  <1>2. /\ memory' = [memory EXCEPT ![s][b] = [memory[s][b] EXCEPT ![pos] = events[s]]]
        /\ writePos' = [writePos EXCEPT ![s][b] = pos + 1]
        /\ UNCHANGED <<sem, sem_id, sequence_id, readPos, writing, events, endOfData, receiverVars>>
    BY DEF WritePart
  <1>3. PerBufferIn(memory, [Parts -> Nat]) /\ PerBufferIn(writePos, 0 .. (NumFragments + 1)) /\ events[s] \in Nat
    BY <1>0 DEF TypeOK
  <1>4. pos \in 0 .. (NumFragments + 1) /\ pos <= NumFragments /\ memory[s][b] \in [Parts -> Nat]
    BY <1>1, <1>3 DEF PerBufferIn, WritePart
  <1>. DEFINE written == [memory[s][b] EXCEPT ![pos] = events[s]]
  <1>41. pos \in 0 .. (NumFragments + 1) /\ pos <= NumFragments
    BY <1>4
  <1>5. pos \in Parts /\ pos + 1 \in 0 .. (NumFragments + 1)
    BY <1>41, EventsAssumption DEF Parts
  <1>51. written \in [Parts -> Nat] /\ \A i \in Parts : written[i] = IF i = pos THEN events[s] ELSE memory[s][b][i]
    BY <1>3, <1>4, <1>5
  <1>52. memory' = [memory EXCEPT ![s][b] = written]
    BY <1>2
  <1>. HIDE DEF written
  <1>6. /\ PerBufferIn(memory', [Parts -> Nat]) /\ memory'[s][b] = written
        /\ \A t \in Segments : \A c \in Buffers[t] : t # s \/ c # b => memory'[t][c] = memory[t][c]
    BY <1>1, <1>3, <1>51, <1>52, Put DEF PerBufferIn
  <1>7. /\ PerBufferIn(writePos', 0 .. (NumFragments + 1)) /\ writePos'[s][b] = pos + 1
        /\ \A t \in Segments : \A c \in Buffers[t] : t # s \/ c # b => writePos'[t][c] = writePos[t][c]
    BY <1>1, <1>2, <1>3, <1>5, Put DEF PerBufferIn
  <1>8. TypeOK'
    BY <1>0, <1>2, <1>6, <1>7 DEF TypeOK, receiverVars, PerBufferIn
  <1>9. Touches(s, b)
    BY <1>2, <1>6, <1>7 DEF Touches, Keeps
  <1>10. \A i \in 0 .. pos : memory'[s][b][i] = events[s]
    <2>1. \A i \in 0 .. pos : i \in Parts /\ (i # pos => i \in 0 .. (pos - 1))
      BY <1>41, EventsAssumption DEF Parts
    <2>. QED  BY <1>1, <1>51, <1>6, <2>1
  <1>11. WriterInv(s)' /\ BufferInv(s, b)'
    BY <1>1, <1>2, <1>3, <1>4, <1>7, <1>10 DEF WriterInv, BufferInv
  <1>. QED  BY <1>1, <1>2, <1>3, <1>8, <1>9, <1>11, WriterTouches

LEMMA MarkBufferFullKeeps ==
    ASSUME Inv, NEW s \in Segments, MarkBufferFull(s)
    PROVE  Inv'
  <1>0. TypeOK /\ EventInv
    BY DEF Inv
  <1>b. PICK b \in Buffers[s] : b = writing[s]
    BY <1>0 DEF TypeOK, MarkBufferFull
  <1>1. /\ sem[s][b] = "Writing" /\ sequence_id[s][b] = events[s]
        /\ \A i \in 0 .. (writePos[s][b] - 1) : memory[s][b][i] = events[s]
    BY <1>0, <1>b DEF MarkBufferFull, EventInv, WriterInv
  <1>2. /\ sem' = [sem EXCEPT ![s][b] = "Full"]
        /\ sem_id' = [sem_id EXCEPT ![s][b] = Nobody]
        /\ writing' = [writing EXCEPT ![s] = NoBuffer]
        /\ UNCHANGED <<sequence_id, writePos, readPos, memory, events, endOfData, receiverVars>>
    BY <1>b DEF MarkBufferFull
  <1>3. /\ PerBufferIn(sem, {"Empty", "Writing", "Full", "Reading"})
        /\ PerBufferIn(sem_id, Receivers \cup {Nobody, Writer})
        /\ writePos[s][b] \in 0 .. (NumFragments + 1) /\ events[s] \in Nat
    BY <1>0, <1>1 DEF TypeOK, PerBufferIn
  <1>4. /\ PerBufferIn(sem', {"Empty", "Writing", "Full", "Reading"}) /\ sem'[s][b] = "Full"
        /\ \A t \in Segments : \A c \in Buffers[t] : t # s \/ c # b => sem'[t][c] = sem[t][c]
    BY <1>1, <1>2, <1>3, Put DEF PerBufferIn
  <1>5. /\ PerBufferIn(sem_id', Receivers \cup {Nobody, Writer})
        /\ \A t \in Segments : \A c \in Buffers[t] : t # s \/ c # b => sem_id'[t][c] = sem_id[t][c]
    BY <1>1, <1>2, <1>3, Put DEF PerBufferIn
  <1>6. TypeOK'
    BY <1>0, <1>2, <1>4, <1>5 DEF TypeOK, receiverVars, PerBufferIn
  <1>7. Touches(s, b)
    BY <1>2, <1>4, <1>5 DEF Touches, Keeps
  <1>8. writePos[s][b] = NumFragments + 1
    BY <1>b, <1>3, EventsAssumption DEF MarkBufferFull
  <1>9. writing'[s] = NoBuffer
    BY <1>0, <1>2 DEF TypeOK
  <1>10. \A i \in Parts : memory[s][b][i] = events[s]
    BY <1>1, <1>8, EventsAssumption DEF Parts
  <1>11. WriterInv(s)' /\ BufferInv(s, b)'
    BY <1>1, <1>2, <1>3, <1>4, <1>8, <1>9, <1>10 DEF WriterInv, BufferInv
  <1>12. \A t \in Segments \ {s} : events'[t] = events[t] /\ writing'[t] = writing[t]
    BY <1>0, <1>2 DEF TypeOK
  <1>. QED  BY <1>b, <1>1, <1>2, <1>3, <1>6, <1>7, <1>11, <1>12, WriterTouches

-----------------------------------------------------------------------------
(* The receivers: what one does leaves the others and the writers alone *)

LEMMA NothingTouched ==
    ASSUME Inv, NEW p \in Receivers, UNCHANGED segmentVars,
           \A q \in Receivers \ {p} : Rests(q),
           buffer(p)' = buffer(p), source(p)' = source(p) \/ buffer(p) = NoBuffer,
           TypeOK', ReceiverInv(p)'
    PROVE  Inv'
  <1>0. TypeOK /\ EventInv
    BY DEF Inv
  <1>1. ASSUME NEW s \in Segments, NEW b \in Buffers[s] PROVE Keeps(s, b)
    BY DEF segmentVars, Keeps
  <1>2. ASSUME NEW q \in Receivers PROVE ReceiverInv(q)'
    <2>1. CASE q # p
      BY <1>1, <2>1, Holds, ReceiverKept
    <2>. QED  BY <2>1
  <1>3. ASSUME NEW s \in Segments, NEW b \in Buffers[s] PROVE BufferInv(s, b)'
    <2>1. events[s] <= events'[s] /\ events'[s] \in Nat
      BY <1>0 DEF TypeOK, segmentVars
    <2>2. ASSUME sem[s][b] = "Reading"
          PROVE  /\ current_data_source_'[sem_id[s][b]] = current_data_source_[sem_id[s][b]]
                 /\ current_read_buffer_'[sem_id[s][b]] = current_read_buffer_[sem_id[s][b]]
      <3>1. sem_id[s][b] \in Receivers /\ buffer(sem_id[s][b]) = b /\ b # NoBuffer
        BY <1>0, <2>2, NamesAssumption DEF EventInv, BufferInv
      <3>. QED  BY <3>1 DEF source, buffer, Rests
    <2>. QED  BY <1>1, <2>1, <2>2, BufferKept
  <1>4. ASSUME NEW s \in Segments PROVE WriterInv(s)'
    BY <1>0 DEF EventInv, WriterInv, segmentVars
  <1>. QED  BY <1>2, <1>3, <1>4 DEF Inv, EventInv

LEMMA ReceiverTouches ==
    ASSUME Inv, NEW p \in Receivers, NEW s \in Segments, NEW b \in Buffers[s],
           sem[s][b] = "Full" \/ (sem[s][b] = "Reading" /\ sem_id[s][b] = p),
           buffer(p) = NoBuffer \/ (source(p) = s /\ buffer(p) = b),
           Touches(s, b), UNCHANGED <<writing, events>>,
           \A q \in Receivers \ {p} : Rests(q),
           TypeOK', ReceiverInv(p)', BufferInv(s, b)'
    PROVE  Inv'
  <1>0. TypeOK /\ EventInv
    BY DEF Inv
  <1>1. ASSUME NEW q \in Receivers PROVE ReceiverInv(q)'
    <2>1. CASE q # p
      <3>1. call[q] \in Holding => Keeps(source(q), buffer(q))
        BY <2>1, Holds DEF Touches
      <3>. QED  BY <2>1, <3>1, ReceiverKept
    <2>. QED  BY <2>1
  <1>2. ASSUME NEW t \in Segments, NEW c \in Buffers[t] PROVE BufferInv(t, c)'
    <2>1. CASE t # s \/ c # b
      <3>1. Keeps(t, c)
        BY <2>1 DEF Touches
      <3>2. events[t] <= events'[t] /\ events'[t] \in Nat
        BY <1>0 DEF TypeOK
      <3>3. ASSUME sem[t][c] = "Reading"
            PROVE  /\ current_data_source_'[sem_id[t][c]] = current_data_source_[sem_id[t][c]]
                   /\ current_read_buffer_'[sem_id[t][c]] = current_read_buffer_[sem_id[t][c]]
        <4>1. /\ sem_id[t][c] \in Receivers /\ c # NoBuffer
              /\ source(sem_id[t][c]) = t /\ buffer(sem_id[t][c]) = c
          BY <1>0, <3>3, NamesAssumption DEF EventInv, BufferInv
        <4>2. sem_id[t][c] # p
          BY <2>1, <4>1
        <4>. QED  BY <4>1, <4>2 DEF Rests
      <3>. QED  BY <3>1, <3>2, <3>3, BufferKept
    <2>. QED  BY <2>1
  <1>3. ASSUME NEW t \in Segments PROVE WriterInv(t)'
    <2>1. WriterInv(t)
      BY <1>0 DEF EventInv
    <2>2. writing[t] # NoBuffer => Keeps(t, writing[t])
      BY <1>0, <2>1 DEF TypeOK, WriterInv, Touches
    <2>. QED  BY <2>1, <2>2 DEF WriterInv, Keeps
  <1>. QED  BY <1>1, <1>2, <1>3 DEF Inv, EventInv

\* A receiver without a buffer.
LEMMA WithoutBuffer ==
    ASSUME Inv, NEW p \in Receivers,
           call'[p] \notin Holding, call'[p] # "dead",
           current_read_buffer_'[p] = NoBuffer,
           call'[p] = "get" => current_data_source_'[p] \in Segments,
           attached'[p] = attached[p], initialized_'[p] = initialized_[p],
           last_seen_id_'[p] = last_seen_id_[p], handed'[p] = handed[p]
    PROVE  ReceiverInv(p)'
  <1>0. ReceiverInv(p)
    BY DEF Inv, EventInv
  <1>1. CallInv(p)'
    BY <1>0 DEF ReceiverInv, CallInv, source, buffer, Holding
  <1>2. ReadInv(p)'
    BY DEF ReadInv, Holding, Delivering, Typing
  <1>3. HandedInv(p)'
    BY <1>0 DEF ReceiverInv, HandedInv, NoInits, Holding
  <1>. QED  BY <1>1, <1>2, <1>3 DEF ReceiverInv

LEMMA Gone ==
    ASSUME Inv, NEW p \in Receivers, NEW point, NEW next \in Points, At(p, point), Goto(p, next)
    PROVE  /\ call[p] = point /\ call'[p] = next /\ call' \in [Receivers -> Points]
           /\ \A q \in Receivers \ {p} : call'[q] = call[q]
           /\ call[p] \notin Holding => buffer(p) = NoBuffer
  BY DEF Inv, TypeOK, At, Goto, EventInv, ReceiverInv, CallInv

LEMMA SearchKeeps ==
    ASSUME Inv, NEW p \in Receivers,
           ReadyForRead(p) \/ (\E s \in Segments : TestSegment(p, s)) \/ GetNothing(p) \/ Nothing(p)
    PROVE  Inv'
  <1>0. TypeOK /\ EventInv
    BY DEF Inv
  <1>. USE DEF Points
  <1>1. CASE ReadyForRead(p)
    <2>1. buffer(p) = NoBuffer
      BY <1>0, <1>1 DEF ReadyForRead, Look, At, EventInv, ReceiverInv, CallInv, Holding, Delivering, Typing
    <2>2. Look(p, "none", "broadcasts")
      BY <1>1, <2>1 DEF ReadyForRead
    <2>3. call'[p] = "broadcasts" /\ call' \in [Receivers -> Points] /\ \A q \in Receivers \ {p} : call'[q] = call[q]
      BY <2>2, Gone DEF Look
    <2>4. ReceiverInv(p)'
      BY <2>1, <2>2, <2>3, WithoutBuffer DEF Look, buffer, Holding, Delivering, Typing
    <2>5. TypeOK'
      BY <1>0, <2>2, <2>3 DEF TypeOK, Look, segmentVars
    <2>6. \A q \in Receivers \ {p} : Rests(q)
      BY <2>2, <2>3 DEF Rests, Look
    <2>. QED  BY <2>2, <2>4, <2>5, <2>6, NothingTouched DEF Look, source, buffer
  <1>2. ASSUME NEW s \in Segments, TestSegment(p, s) PROVE Inv'
    <2>1. PICK next \in {"get", "data", "nothing"} :
              /\ Goto(p, next)
              /\ next = "get" => current_data_source_' = [current_data_source_ EXCEPT ![p] = s]
              /\ next # "get" => UNCHANGED current_data_source_
      BY <1>2 DEF TestSegment
    <2>2. UNCHANGED <<segmentVars, endOfData, current_read_buffer_, initialized_, last_seen_id_,
                      attached, types, header, output, handed>>
      BY <1>2 DEF TestSegment
    <2>3. /\ call[p] = s /\ call'[p] = next /\ call' \in [Receivers -> Points] /\ \A q \in Receivers \ {p} : call'[q] = call[q]
          /\ buffer(p) = NoBuffer
      BY <1>2, <2>1, Gone DEF TestSegment, Segments, Holding, Delivering, Typing
    <2>4. /\ current_data_source_' \in [Receivers -> Segments \cup {"none"}]
          /\ \A q \in Receivers \ {p} : current_data_source_'[q] = current_data_source_[q]
          /\ next = "get" => current_data_source_'[p] = s
      BY <1>0, <2>1 DEF TypeOK
    <2>5. ReceiverInv(p)'
      BY <2>2, <2>3, <2>4, WithoutBuffer DEF buffer, Holding, Delivering, Typing
    <2>6. TypeOK'
      BY <1>0, <2>2, <2>3, <2>4 DEF TypeOK, segmentVars
    <2>7. \A q \in Receivers \ {p} : Rests(q)
      BY <2>2, <2>3, <2>4 DEF Rests
    <2>. QED  BY <2>2, <2>3, <2>5, <2>6, <2>7, NothingTouched DEF buffer
  <1>3. CASE GetNothing(p)
    <2>1. Look(p, "get", "nothing")
      BY <1>3 DEF GetNothing
    <2>2. /\ call'[p] = "nothing" /\ call' \in [Receivers -> Points] /\ \A q \in Receivers \ {p} : call'[q] = call[q]
          /\ buffer(p) = NoBuffer
      BY <2>1, Gone DEF Look, Holding, Delivering, Typing
    <2>3. ReceiverInv(p)'
      BY <2>1, <2>2, WithoutBuffer DEF Look, buffer, Holding, Delivering, Typing
    <2>4. TypeOK'
      BY <1>0, <2>1, <2>2 DEF TypeOK, Look, segmentVars
    <2>5. \A q \in Receivers \ {p} : Rests(q)
      BY <2>1, <2>2 DEF Rests, Look
    <2>. QED  BY <2>1, <2>3, <2>4, <2>5, NothingTouched DEF Look, source, buffer
  <1>4. CASE Nothing(p)
    <2>1. PICK next \in {"none", "broadcasts"} : Goto(p, next)
      BY <1>4 DEF Nothing
    <2>2. /\ current_data_source_' = [current_data_source_ EXCEPT ![p] = "none"]
          /\ UNCHANGED <<segmentVars, endOfData, current_read_buffer_, initialized_, last_seen_id_,
                         attached, types, header, output, handed>>
      BY <1>4 DEF Nothing
    <2>3. /\ call'[p] = next /\ call' \in [Receivers -> Points] /\ \A q \in Receivers \ {p} : call'[q] = call[q]
          /\ buffer(p) = NoBuffer
      BY <1>4, <2>1, Gone DEF Nothing, Holding, Delivering, Typing
    <2>4. ReceiverInv(p)'
      BY <2>2, <2>3, WithoutBuffer DEF buffer, Holding, Delivering, Typing
    <2>5. TypeOK'
      BY <1>0, <2>2, <2>3 DEF TypeOK, segmentVars
    <2>6. \A q \in Receivers \ {p} : Rests(q)
      BY <1>0, <2>2, <2>3 DEF Rests, TypeOK
    <2>. QED  BY <2>2, <2>3, <2>4, <2>5, <2>6, NothingTouched DEF buffer
  <1>. QED  BY <1>1, <1>2, <1>3, <1>4

LEMMA GetBufferKeeps ==
    ASSUME Inv, NEW p \in Receivers, GetBuffer(p)
    PROVE  Inv'
  <1>. DEFINE next == IF source(p) = "data" THEN "true" ELSE "types"
  <1>0. TypeOK /\ EventInv /\ ReceiverInv(p)
    BY DEF Inv, EventInv
  <1>1. call[p] = "get" /\ source(p) \in Segments /\ buffer(p) = NoBuffer /\ attached[p] = Segments
    BY <1>0 DEF GetBuffer, At, ReceiverInv, CallInv, Holding, Delivering, Typing
  <1>2. PICK s \in Segments : s = source(p)
    BY <1>1
  <1>3. PICK b \in Buffers[s] :
            /\ Ready(p, s, b)
            /\ sem' = [sem EXCEPT ![s][b] = "Reading"]
            /\ sem_id' = [sem_id EXCEPT ![s][b] = p]
            /\ readPos' = [readPos EXCEPT ![s][b] = 0]
            /\ current_read_buffer_' = [current_read_buffer_ EXCEPT ![p] = b]
            /\ last_seen_id_' = IF s = "data" THEN last_seen_id_
                                ELSE [last_seen_id_ EXCEPT ![p] = sequence_id[s][b]]
            /\ Goto(p, next)
    BY <1>2 DEF GetBuffer
  <1>4. UNCHANGED <<sequence_id, writePos, memory, writing, events, endOfData,
                    current_data_source_, initialized_, attached, types, header, output, handed>>
    BY DEF GetBuffer
  <1>5. /\ sem[s][b] = "Full" /\ sequence_id[s][b] \in Nat /\ sequence_id[s][b] <= events[s]
        /\ s = "broadcasts" => sequence_id[s][b] > last_seen_id_[p]
        /\ writePos[s][b] = NumFragments + 1 /\ \A i \in Parts : memory[s][b][i] = sequence_id[s][b]
    BY <1>0, <1>3 DEF Ready, EventInv, BufferInv, TypeOK, PerBufferIn
  <1>6. /\ PerBufferIn(sem, {"Empty", "Writing", "Full", "Reading"})
        /\ PerBufferIn(sem_id, Receivers \cup {Nobody, Writer})
        /\ PerBufferIn(readPos, 0 .. (NumFragments + 1)) /\ 0 \in 0 .. (NumFragments + 1)
    BY <1>0, EventsAssumption DEF TypeOK
  <1>7. /\ PerBufferIn(sem', {"Empty", "Writing", "Full", "Reading"}) /\ sem'[s][b] = "Reading"
        /\ \A t \in Segments : \A c \in Buffers[t] : t # s \/ c # b => sem'[t][c] = sem[t][c]
    BY <1>3, <1>6, Put DEF PerBufferIn
  <1>8. /\ PerBufferIn(sem_id', Receivers \cup {Nobody, Writer}) /\ sem_id'[s][b] = p
        /\ \A t \in Segments : \A c \in Buffers[t] : t # s \/ c # b => sem_id'[t][c] = sem_id[t][c]
    BY <1>3, <1>6, Put DEF PerBufferIn
  <1>9. /\ PerBufferIn(readPos', 0 .. (NumFragments + 1)) /\ readPos'[s][b] = 0
        /\ \A t \in Segments : \A c \in Buffers[t] : t # s \/ c # b => readPos'[t][c] = readPos[t][c]
    BY <1>3, <1>6, Put DEF PerBufferIn
  <1>10. /\ call'[p] = next /\ call' \in [Receivers -> Points]
         /\ \A q \in Receivers \ {p} : call'[q] = call[q]
    BY <1>1, <1>3, Gone DEF GetBuffer, Points
  <1>11. /\ current_read_buffer_'[p] = b
         /\ current_read_buffer_' \in [Receivers -> (UNION {Buffers[r] : r \in Segments}) \cup {NoBuffer}]
         /\ \A q \in Receivers \ {p} : current_read_buffer_'[q] = current_read_buffer_[q]
    BY <1>0, <1>3 DEF TypeOK
  <1>12. /\ last_seen_id_' \in [Receivers -> Nat] /\ last_seen_id_[p] \in Nat
         /\ last_seen_id_'[p] = IF s = "data" THEN last_seen_id_[p] ELSE sequence_id[s][b]
         /\ \A q \in Receivers \ {p} : last_seen_id_'[q] = last_seen_id_[q]
    BY <1>0, <1>3, <1>5 DEF TypeOK
  <1>13. TypeOK'
    BY <1>0, <1>4, <1>7, <1>8, <1>9, <1>10, <1>11, <1>12 DEF TypeOK, PerBufferIn
  <1>14. current_data_source_'[p] = s /\ next = IF s = "data" THEN "true" ELSE "types"
    BY <1>2, <1>4 DEF source
  <1>15. ReceiverInv(p)'
    <2>1. CallInv(p)'
      BY <1>1, <1>4, <1>7, <1>8, <1>10, <1>11, <1>14
      DEF CallInv, source, buffer, CheckBuffer, Holding, Delivering, Typing, Segments
    <2>2. ReadInv(p)'
      BY <1>10, <1>14 DEF ReadInv, Delivering
    <2>3. HandedInv(p)'
      <3>1. HandedInv(p) /\ handed[p] \in Seq(Nat)
        BY <1>0 DEF ReceiverInv, TypeOK
      <3>2. CASE s = "data"
        BY <1>4, <1>12, <1>14, <3>1, <3>2 DEF HandedInv, NoInits, source
      <3>3. CASE s = "broadcasts"
        <4>1. Event(p)' = last_seen_id_'[p] /\ last_seen_id_[p] < last_seen_id_'[p] /\ last_seen_id_'[p] \in Nat
          BY <1>4, <1>5, <1>11, <1>12, <1>14, <3>3 DEF Event, source, buffer
        <4>2. \A i \in DOMAIN handed[p] : handed[p][i] \in Nat /\ handed[p][i] < last_seen_id_'[p]
          BY <1>12, <3>1, <4>1 DEF HandedInv
        <4>3. call'[p] \notin Delivering
          BY <1>10, <1>14, <3>3 DEF Delivering
        <4>. QED  BY <1>4, <3>1, <4>1, <4>2, <4>3 DEF HandedInv, NoInits
      <3>. QED  BY <3>2, <3>3 DEF Segments
    <2>. QED  BY <2>1, <2>2, <2>3 DEF ReceiverInv
  <1>16. Touches(s, b)
    BY <1>4, <1>7, <1>8, <1>9 DEF Touches, Keeps
  <1>17. BufferInv(s, b)'
    BY <1>4, <1>5, <1>7, <1>8, <1>11, <1>14 DEF BufferInv, source, buffer
  <1>18. \A q \in Receivers \ {p} : Rests(q)
    BY <1>4, <1>10, <1>11, <1>12 DEF Rests
  <1>. QED  BY <1>1, <1>4, <1>5, <1>13, <1>15, <1>16, <1>17, <1>18, ReceiverTouches

-----------------------------------------------------------------------------
(* The read position *)

LEMMA PositionSet ==
    ASSUME Inv, NEW p \in Receivers, call[p] \in Holding,
           NEW pos \in 0 .. (NumFragments + 1), SetReadPos(p, pos),
           UNCHANGED <<current_read_buffer_, current_data_source_, sequence_id>>
    PROVE  /\ PerBufferIn(readPos', 0 .. (NumFragments + 1)) /\ Pos(p)' = pos
           /\ Event(p)' = Event(p) /\ source(p)' = source(p) /\ buffer(p)' = buffer(p)
           /\ \A t \in Segments : \A c \in Buffers[t] :
                  t # source(p) \/ c # buffer(p) => readPos'[t][c] = readPos[t][c]
  <1>1. source(p) \in Segments /\ buffer(p) \in Buffers[source(p)]
    BY Holds
  <1>2. PerBufferIn(readPos, 0 .. (NumFragments + 1))
    BY DEF Inv, TypeOK
  <1>3. readPos' = [readPos EXCEPT ![source(p)][buffer(p)] = pos]
    BY DEF SetReadPos
  <1>4. PerBufferIn(readPos', 0 .. (NumFragments + 1)) /\ readPos'[source(p)][buffer(p)] = pos
        /\ \A t \in Segments : \A c \in Buffers[t] :
               t # source(p) \/ c # buffer(p) => readPos'[t][c] = readPos[t][c]
    BY <1>1, <1>2, <1>3, Put DEF PerBufferIn
  <1>5. source(p)' = source(p) /\ buffer(p)' = buffer(p)
    BY DEF source, buffer
  <1>6. Event(p)' = Event(p)
    BY <1>5 DEF Event
  <1>. QED  BY <1>4, <1>5, <1>6 DEF Pos

LEMMA PositionKeeps ==
    ASSUME Inv, NEW p \in Receivers, call[p] \in Holding,
           NEW pos \in 0 .. (NumFragments + 1), SetReadPos(p, pos),
           UNCHANGED <<sem, sem_id, sequence_id, writePos, memory, writing, events,
                       current_read_buffer_, current_data_source_>>,
           \A q \in Receivers \ {p} : Rests(q),
           TypeOK', ReceiverInv(p)'
    PROVE  Inv'
  <1>1. PICK s \in Segments, b \in Buffers[source(p)] : s = source(p) /\ b = buffer(p)
    BY Holds
  <1>2. Touches(s, b)
    BY <1>1, PositionSet DEF Touches, Keeps
  <1>3. sem[s][b] = "Reading" /\ sem_id[s][b] = p
    BY <1>1, Holds
  <1>4. BufferInv(s, b)'
    BY <1>1 DEF Inv, EventInv, BufferInv, source, buffer
  <1>. QED  BY <1>1, <1>2, <1>3, <1>4, ReceiverTouches

LEMMA EmptySeq == ASSUME NEW h PROVE <<>> = [i \in 1 .. (1 - 1) |-> h]
  OBVIOUS

LEMMA GetFragmentTypesKeeps ==
    ASSUME Inv, NEW p \in Receivers, GetFragmentTypes(p)
    PROVE  Inv'
  <1>0. TypeOK /\ EventInv /\ ReceiverInv(p)
    BY DEF Inv, EventInv
  <1>1. call[p] = "types" /\ call[p] \in Holding
    BY DEF GetFragmentTypes, At, Holding, Typing
  <1>2. CheckBuffer(p) /\ SetReadPos(p, 1) /\ Goto(p, "more_types")
    BY <1>1, Holds DEF GetFragmentTypes
  <1>3. types' = [types EXCEPT ![p] = {}]
        /\ UNCHANGED <<sem, sem_id, sequence_id, writePos, memory, writing, events, endOfData,
                       current_read_buffer_, current_data_source_, initialized_, last_seen_id_,
                       attached, header, output, handed>>
    BY DEF GetFragmentTypes
  <1>4. call'[p] = "more_types" /\ call' \in [Receivers -> Points] /\ \A q \in Receivers \ {p} : call'[q] = call[q]
    BY <1>2, Gone DEF GetFragmentTypes, Points
  <1>5. 1 \in 0 .. (NumFragments + 1) /\ 1 \in 1 .. (NumFragments + 1)
    BY EventsAssumption
  <1>6. /\ PerBufferIn(readPos', 0 .. (NumFragments + 1)) /\ Pos(p)' = 1
        /\ Event(p)' = Event(p) /\ source(p)' = source(p) /\ buffer(p)' = buffer(p)
    BY <1>1, <1>2, <1>3, <1>5, PositionSet
  <1>7. types'[p] = {} /\ types' \in [Receivers -> SUBSET Nat] /\ \A q \in Receivers \ {p} : types'[q] = types[q]
    BY <1>0, <1>3 DEF TypeOK
  <1>8. TypeOK'
    BY <1>0, <1>3, <1>4, <1>6, <1>7 DEF TypeOK, PerBufferIn
  <1>9. ReceiverInv(p)'
    <2>1. CallInv(p)'
      BY <1>0, <1>1, <1>3, <1>4, <1>6 DEF ReceiverInv, CallInv, CheckBuffer, Holding, Typing
    <2>2. ReadInv(p)'
      BY <1>4, <1>5, <1>6, <1>7 DEF ReadInv, Delivering
    <2>3. HandedInv(p)'
      BY <1>0, <1>1, <1>3, <1>4, <1>6 DEF ReceiverInv, HandedInv, NoInits, Delivering, Typing
    <2>. QED  BY <2>1, <2>2, <2>3 DEF ReceiverInv
  <1>10. \A q \in Receivers \ {p} : Rests(q)
    BY <1>3, <1>4, <1>7 DEF Rests
  <1>. QED  BY <1>1, <1>2, <1>3, <1>5, <1>8, <1>9, <1>10, PositionKeeps

LEMMA LookKeeps ==
    ASSUME Inv, NEW p \in Receivers, NEW point, NEW next \in Points, Look(p, point, next), ReceiverInv(p)'
    PROVE  Inv'
  <1>1. /\ call'[p] = next /\ call' \in [Receivers -> Points] /\ \A q \in Receivers \ {p} : call'[q] = call[q]
    BY Gone DEF Look
  <1>2. TypeOK'
    BY <1>1 DEF Inv, TypeOK, Look, segmentVars
  <1>3. \A q \in Receivers \ {p} : Rests(q)
    BY <1>1 DEF Rests, Look
  <1>. QED  BY <1>2, <1>3, NothingTouched DEF Look, source, buffer

\* A step inside the call that moves nothing: what of the invariant is new.
LEMMA LookingOn ==
    ASSUME Inv, NEW p \in Receivers, NEW point \in Holding, NEW next \in Holding, Look(p, point, next)
    PROVE  /\ call[p] = point /\ call'[p] = next
           /\ Event(p)' = Event(p) /\ Pos(p)' = Pos(p)
           /\ source(p)' = source(p) /\ buffer(p)' = buffer(p)
           /\ (point \in Typing <=> next \in Typing) => CallInv(p)'
           /\ (point \in Typing <=> next \in Typing) /\ (point \in Delivering <=> next \in Delivering) => HandedInv(p)'
           /\ next = "release" => HandedInv(p)'
  <1>1. call[p] = point /\ call'[p] = next
    BY Gone DEF Look, Holding, Delivering, Typing, Points
  <1>2. Event(p)' = Event(p) /\ Pos(p)' = Pos(p) /\ source(p)' = source(p) /\ buffer(p)' = buffer(p) /\ CheckBuffer(p)' = CheckBuffer(p)
    BY DEF Look, Event, Pos, source, buffer, CheckBuffer, segmentVars
  <1>3. ReceiverInv(p)
    BY DEF Inv, EventInv
  <1>4. (point \in Typing <=> next \in Typing) => CallInv(p)'
    BY <1>1, <1>2, <1>3 DEF Look, ReceiverInv, CallInv, Holding, Delivering, Typing
  <1>5. (point \in Typing <=> next \in Typing) /\ (point \in Delivering <=> next \in Delivering) => HandedInv(p)'
    BY <1>1, <1>2, <1>3 DEF Look, ReceiverInv, HandedInv, NoInits
  <1>6. next = "release" => HandedInv(p)'
    BY <1>1, <1>3 DEF Look, ReceiverInv, HandedInv, NoInits, Delivering, Typing
  <1>. QED  BY <1>1, <1>2, <1>4, <1>5, <1>6

LEMMA PositionBound ==
    ASSUME Inv, NEW p \in Receivers, call[p] \in Holding
    PROVE  IF MoreDataInBuffer(p) THEN Pos(p) <= NumFragments ELSE Pos(p) = NumFragments + 1
  BY Holds, EventsAssumption DEF MoreDataInBuffer, Pos

LEMMA MoreTypesKeeps ==
    ASSUME Inv, NEW p \in Receivers, MoreTypes(p)
    PROVE  Inv'
  <1>1. call[p] = "more_types" /\ ReceiverInv(p)
    BY DEF MoreTypes, Look, At, Inv, EventInv
  <1>2. CheckBuffer(p)
    BY <1>1, Holds DEF Holding, Typing
  <1>. DEFINE next == IF MoreDataInBuffer(p) THEN "next_type" ELSE "decide"
  <1>3. Look(p, "more_types", next)
    BY <1>2 DEF MoreTypes
  <1>4. next \in Typing /\ next \in Holding /\ next \in Points /\ "more_types" \in Typing /\ "more_types" \in Holding
        /\ next \notin Delivering /\ "more_types" \notin Delivering
    BY DEF Typing, Holding, Points, Delivering
  <1>5. IF next = "next_type" THEN Pos(p) <= NumFragments ELSE Pos(p) = NumFragments + 1
    BY <1>1, <1>4, PositionBound
  <1>. HIDE DEF next
  <1>6. CallInv(p)' /\ HandedInv(p)' /\ call'[p] = next /\ Event(p)' = Event(p) /\ Pos(p)' = Pos(p)
    BY <1>3, <1>4, LookingOn
  <1>7. ReadInv(p)'
    BY <1>1, <1>3, <1>4, <1>5, <1>6 DEF ReadInv, ReceiverInv, Look, Delivering, Typing
  <1>. QED  BY <1>3, <1>4, <1>6, <1>7, LookKeeps DEF ReceiverInv

LEMMA MoreFragmentsKeeps ==
    ASSUME Inv, NEW p \in Receivers, MoreFragments(p)
    PROVE  Inv'
  <1>1. call[p] = "more" /\ ReceiverInv(p)
    BY DEF MoreFragments, Look, At, Inv, EventInv
  <1>2. CheckBuffer(p)
    BY <1>1, Holds DEF Holding, Delivering
  <1>. DEFINE next == IF MoreDataInBuffer(p) THEN "read" ELSE "done"
  <1>3. Look(p, "more", next)
    BY <1>2 DEF MoreFragments
  <1>4. next \in Delivering /\ next \in Holding /\ next \in Points /\ "more" \in Delivering /\ "more" \in Holding
        /\ next \notin Typing /\ "more" \notin Typing
    BY DEF Typing, Holding, Points, Delivering
  <1>5. next \in {"read", "done"} /\ IF next = "read" THEN Pos(p) <= NumFragments ELSE Pos(p) = NumFragments + 1
    BY <1>1, <1>4, PositionBound
  <1>. HIDE DEF next
  <1>6. CallInv(p)' /\ HandedInv(p)' /\ call'[p] = next /\ Event(p)' = Event(p) /\ Pos(p)' = Pos(p)
    BY <1>3, <1>4, LookingOn
  <1>7. ReadInv(p)'
    BY <1>1, <1>3, <1>4, <1>5, <1>6 DEF ReadInv, ReceiverInv, Look, Delivering, Typing
  <1>. QED  BY <1>3, <1>4, <1>6, <1>7, LookKeeps DEF ReceiverInv

\* Read's check does not fail: the exception is never thrown.
LEMMA ReadKeeps ==
    ASSUME Inv, NEW p \in Receivers, Read(p)
    PROVE  Inv'
  <1>1. call[p] = "read" /\ ReceiverInv(p)
    BY DEF Read, At, Inv, EventInv
  <1>2. CheckBuffer(p)
    BY <1>1, Holds DEF Holding, Delivering
  <1>3. Look(p, "read", "copy")
    BY <1>2 DEF Read, Look
  <1>4. {"read", "copy"} \subseteq Delivering /\ {"read", "copy"} \subseteq Holding /\ "copy" \in Points
        /\ "read" \notin Typing /\ "copy" \notin Typing
    BY DEF Typing, Holding, Points, Delivering
  <1>6. CallInv(p)' /\ HandedInv(p)' /\ call'[p] = "copy" /\ Event(p)' = Event(p) /\ Pos(p)' = Pos(p)
    BY <1>3, <1>4, LookingOn
  <1>7. ReadInv(p)'
    BY <1>1, <1>3, <1>6 DEF ReadInv, ReceiverInv, Look, Delivering, Typing
  <1>. QED  BY <1>3, <1>4, <1>6, <1>7, LookKeeps DEF ReceiverInv

\* A receiver that ReadyForRead gave a buffer is attached, and the buffer is still its.
LEMMA ReadHeaderKeeps ==
    ASSUME Inv, NEW p \in Receivers, ReadHeader(p)
    PROVE  Inv'
  <1>1. call[p] = "true" /\ ReceiverInv(p)
    BY DEF ReadHeader, At, Inv, EventInv
  <1>2. CheckBuffer(p) /\ source(p) \in attached[p]
    BY <1>1, Holds DEF Holding, Delivering, ReceiverInv, CallInv
  <1>3. Look(p, "true", "header")
    BY <1>2 DEF ReadHeader, Look
  <1>4. {"true", "header"} \subseteq Delivering /\ {"true", "header"} \subseteq Holding /\ "header" \in Points
        /\ "true" \notin Typing /\ "header" \notin Typing
    BY DEF Typing, Holding, Points, Delivering
  <1>6. CallInv(p)' /\ HandedInv(p)' /\ call'[p] = "header"
    BY <1>3, <1>4, LookingOn
  <1>7. ReadInv(p)'
    BY <1>6 DEF ReadInv
  <1>. QED  BY <1>3, <1>4, <1>6, <1>7, LookKeeps DEF ReceiverInv

LEMMA NextTypeKeeps ==
    ASSUME Inv, NEW p \in Receivers, NextType(p)
    PROVE  Inv'
  <1>0. TypeOK /\ EventInv /\ ReceiverInv(p)
    BY DEF Inv, EventInv
  <1>1. call[p] = "next_type" /\ call[p] \in Holding
    BY DEF NextType, At, Holding, Typing
  <1>2. Pos(p) \in 1 .. (NumFragments + 1) /\ Pos(p) <= NumFragments
        /\ types[p] = IF Pos(p) > 1 THEN {Event(p)} ELSE {}
    BY <1>0, <1>1 DEF ReceiverInv, ReadInv
  <1>3. Pos(p) \in Parts /\ Pos(p) + 1 \in 0 .. (NumFragments + 1) /\ Pos(p) + 1 \in 1 .. (NumFragments + 1) /\ Pos(p) + 1 > 1
    BY <1>2, EventsAssumption DEF Parts
  <1>4. memory[source(p)][buffer(p)][Pos(p)] = Event(p) /\ Event(p) \in Nat /\ CheckBuffer(p)
    BY <1>1, <1>3, Holds
  <1>5. /\ SetReadPos(p, Pos(p) + 1) /\ Goto(p, "more_types")
        /\ types' = [types EXCEPT ![p] = @ \cup {Event(p)}]
    BY <1>4 DEF NextType, Pos
  <1>6. UNCHANGED <<sem, sem_id, sequence_id, writePos, memory, writing, events, endOfData,
                    current_read_buffer_, current_data_source_, initialized_, last_seen_id_,
                    attached, header, output, handed>>
    BY DEF NextType
  <1>7. call'[p] = "more_types" /\ call' \in [Receivers -> Points] /\ \A q \in Receivers \ {p} : call'[q] = call[q]
    BY <1>5, Gone DEF NextType, Points
  <1>8. /\ PerBufferIn(readPos', 0 .. (NumFragments + 1)) /\ Pos(p)' = Pos(p) + 1
        /\ Event(p)' = Event(p) /\ source(p)' = source(p) /\ buffer(p)' = buffer(p)
    BY <1>1, <1>3, <1>5, <1>6, PositionSet
  <1>9. types'[p] = {Event(p)} /\ types' \in [Receivers -> SUBSET Nat] /\ \A q \in Receivers \ {p} : types'[q] = types[q]
    BY <1>0, <1>2, <1>4, <1>5 DEF TypeOK
  <1>10. TypeOK'
    BY <1>0, <1>6, <1>7, <1>8, <1>9 DEF TypeOK, PerBufferIn
  <1>11. ReceiverInv(p)'
    <2>1. CallInv(p)'
      BY <1>0, <1>1, <1>6, <1>7, <1>8 DEF ReceiverInv, CallInv, CheckBuffer, Holding, Typing
    <2>2. ReadInv(p)'
      BY <1>3, <1>7, <1>8, <1>9 DEF ReadInv, Delivering
    <2>3. HandedInv(p)'
      BY <1>0, <1>1, <1>6, <1>7, <1>8 DEF ReceiverInv, HandedInv, NoInits, Delivering, Typing
    <2>. QED  BY <2>1, <2>2, <2>3 DEF ReceiverInv
  <1>12. \A q \in Receivers \ {p} : Rests(q)
    BY <1>6, <1>7, <1>9 DEF Rests
  <1>. QED  BY <1>1, <1>3, <1>5, <1>6, <1>10, <1>11, <1>12, PositionKeeps

\* The client reads the header.
LEMMA UseHeaderKeeps ==
    ASSUME Inv, NEW p \in Receivers, UseHeader(p)
    PROVE  Inv'
  <1>0. TypeOK /\ EventInv /\ ReceiverInv(p)
    BY DEF Inv, EventInv
  <1>1. call[p] = "header" /\ call[p] \in Holding
    BY DEF UseHeader, At, Holding, Delivering
  <1>2. memory[source(p)][buffer(p)][0] = Event(p) /\ Event(p) \in Nat
    BY <1>1, Holds, EventsAssumption DEF Parts
  <1>3. PICK next \in {"fragments", "release"} : Goto(p, next)
    BY DEF UseHeader
  <1>4. header' = [header EXCEPT ![p] = Event(p)]
        /\ UNCHANGED <<segmentVars, endOfData, current_read_buffer_, current_data_source_,
                       initialized_, last_seen_id_, attached, types, output, handed>>
    BY <1>2 DEF UseHeader
  <1>5. call'[p] = next /\ call' \in [Receivers -> Points] /\ \A q \in Receivers \ {p} : call'[q] = call[q]
    BY <1>3, Gone DEF UseHeader, Points
  <1>6. header'[p] = Event(p) /\ header' \in [Receivers -> Nat] /\ \A q \in Receivers \ {p} : header'[q] = header[q]
    BY <1>0, <1>2, <1>4 DEF TypeOK
  <1>7. TypeOK'
    BY <1>0, <1>4, <1>5, <1>6 DEF TypeOK, segmentVars
  <1>8. Event(p)' = Event(p) /\ Pos(p)' = Pos(p) /\ source(p)' = source(p) /\ buffer(p)' = buffer(p) /\ CheckBuffer(p)' = CheckBuffer(p)
    BY <1>4 DEF Event, Pos, source, buffer, CheckBuffer, segmentVars
  <1>9. ReceiverInv(p)'
    <2>1. CallInv(p)'
      BY <1>0, <1>1, <1>4, <1>5, <1>8 DEF ReceiverInv, CallInv, Holding, Delivering, Typing
    <2>2. ReadInv(p)'
      BY <1>5, <1>6, <1>8 DEF ReadInv, Delivering
    <2>3. HandedInv(p)'
      BY <1>0, <1>1, <1>4, <1>5, <1>8 DEF ReceiverInv, HandedInv, NoInits, Delivering, Typing
    <2>. QED  BY <2>1, <2>2, <2>3 DEF ReceiverInv
  <1>10. \A q \in Receivers \ {p} : Rests(q)
    BY <1>4, <1>5, <1>6 DEF Rests
  <1>. QED  BY <1>4, <1>7, <1>8, <1>9, <1>10, NothingTouched

LEMMA GetFragmentsByTypeKeeps ==
    ASSUME Inv, NEW p \in Receivers, GetFragmentsByType(p)
    PROVE  Inv'
  <1>0. TypeOK /\ EventInv /\ ReceiverInv(p)
    BY DEF Inv, EventInv
  <1>1. call[p] = "fragments" /\ call[p] \in Holding
    BY DEF GetFragmentsByType, At, Holding, Delivering
  <1>2. CheckBuffer(p) /\ SetReadPos(p, 1) /\ Goto(p, "more")
    BY <1>1, Holds DEF GetFragmentsByType, FirstFragment
  <1>3. output' = [output EXCEPT ![p] = <<>>]
        /\ UNCHANGED <<sem, sem_id, sequence_id, writePos, memory, writing, events, endOfData,
                       current_read_buffer_, current_data_source_, initialized_, last_seen_id_,
                       attached, types, header, handed>>
    BY DEF GetFragmentsByType
  <1>4. call'[p] = "more" /\ call' \in [Receivers -> Points] /\ \A q \in Receivers \ {p} : call'[q] = call[q]
    BY <1>2, Gone DEF GetFragmentsByType, Points
  <1>5. 1 \in 0 .. (NumFragments + 1) /\ 1 \in 1 .. (NumFragments + 1)
    BY EventsAssumption
  <1>6. /\ PerBufferIn(readPos', 0 .. (NumFragments + 1)) /\ Pos(p)' = 1
        /\ Event(p)' = Event(p) /\ source(p)' = source(p) /\ buffer(p)' = buffer(p)
    BY <1>1, <1>2, <1>3, <1>5, PositionSet
  <1>7. output'[p] = <<>> /\ output' \in [Receivers -> Seq(Nat)] /\ \A q \in Receivers \ {p} : output'[q] = output[q]
    BY <1>0, <1>3 DEF TypeOK
  <1>8. TypeOK'
    BY <1>0, <1>3, <1>4, <1>6, <1>7 DEF TypeOK, PerBufferIn
  <1>9. ReceiverInv(p)'
    <2>1. CallInv(p)'
      BY <1>0, <1>1, <1>3, <1>4, <1>6 DEF ReceiverInv, CallInv, CheckBuffer, Holding, Delivering, Typing
    <2>2. ReadInv(p)'
      <3>1. header'[p] = Event(p)'
        BY <1>0, <1>1, <1>3, <1>6 DEF ReceiverInv, ReadInv, Delivering
      <3>2. output'[p] = [i \in 1 .. (Pos(p)' - 1) |-> header'[p]]
        BY <1>6, <1>7, EmptySeq
      <3>. QED  BY <1>4, <1>5, <1>6, <3>1, <3>2 DEF ReadInv, Delivering
    <2>3. HandedInv(p)'
      BY <1>0, <1>1, <1>3, <1>4, <1>6 DEF ReceiverInv, HandedInv, NoInits, Delivering, Typing
    <2>. QED  BY <2>1, <2>2, <2>3 DEF ReceiverInv
  <1>10. \A q \in Receivers \ {p} : Rests(q)
    BY <1>3, <1>4, <1>7 DEF Rests
  <1>. QED  BY <1>1, <1>2, <1>3, <1>5, <1>8, <1>9, <1>10, PositionKeeps

LEMMA ReadEndKeeps ==
    ASSUME Inv, NEW p \in Receivers, ReadEnd(p)
    PROVE  Inv'
  <1>0. TypeOK /\ EventInv /\ ReceiverInv(p)
    BY DEF Inv, EventInv
  <1>1. call[p] = "copy" /\ call[p] \in Holding
    BY DEF ReadEnd, At, Holding, Delivering
  <1>2. Pos(p) \in 1 .. (NumFragments + 1) /\ Pos(p) <= NumFragments /\ header[p] = Event(p)
        /\ output[p] = [i \in 1 .. (Pos(p) - 1) |-> header[p]]
    BY <1>0, <1>1 DEF ReceiverInv, ReadInv, Delivering
  <1>3. Pos(p) \in Parts /\ Pos(p) + 1 \in 0 .. (NumFragments + 1) /\ Pos(p) + 1 \in 1 .. (NumFragments + 1)
        /\ Pos(p) - 1 \in Nat /\ (Pos(p) - 1) + 1 = (Pos(p) + 1) - 1
    BY <1>2, EventsAssumption DEF Parts
  <1>4. memory[source(p)][buffer(p)][Pos(p)] = Event(p) /\ Event(p) \in Nat /\ CheckBuffer(p)
    BY <1>1, <1>3, Holds
  <1>5. /\ SetReadPos(p, Pos(p) + 1) /\ Goto(p, "more")
        /\ output' = [output EXCEPT ![p] = Append(@, Event(p))]
    BY <1>4 DEF ReadEnd, Pos
  <1>6. UNCHANGED <<sem, sem_id, sequence_id, writePos, memory, writing, events, endOfData,
                    current_read_buffer_, current_data_source_, initialized_, last_seen_id_,
                    attached, types, header, handed>>
    BY DEF ReadEnd
  <1>7. call'[p] = "more" /\ call' \in [Receivers -> Points] /\ \A q \in Receivers \ {p} : call'[q] = call[q]
    BY <1>5, Gone DEF ReadEnd, Points
  <1>8. /\ PerBufferIn(readPos', 0 .. (NumFragments + 1)) /\ Pos(p)' = Pos(p) + 1
        /\ Event(p)' = Event(p) /\ source(p)' = source(p) /\ buffer(p)' = buffer(p)
    BY <1>1, <1>3, <1>5, <1>6, PositionSet
  <1>9. /\ output'[p] = Append(output[p], header[p]) /\ output'[p] \in Seq(Nat)
        /\ output' \in [Receivers -> Seq(Nat)] /\ \A q \in Receivers \ {p} : output'[q] = output[q]
    BY <1>0, <1>2, <1>4, <1>5 DEF TypeOK
  <1>10. output'[p] = [i \in 1 .. (Pos(p)' - 1) |-> header'[p]]
    BY <1>2, <1>3, <1>4, <1>6, <1>8, <1>9, SeqGrows
  <1>11. TypeOK'
    BY <1>0, <1>6, <1>7, <1>8, <1>9 DEF TypeOK, PerBufferIn
  <1>12. ReceiverInv(p)'
    <2>1. CallInv(p)'
      BY <1>0, <1>1, <1>6, <1>7, <1>8 DEF ReceiverInv, CallInv, CheckBuffer, Holding, Delivering, Typing
    <2>2. ReadInv(p)'
      BY <1>2, <1>3, <1>6, <1>7, <1>8, <1>10 DEF ReadInv, Delivering
    <2>3. HandedInv(p)'
      BY <1>0, <1>1, <1>6, <1>7, <1>8 DEF ReceiverInv, HandedInv, NoInits, Delivering, Typing
    <2>. QED  BY <2>1, <2>2, <2>3 DEF ReceiverInv
  <1>13. \A q \in Receivers \ {p} : Rests(q)
    BY <1>6, <1>7, <1>9 DEF Rests
  <1>. QED  BY <1>1, <1>3, <1>5, <1>6, <1>11, <1>12, <1>13, PositionKeeps

-----------------------------------------------------------------------------
(* The broadcasts handed on, and the end of a call *)

LEMMA ReturnKeeps ==
    ASSUME Inv, NEW p \in Receivers, Return(p)
    PROVE  Inv'
  <1>0. TypeOK /\ EventInv /\ ReceiverInv(p)
    BY DEF Inv, EventInv
  <1>1. call[p] = "done" /\ call[p] \in Holding /\ call[p] \in Delivering /\ Goto(p, "release")
    BY DEF Return, At, Holding, Delivering
  <1>2. UNCHANGED <<segmentVars, endOfData, current_read_buffer_, current_data_source_,
                    initialized_, last_seen_id_, attached, types, header, output>>
    BY DEF Return
  <1>3. call'[p] = "release" /\ call' \in [Receivers -> Points] /\ \A q \in Receivers \ {p} : call'[q] = call[q]
    BY <1>1, Gone DEF Return, Points
  <1>4. header[p] = Event(p) /\ header[p] \in Nat /\ handed[p] \in Seq(Nat)
    BY <1>0, <1>1 DEF ReceiverInv, ReadInv, TypeOK
  <1>5. /\ handed' \in [Receivers -> Seq(Nat)] /\ \A q \in Receivers \ {p} : handed'[q] = handed[q]
        /\ handed'[p] = IF source(p) = "data" THEN handed[p] ELSE Append(handed[p], header[p])
    <2>1. Append(handed[p], header[p]) \in Seq(Nat)
      BY <1>4
    <2>. QED  BY <1>0, <2>1 DEF Return, TypeOK
  <1>6. TypeOK'
    BY <1>0, <1>2, <1>3, <1>5 DEF TypeOK, segmentVars
  <1>7. Event(p)' = Event(p) /\ Pos(p)' = Pos(p) /\ source(p)' = source(p) /\ buffer(p)' = buffer(p) /\ CheckBuffer(p)' = CheckBuffer(p)
    BY <1>2 DEF Event, Pos, source, buffer, CheckBuffer, segmentVars
  <1>8. CallInv(p)'
    BY <1>0, <1>1, <1>2, <1>3, <1>7 DEF ReceiverInv, CallInv, Holding, Delivering, Typing
  <1>9. ReadInv(p)'
    BY <1>0, <1>1, <1>2, <1>3, <1>7 DEF ReceiverInv, ReadInv, Delivering
  <1>10. HandedInv(p)'
    <2>1. HandedInv(p) /\ last_seen_id_'[p] = last_seen_id_[p] /\ initialized_'[p] = initialized_[p]
          /\ last_seen_id_[p] \in Nat
          /\ call'[p] \notin Delivering /\ call'[p] \notin Typing
      BY <1>0, <1>2, <1>3 DEF ReceiverInv, Delivering, Typing, TypeOK
    <2>2. CASE source(p) = "data"
      BY <1>5, <2>1, <2>2 DEF HandedInv, NoInits
    <2>3. CASE source(p) # "data"
      <3>1. source(p) = "broadcasts"
        BY <1>1, <2>3, Holds DEF Segments
      <3>2. /\ header[p] = last_seen_id_[p]
            /\ \A i \in DOMAIN handed[p] : handed[p][i] < last_seen_id_[p]
            /\ header[p] \in Inits => initialized_[p] /\ NoInits(p)
        BY <1>1, <1>4, <2>1, <3>1 DEF HandedInv
      <3>. DEFINE n == Len(handed[p])
      <3>3. /\ n \in Nat /\ DOMAIN handed[p] = 1 .. n /\ DOMAIN handed'[p] = 1 .. (n + 1)
            /\ handed'[p][n + 1] = header[p]
            /\ \A i \in 1 .. n : handed'[p][i] = handed[p][i] /\ handed[p][i] \in Nat
        BY <1>4, <1>5, <2>3
      <3>. HIDE DEF n
      <3>4. \A i \in DOMAIN handed'[p] : i = n + 1 \/ i \in DOMAIN handed[p]
        BY <3>3
      <3>5. \A i \in DOMAIN handed'[p] : handed'[p][i] <= last_seen_id_'[p]
        BY <1>4, <2>1, <3>2, <3>3, <3>4
      <3>6. \A i, j \in DOMAIN handed'[p] : i < j => handed'[p][i] < handed'[p][j]
        <4>1. \A i, j \in 1 .. n : i < j => handed[p][i] < handed[p][j]
          BY <2>1, <3>3 DEF HandedInv
        <4>. QED  BY <3>2, <3>3, <3>4, <4>1
      <3>7. \A i, j \in DOMAIN handed'[p] : handed'[p][i] \in Inits /\ handed'[p][j] \in Inits => i = j
        <4>1. \A i, j \in DOMAIN handed[p] : handed[p][i] \in Inits /\ handed[p][j] \in Inits => i = j
          BY <2>1 DEF HandedInv
        <4>. QED  BY <3>2, <3>3, <3>4, <4>1 DEF NoInits
      <3>8. ~initialized_'[p] => NoInits(p)'
        <4>1. ~initialized_[p] => NoInits(p)
          BY <2>1 DEF HandedInv
        <4>. QED  BY <2>1, <3>2, <3>3, <3>4, <4>1 DEF NoInits
      <3>. QED  BY <2>1, <3>5, <3>6, <3>7, <3>8 DEF HandedInv
    <2>. QED  BY <2>2, <2>3
  <1>11. \A q \in Receivers \ {p} : Rests(q)
    BY <1>2, <1>3, <1>5 DEF Rests
  <1>. QED  BY <1>2, <1>6, <1>7, <1>8, <1>9, <1>10, <1>11, NothingTouched DEF ReceiverInv

\* ReleaseBuffer gives back the buffer that the receiver has.
LEMMA ReleaseBufferKeeps ==
    ASSUME Inv, NEW p \in Receivers, call[p] \in Holding, ReleaseBuffer(p), UNCHANGED endOfData,
           NEW next \in {"broadcasts", "none"}, Goto(p, next),
           UNCHANGED <<initialized_, last_seen_id_, attached, handed>>,
           types' \in [Receivers -> SUBSET Nat], header' \in [Receivers -> Nat], output' \in [Receivers -> Seq(Nat)],
           \A q \in Receivers \ {p} : types'[q] = types[q] /\ header'[q] = header[q] /\ output'[q] = output[q]
    PROVE  Inv'
  <1>0. TypeOK /\ EventInv
    BY DEF Inv
  <1>1. PICK s \in Segments, b \in Buffers[source(p)] : s = source(p) /\ b = buffer(p)
    BY Holds
  <1>2. /\ CheckBuffer(p) /\ sem[s][b] = "Reading" /\ sem_id[s][b] = p /\ writePos[s][b] = NumFragments + 1
        /\ \A i \in Parts : memory[s][b][i] = sequence_id[s][b]
        /\ sequence_id[s][b] <= events[s]
    BY <1>1, Holds DEF Event
  <1>. DEFINE w == IF s = "data" THEN 0 ELSE writePos[s][b]
  <1>3. /\ sem' = [sem EXCEPT ![s][b] = ReleasedTo(s)]
        /\ sem_id' = [sem_id EXCEPT ![s][b] = Nobody]
        /\ readPos' = [readPos EXCEPT ![s][b] = 0]
        /\ writePos' = [writePos EXCEPT ![s][b] = w]
        /\ UNCHANGED <<sequence_id, memory, writing, events>> /\ Forget(p)
    BY <1>1, <1>2 DEF ReleaseBuffer
  <1>4. /\ PerBufferIn(sem, {"Empty", "Writing", "Full", "Reading"}) /\ ReleasedTo(s) \in {"Empty", "Writing", "Full", "Reading"}
        /\ PerBufferIn(sem_id, Receivers \cup {Nobody, Writer})
        /\ PerBufferIn(readPos, 0 .. (NumFragments + 1)) /\ 0 \in 0 .. (NumFragments + 1)
        /\ PerBufferIn(writePos, 0 .. (NumFragments + 1)) /\ NumFragments + 1 \in 0 .. (NumFragments + 1)
    BY <1>0, EventsAssumption DEF TypeOK, ReleasedTo
  <1>41. w \in 0 .. (NumFragments + 1)
    BY <1>2, <1>4
  <1>. HIDE DEF w
  <1>5. /\ PerBufferIn(sem', {"Empty", "Writing", "Full", "Reading"}) /\ sem'[s][b] = ReleasedTo(s)
        /\ \A t \in Segments : \A c \in Buffers[t] : t # s \/ c # b => sem'[t][c] = sem[t][c]
    BY <1>1, <1>3, <1>4, Put DEF PerBufferIn
  <1>6. /\ PerBufferIn(sem_id', Receivers \cup {Nobody, Writer})
        /\ \A t \in Segments : \A c \in Buffers[t] : t # s \/ c # b => sem_id'[t][c] = sem_id[t][c]
    BY <1>1, <1>3, <1>4, Put DEF PerBufferIn
  <1>7. /\ PerBufferIn(readPos', 0 .. (NumFragments + 1))
        /\ \A t \in Segments : \A c \in Buffers[t] : t # s \/ c # b => readPos'[t][c] = readPos[t][c]
    BY <1>1, <1>3, <1>4, Put DEF PerBufferIn
  <1>8. /\ PerBufferIn(writePos', 0 .. (NumFragments + 1)) /\ writePos'[s][b] = w
        /\ \A t \in Segments : \A c \in Buffers[t] : t # s \/ c # b => writePos'[t][c] = writePos[t][c]
    BY <1>1, <1>3, <1>4, <1>41, Put DEF PerBufferIn
  <1>9. call'[p] = next /\ call' \in [Receivers -> Points] /\ \A q \in Receivers \ {p} : call'[q] = call[q]
    BY <1>0 DEF Goto, TypeOK, Points
  <1>10. /\ current_read_buffer_'[p] = NoBuffer
         /\ current_read_buffer_' \in [Receivers -> (UNION {Buffers[r] : r \in Segments}) \cup {NoBuffer}]
         /\ current_data_source_' \in [Receivers -> Segments \cup {"none"}]
         /\ \A q \in Receivers \ {p} : current_read_buffer_'[q] = current_read_buffer_[q]
                                       /\ current_data_source_'[q] = current_data_source_[q]
    BY <1>0, <1>3 DEF Forget, TypeOK
  <1>11. TypeOK'
    BY <1>0, <1>3, <1>5, <1>6, <1>7, <1>8, <1>9, <1>10 DEF TypeOK, PerBufferIn
  <1>12. ReceiverInv(p)'
    BY <1>9, <1>10, WithoutBuffer DEF Holding, Delivering, Typing
  <1>13. Touches(s, b)
    BY <1>3, <1>5, <1>6, <1>7, <1>8 DEF Touches, Keeps
  <1>14. BufferInv(s, b)'
    <2>1. sem'[s][b] = "Full" => writePos'[s][b] = NumFragments + 1
      BY <1>2, <1>5, <1>8 DEF w, ReleasedTo
    <2>2. sem'[s][b] \in {"Empty", "Full"}
      BY <1>5 DEF ReleasedTo
    <2>. QED  BY <1>2, <1>3, <2>1, <2>2 DEF BufferInv
  <1>15. \A q \in Receivers \ {p} : Rests(q)
    BY <1>9, <1>10 DEF Rests
  <1>. QED  BY <1>1, <1>2, <1>3, <1>11, <1>12, <1>13, <1>14, <1>15, ReceiverTouches

LEMMA ReleaseKeeps ==
    ASSUME Inv, NEW p \in Receivers, Release(p)
    PROVE  Inv'
  <1>1. call[p] \in Holding
    BY DEF Release, At, Holding
  <1>2. /\ header' \in [Receivers -> Nat] /\ output' \in [Receivers -> Seq(Nat)] /\ types' \in [Receivers -> SUBSET Nat]
        /\ \A q \in Receivers \ {p} : types'[q] = types[q] /\ header'[q] = header[q] /\ output'[q] = output[q]
    BY DEF Release, Inv, TypeOK
  <1>. QED  BY <1>1, <1>2, ReleaseBufferKeeps DEF Release

LEMMA DecideInitKeeps ==
    ASSUME Inv, NEW p \in Receivers, DecideInit(p)
    PROVE  Inv'
  <1>0. TypeOK /\ EventInv /\ ReceiverInv(p)
    BY DEF Inv, EventInv
  <1>1. call[p] = "decide" /\ call[p] \in Holding /\ call[p] \in Typing
    BY DEF DecideInit, At, Holding, Typing
  <1>2. types' \in [Receivers -> SUBSET Nat] /\ \A q \in Receivers \ {p} : types'[q] = types[q]
    BY <1>0 DEF DecideInit, TypeOK
  <1>3. CASE types[p] \cap Inits # {} /\ initialized_[p]
    <2>1. /\ ReleaseBuffer(p) /\ Goto(p, "broadcasts") /\ UNCHANGED endOfData
          /\ UNCHANGED <<initialized_, last_seen_id_, attached, handed, header, output>>
      BY <1>3 DEF DecideInit
    <2>2. header' \in [Receivers -> Nat] /\ output' \in [Receivers -> Seq(Nat)]
      BY <1>0, <2>1 DEF TypeOK
    <2>. QED  BY <1>1, <1>2, <2>1, <2>2, ReleaseBufferKeeps
  <1>4. CASE ~(types[p] \cap Inits # {} /\ initialized_[p])
    <2>1. /\ initialized_' = [initialized_ EXCEPT ![p] = @ \/ Initialized(p)] /\ Goto(p, "true")
          /\ UNCHANGED <<segmentVars, current_read_buffer_, current_data_source_,
                         endOfData, last_seen_id_, attached, header, output, handed>>
      BY <1>4 DEF DecideInit
    <2>2. types[p] = {Event(p)} /\ source(p) = "broadcasts"
      <3>1. Pos(p) = NumFragments + 1 /\ types[p] = (IF Pos(p) > 1 THEN {Event(p)} ELSE {}) /\ source(p) = "broadcasts"
        BY <1>0, <1>1 DEF ReceiverInv, ReadInv, CallInv
      <3>. QED  BY <3>1, EventsAssumption
    <2>3. /\ initialized_' \in [Receivers -> BOOLEAN] /\ \A q \in Receivers \ {p} : initialized_'[q] = initialized_[q]
          /\ initialized_'[p] <=> (initialized_[p] \/ Event(p) \in Inits)
      BY <1>0, <2>1, <2>2, Zenon DEF TypeOK, Initialized
    <2>4. call'[p] = "true" /\ call' \in [Receivers -> Points] /\ \A q \in Receivers \ {p} : call'[q] = call[q]
      BY <2>1, Gone DEF DecideInit, Points
    <2>5. TypeOK'
      BY <1>0, <1>2, <2>1, <2>3, <2>4 DEF TypeOK, segmentVars
    <2>6. Event(p)' = Event(p) /\ source(p)' = source(p) /\ buffer(p)' = buffer(p) /\ CheckBuffer(p)' = CheckBuffer(p)
      BY <2>1 DEF Event, source, buffer, CheckBuffer, segmentVars
    <2>7. CallInv(p)'
      BY <1>0, <1>1, <2>1, <2>4, <2>6 DEF ReceiverInv, CallInv, Holding, Delivering, Typing
    <2>8. ReadInv(p)'
      BY <2>4 DEF ReadInv, Delivering
    <2>9. HandedInv(p)'
      <3>1. HandedInv(p)
        BY <1>0 DEF ReceiverInv
      <3>2. Event(p) \in Inits => ~initialized_[p]
        BY <1>4, <2>2
      <3>. QED  BY <1>1, <2>1, <2>2, <2>3, <2>4, <2>6, <3>1, <3>2 DEF HandedInv, NoInits
    <2>10. \A q \in Receivers \ {p} : Rests(q)
      BY <1>2, <2>1, <2>3, <2>4 DEF Rests
    <2>. QED  BY <2>1, <2>5, <2>6, <2>7, <2>8, <2>9, <2>10, NothingTouched DEF ReceiverInv
  <1>. QED  BY <1>3, <1>4

-----------------------------------------------------------------------------
(* The theorems *)

LEMMA NextKeeps == ASSUME NothingOverwritten PROVE Inv /\ [Next]_vars => Inv'
  <1>. SUFFICES ASSUME Inv, [Next]_vars PROVE Inv'
    OBVIOUS
  <1>1. ASSUME NEW s \in Segments, WriterStep(s) PROVE Inv'
    BY <1>1, TakeBufferKeeps, ClearBufferKeeps, WritePartKeeps, MarkBufferFullKeeps DEF WriterStep
  <1>2. ASSUME NEW p \in Receivers, Step(p) PROVE Inv'
    <2>1. CASE ReadyForRead(p) \/ (\E s \in Segments : TestSegment(p, s)) \/ GetNothing(p) \/ Nothing(p)
      BY <2>1, SearchKeeps
    <2>2. CASE GetBuffer(p) \/ DecideInit(p) \/ Return(p) \/ Release(p)
      BY <2>2, GetBufferKeeps, DecideInitKeeps, ReturnKeeps, ReleaseKeeps
    <2>3. CASE GetFragmentTypes(p) \/ MoreTypes(p) \/ NextType(p)
      BY <2>3, GetFragmentTypesKeeps, MoreTypesKeeps, NextTypeKeeps
    <2>4. CASE ReadHeader(p) \/ UseHeader(p) \/ GetFragmentsByType(p)
      BY <2>4, ReadHeaderKeeps, UseHeaderKeeps, GetFragmentsByTypeKeeps
    <2>5. CASE MoreFragments(p) \/ Read(p) \/ ReadEnd(p)
      BY <2>5, MoreFragmentsKeeps, ReadKeeps, ReadEndKeeps
    <2>. QED  BY <1>2, <2>1, <2>2, <2>3, <2>4, <2>5 DEF Step
  <1>3. CASE RemoveSegments \/ UNCHANGED vars
    <2>1. UNCHANGED <<segmentVars, receiverVars>> /\ endOfData' \in BOOLEAN
      BY <1>3 DEF RemoveSegments, vars, Inv, TypeOK
    <2>2. TypeOK'
      BY <2>1 DEF Inv, TypeOK, segmentVars, receiverVars
    <2>3. ASSUME NEW p \in Receivers PROVE ReceiverInv(p)'
      BY <2>1, ReceiverKept DEF Rests, Keeps, segmentVars, receiverVars
    <2>4. ASSUME NEW s \in Segments PROVE WriterInv(s)' /\ \A b \in Buffers[s] : BufferInv(s, b)'
      BY <2>1 DEF Inv, EventInv, WriterInv, BufferInv, source, buffer, segmentVars, receiverVars
    <2>. QED  BY <2>2, <2>3, <2>4 DEF Inv, EventInv
  <1>. QED  BY <1>1, <1>2, <1>3 DEF Next

\* Every call of a receiver and every step of a writer keeps the invariant: a
\* buffer that ReadyForRead found stays the receiver's until it releases it.
THEOREM EventInvariant == ASSUME NothingOverwritten PROVE Spec => []Inv
  BY InitInv, NextKeeps, PTL DEF Spec

\* The receivers' and the segments' state has its types; no read or write position
\* passes the end of the event in its buffer.
THEOREM TypeCorrect == ASSUME NothingOverwritten PROVE Spec => []TypeOK
  <1>1. Inv => TypeOK
    BY DEF Inv
  <1>. QED  BY <1>1, EventInvariant, PTL

\* A Reading buffer is the current buffer of its receiver: no path through
\* ReadyForRead, the Init fragments and the error returns leaves one behind.
THEOREM NothingIsForgotten == ASSUME NothingOverwritten PROVE Spec => []NothingForgotten
  <1>1. Inv => NothingForgotten
    BY DEF Inv, EventInv, BufferInv, NothingForgotten
  <1>. QED  BY <1>1, EventInvariant, PTL

\* GetFragmentsByType returns without an error all the fragments of the event
\* whose header the client read, and no others.
THEOREM FragmentsAreOfEvent == ASSUME NothingOverwritten PROVE Spec => []FragmentsOfEvent
  <1>1. ASSUME Inv, NEW p \in Receivers, At(p, "done") PROVE output[p] = [i \in Fragments |-> header[p]]
    <2>1. Pos(p) = NumFragments + 1 /\ output[p] = [i \in 1 .. (Pos(p) - 1) |-> header[p]]
      BY <1>1 DEF Inv, EventInv, ReceiverInv, ReadInv, At
    <2>2. 1 .. (Pos(p) - 1) = Fragments
      BY <2>1, EventsAssumption DEF Fragments
    <2>. QED  BY <2>1, <2>2
  <1>2. Inv => FragmentsOfEvent
    BY <1>1 DEF FragmentsOfEvent
  <1>. QED  BY <1>2, EventInvariant, PTL

\* Over a receiver's whole life its client gets one Init event, and the
\* broadcasts in the order in which they were sent.
THEOREM OneInit == ASSUME NothingOverwritten PROVE Spec => []InitOnce
  <1>1. ASSUME Inv, NEW p \in Receivers
        PROVE  Cardinality({i \in DOMAIN handed[p] : handed[p][i] \in Inits}) <= 1
    <2>. DEFINE inits == {i \in DOMAIN handed[p] : handed[p][i] \in Inits}
    <2>1. \A i, j \in inits : i = j
      BY <1>1 DEF Inv, EventInv, ReceiverInv, HandedInv
    <2>2. CASE inits = {}
      BY <2>2, FS_EmptySet
    <2>3. CASE inits # {}
      <3>1. PICK i : inits = {i}
        BY <2>1, <2>3
      <3>2. Cardinality({i}) = 1
        BY FS_Singleton
      <3>. QED  BY <3>1, <3>2
    <2>. QED  BY <2>2, <2>3
  <1>2. ASSUME Inv, NEW p \in Receivers, NEW i \in DOMAIN handed[p], NEW j \in DOMAIN handed[p], i < j
        PROVE  handed[p][i] < handed[p][j]
    BY <1>2 DEF Inv, EventInv, ReceiverInv, HandedInv
  <1>3. Inv => InitOnce
    BY <1>1, <1>2 DEF InitOnce
  <1>. QED  BY <1>3, EventInvariant, PTL
===============================================================================
