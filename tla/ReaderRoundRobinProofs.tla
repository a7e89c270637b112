------------------------- MODULE ReaderRoundRobinProofs -------------------------
(***************************************************************************)
(* Proofs about ReaderRoundRobin, for every number of buffers and events:  *)
(* its variables have their types, whatever readers there are; and two     *)
(* readers that stay take the events in turn.                              *)
(***************************************************************************)
EXTENDS ReaderRoundRobin, FiniteSetTheorems, TLAPS

-----------------------------------------------------------------------------
(* Types *)

Registered == {p \in Readers : registered_reader_[p]}
TypeInv == TypeOK /\ reader_count = Cardinality(Registered)

LEMMA InitTypes == Init => TypeInv
<1> SUFFICES ASSUME Init PROVE TypeInv
  OBVIOUS
<1>1. TypeOK
  <2>1. 0 \in 0 .. Cardinality(Readers)
    BY ReadersAssumption, FS_CardinalityType
  <2>2. 0 \in Buffers /\ 0 \in 0 .. MaxEvents /\ 0 \in 0 .. MaxTimeouts
    BY NumbersAssumption DEF Buffers
  <2> QED BY <2>1, <2>2 DEF Init, TypeOK
<1>2. Registered = {}
  BY DEF Init, Registered
<1>3. Cardinality(Registered) = 0
  BY <1>2, FS_EmptySet
<1> QED BY <1>1, <1>3 DEF Init, TypeInv

\* A reader that registers is counted.
LEMMA RegisterCounts ==
    ASSUME TypeInv, NEW p \in Readers, Register(p)
    PROVE  /\ reader_count' = Cardinality(Registered')
           /\ registered_reader_' \in [Readers -> BOOLEAN]
           /\ reader_count' \in 0 .. Cardinality(Readers)
<1>1. registered_reader_' \in [Readers -> BOOLEAN]
  BY DEF TypeInv, TypeOK, Register
<1>2. Registered' = Registered \cup {p}
  BY DEF TypeInv, TypeOK, Register, Registered
<1>3. IsFiniteSet(Registered) /\ Registered' \subseteq Readers
  BY <1>1, ReadersAssumption, FS_Subset DEF Registered
<1>4. p \in Registered <=> registered_reader_[p]
  BY DEF Registered
<1>5. reader_count' = Cardinality(Registered')
  BY <1>2, <1>3, <1>4, FS_AddElement DEF TypeInv, Register, CountWith
<1>6. Cardinality(Registered') \in 0 .. Cardinality(Readers)
  BY <1>3, ReadersAssumption, FS_Subset, FS_CardinalityType
<1> QED BY <1>1, <1>5, <1>6

LEMMA DetachTypes ==
    ASSUME TypeInv, NEW p \in Readers, Detach(p)
    PROVE  TypeInv'
<1>1. /\ registered_reader_' \in [Readers -> BOOLEAN]
      /\ shm_ptr_' \in [Readers -> BOOLEAN]
      /\ held' \in [Readers -> Buffers \cup {NoBuffer}]
  BY DEF TypeInv, TypeOK, Detach
<1>2. /\ sem' \in [Buffers -> {"Empty", "Full", "Reading"}]
      /\ sem_id' \in [Buffers -> Readers \cup {Nobody}]
  BY DEF TypeInv, TypeOK, Detach, GivenBack
<1>3. reader_count' = Cardinality(Registered')
  <2>1. Registered' = Registered \ {p}
    BY DEF TypeInv, TypeOK, Detach, Registered
  <2>2. IsFiniteSet(Registered)
    BY ReadersAssumption, FS_Subset DEF Registered
  <2>3. p \in Registered <=> registered_reader_[p]
    BY DEF Registered
  <2> QED BY <2>1, <2>2, <2>3, FS_RemoveElement DEF TypeInv, Detach, CountWithout
<1>4. reader_count' \in 0 .. Cardinality(Readers)
  <2>1. Registered' \subseteq Readers
    BY <1>1 DEF Registered
  <2> QED BY <1>3, <2>1, ReadersAssumption, FS_Subset, FS_CardinalityType
<1> QED BY <1>1, <1>2, <1>3, <1>4 DEF TypeInv, TypeOK, Detach

LEMMA StepTypes == TypeInv /\ [Next]_vars => TypeInv'
<1> SUFFICES ASSUME TypeInv, [Next]_vars PROVE TypeInv'
  OBVIOUS
<1>1. CASE Publish
  BY <1>1, NumbersAssumption
     DEF Publish, SetBuffer, TypeInv, TypeOK, Registered, Buffers, counts, readers
<1>2. ASSUME NEW b \in Buffers, ResetBuffer(b) PROVE TypeInv'
  <2>1. timeouts' \in 0 .. MaxTimeouts
    BY <1>2, NumbersAssumption DEF ResetBuffer, TypeInv, TypeOK
  <2> QED BY <1>2, <2>1 DEF ResetBuffer, SetBuffer, TypeInv, TypeOK, Registered, counts
<1>3. ASSUME NEW p \in Readers, GetBufferForReading(p) PROVE TypeInv'
  <2>1. PICK b \in Buffers : GetBufferForReading(p)!(b)
    BY <1>3 DEF GetBufferForReading
  <2>2. reader_pos' \in Buffers
    BY <2>1, NumbersAssumption DEF Buffers
  <2> QED BY <2>1, <2>2, RegisterCounts DEF SetBuffer, TypeInv, TypeOK
<1>4. ASSUME NEW p \in Readers, NoBufferForReading(p) PROVE TypeInv'
  BY <1>4, RegisterCounts DEF NoBufferForReading, TypeInv, TypeOK, segment
<1>5. ASSUME NEW p \in Readers, MarkBufferEmpty(p) PROVE TypeInv'
  <2>1. CASE sem[held[p]] = "Reading" /\ sem_id[held[p]] = p
    <3>1. /\ SetBuffer(held[p], "Empty", Nobody)
          /\ held' = [held EXCEPT ![p] = NoBuffer]
          /\ UNCHANGED <<sequence_id, reader_pos, writer_pos, next_sequence_id, counts,
                         last_seen_id_, registered_reader_, shm_ptr_, timeouts, stayed,
                         leftBehind>>
      BY <1>5, <2>1 DEF MarkBufferEmpty
    <3> QED BY <3>1 DEF SetBuffer, TypeInv, TypeOK, Registered, counts
  <2> QED BY <1>5, <2>1, DetachTypes DEF MarkBufferEmpty
<1>6. ASSUME NEW p \in Readers, Leave(p) PROVE TypeInv'
  BY <1>6, DetachTypes DEF Leave
<1>7. ASSUME NEW p \in Readers, Attach(p) PROVE TypeInv'
  BY <1>7, NumbersAssumption DEF Attach, TypeInv, TypeOK, Registered, segment
<1>8. CASE UNCHANGED vars
  BY <1>8 DEF vars, TypeInv, TypeOK, Registered
<1> QED BY <1>1, <1>2, <1>3, <1>4, <1>5, <1>6, <1>7, <1>8 DEF Next

\* reader_count is the number of the readers that registered, however they come and
\* go, and every variable has its type.
THEOREM TypeCorrect == Spec => [](TypeOK /\ reader_count = Cardinality(Registered))
<1> QED BY InitTypes, StepTypes, PTL DEF Spec, TypeInv

-----------------------------------------------------------------------------
(* Two readers *)

TwoReaders == \E p, q \in Readers : p # q /\ Readers = {p, q}

\* The events that are Full, or still to be written.
Untaken ==
    {s \in Nat : s > next_sequence_id \/ \E b \in Buffers : sem[b] = "Full" /\ sequence_id[b] = s}

SameTurn(s, t) == s % 2 = t % 2

\* What is left to take of U, to two readers whose last events are a and c.  A reader
\* has got its turn with its second event or a later one.
\* While nobody has a turn, the events are taken from the lowest on; once one has, the
\* other has all of the other turn's events from some u on to choose from; and then
\* each has the events of its own turn that come after its last.
Turns(U, a, c) ==
    /\ a < 2 /\ c < 2 => (a # 1 \/ c # 1) /\ \A s \in Nat : s \in U <=> s > a /\ s > c
    /\ a >= 2 /\ c < 2 => 
        \E u \in Nat :
            /\ c < u /\ u <= a + 1 /\ ~SameTurn(u, a)
            /\ \A s \in Nat :
                s \in U <=> (s > a /\ SameTurn(s, a)) \/ (s >= u /\ ~SameTurn(s, a))
    /\ a >= 2 /\ c >= 2 =>
        /\ ~SameTurn(a, c)
        /\ \A s \in Nat : (s > a /\ SameTurn(s, a)) \/ (s > c /\ SameTurn(s, c)) => s \in U

TurnsInv ==
    \A p, q \in Readers : p # q =>
        /\ Turns(Untaken, last_seen_id_[p], last_seen_id_[q])
        /\ ~registered_reader_[q] =>
            /\ last_seen_id_[q] = 0
            /\ \A s \in Nat : s \in Untaken <=> s > last_seen_id_[p]

\* While the readers stay.
StayedInv == stayed => \A p \in Readers : shm_ptr_[p]

\* No event is in two buffers, and what somebody has is Reading.
EventsInv ==
    /\ \A b \in Buffers : sem[b] # "Reading" => sem_id[b] = Nobody
    /\ \A b \in Buffers :
        sequence_id[b] <= next_sequence_id /\ (sem[b] # "Empty" => sequence_id[b] > 0)
    /\ \A b, c \in Buffers :
        sem[b] # "Empty" /\ sem[c] # "Empty" /\ sequence_id[b] = sequence_id[c] => b = c

RoundInv ==
    /\ TypeInv /\ EventsInv /\ StayedInv
    /\ stayed /\ ~leftBehind => TurnsInv


-----------------------------------------------------------------------------
(* What a reader may take *)

\* The scan of a reader whose last event is a: it ends with the oldest event that is
\* Full, unless the one that is next comes first; then with none that is later.
LEMMA ScannedIsOldest ==
    ASSUME TypeOK, EventsInv, NEW p \in Readers, NEW count \in Nat, NEW b \in Buffers,
           Scanned(p, count, b)
    PROVE  /\ sem[b] = "Full"
           /\ \A k \in Buffers : sem[k] = "Full" =>
                \/ sequence_id[b] <= sequence_id[k]
                \/ sequence_id[b] <= last_seen_id_[p] + count
<1> DEFINE Before(k, i) == (k - reader_pos) % NumBuffers < (i - reader_pos) % NumBuffers
           full == {i \in Buffers : sem[i] = "Full"}
           Stops(i) == /\ IsNext(last_seen_id_[p], sequence_id[i], count)
                       /\ \A k \in full : Before(k, i) => sequence_id[k] > sequence_id[i]
           seen == {i \in full : \A k \in full : Before(k, i) => ~Stops(k)}
<1>1. b \in seen /\ \A i \in seen : sequence_id[b] <= sequence_id[i]
  BY DEF Scanned
<1>2. ASSUME NEW k \in full, k \notin seen PROVE sequence_id[b] <= last_seen_id_[p] + count
  <2>1. PICK j \in full : Stops(j)
    BY <1>2
  <2>2. j \in seen
    <3>1. SUFFICES ASSUME NEW i \in full, Before(i, j), Stops(i) PROVE FALSE
      OBVIOUS
    <3>2. sequence_id[i] = sequence_id[j]
      BY <2>1, <3>1 DEF IsNext
    <3>3. i = j
      BY <3>2 DEF EventsInv
    <3>4. (j - reader_pos) % NumBuffers \in Int
      BY NumbersAssumption DEF TypeOK, Buffers
    <3> QED BY <3>1, <3>3, <3>4
  <2> QED BY <1>1, <2>1, <2>2 DEF IsNext
<1> QED BY <1>1, <1>2

\* What two readers, both counted, make of what is left when one of them takes s.
\* In its turn it takes the next event of its turn; before, what it takes decides
\* whose turn is which.
LEMMA TakenInTurn ==
    ASSUME NEW U \in SUBSET Nat, NEW a \in Nat, NEW c \in Nat, NEW s \in U,
           Turns(U, a, c), Turns(U, c, a),
           \A t \in U : s <= t \/ s <= a + 2,
           a < 2 \/ s = a + 2 \/ s >= a + 4
    PROVE  /\ Turns(U \ {s}, s, c) /\ Turns(U \ {s}, c, s)
           /\ a >= 2 => s = a + 2
<1> DEFINE V == U \ {s}
<1>1. s \in Nat
  OBVIOUS
<1>2. CASE a >= 2 /\ c >= 2
  <2>1. ~SameTurn(a, c) /\ \A t \in Nat :
            (t > a /\ SameTurn(t, a)) \/ (t > c /\ SameTurn(t, c)) => t \in U
    BY <1>2 DEF Turns
  <2>2. s = a + 2
    <3>1. a + 2 \in Nat /\ SameTurn(a + 2, a)
      BY DEF SameTurn
    <3>2. a + 2 \in U
      BY <2>1, <3>1
    <3> QED BY <1>1, <1>2, <3>2
  <2>3. SameTurn(s, a) /\ ~SameTurn(s, c)
    BY <2>1, <2>2 DEF SameTurn
  <2>4. \A t \in Nat : (t > s /\ SameTurn(t, s)) \/ (t > c /\ SameTurn(t, c)) => t \in V
    BY <2>1, <2>2, <2>3 DEF SameTurn
  <2> QED BY <1>1, <1>2, <2>2, <2>3, <2>4 DEF Turns, SameTurn
<1>3. CASE a >= 2 /\ c < 2
  <2>1. PICK u \in Nat :
            /\ c < u /\ u <= a + 1 /\ ~SameTurn(u, a)
            /\ \A t \in Nat :
                t \in U <=> (t > a /\ SameTurn(t, a)) \/ (t >= u /\ ~SameTurn(t, a))
    BY <1>3 DEF Turns
  <2>2. s = a + 2
    <3>1. a + 2 \in Nat /\ SameTurn(a + 2, a)
      BY DEF SameTurn
    <3>2. a + 2 \in U
      BY <2>1, <3>1
    <3> QED BY <1>1, <1>3, <3>2
  <2>3. u <= s + 1 /\ ~SameTurn(u, s)
    BY <2>1, <2>2 DEF SameTurn
  <2>4. \A t \in Nat : t \in V <=> (t > s /\ SameTurn(t, s)) \/ (t >= u /\ ~SameTurn(t, s))
    BY <2>1, <2>2 DEF SameTurn
  <2> QED BY <1>1, <1>3, <2>1, <2>2, <2>3, <2>4 DEF Turns
<1>4. CASE a < 2 /\ c >= 2
  <2>1. PICK u \in Nat :
            /\ a < u /\ u <= c + 1 /\ ~SameTurn(u, c)
            /\ \A t \in Nat :
                t \in U <=> (t > c /\ SameTurn(t, c)) \/ (t >= u /\ ~SameTurn(t, c))
    BY <1>4 DEF Turns
  <2>2. s <= u \/ s <= a + 2
    BY <2>1
  <2>3. ~SameTurn(s, c) /\ s >= u
    <3>1. ~(s > c /\ SameTurn(s, c))
      BY <1>1, <1>4, <2>1, <2>2 DEF SameTurn
    <3> QED BY <1>1, <2>1, <3>1
  <2>4. CASE s >= 2
    <3>1. \A t \in Nat : (t > s /\ SameTurn(t, s)) \/ (t > c /\ SameTurn(t, c)) => t \in V
      BY <1>1, <2>1, <2>3 DEF SameTurn
    <3> QED BY <1>1, <1>4, <2>3, <2>4, <3>1 DEF Turns, SameTurn
  <2>5. CASE s < 2
    <3>1. s = 1 /\ u = 1
      BY <1>1, <2>1, <2>3, <2>5
    <3>2. 3 \in Nat /\ s < 3 /\ 3 <= c + 1 /\ ~SameTurn(3, c)
      BY <1>4, <2>3, <3>1 DEF SameTurn
    <3>3. \A t \in Nat : t \in V <=> (t > c /\ SameTurn(t, c)) \/ (t >= 3 /\ ~SameTurn(t, c))
      BY <2>1, <2>3, <3>1 DEF SameTurn
    <3> QED BY <1>4, <3>1, <3>2, <3>3 DEF Turns
  <2> QED BY <1>1, <1>4, <2>4, <2>5
<1>5. CASE a < 2 /\ c < 2
  <2>1. (a # 1 \/ c # 1) /\ \A t \in Nat : t \in U <=> t > a /\ t > c
    BY <1>5 DEF Turns
  <2>2. s > a /\ s > c /\ s <= 3
    <3>1. 2 \in U
      BY <1>5, <2>1
    <3> QED BY <1>1, <1>5, <2>1, <3>1
  <2>3. CASE s = 1
    <3>1. a = 0 /\ c = 0
      BY <2>2, <2>3
    <3>2. \A t \in Nat : t \in V <=> t > s /\ t > c
      BY <2>1, <2>3, <3>1
    <3> QED BY <2>3, <3>1, <3>2 DEF Turns
  <2>4. CASE s >= 2
    <3>1. \E u \in Nat :
            /\ c < u /\ u <= s + 1 /\ ~SameTurn(u, s)
            /\ \A t \in Nat : t \in V <=> (t > s /\ SameTurn(t, s)) \/ (t >= u /\ ~SameTurn(t, s))
      <4>1. CASE s = 2 /\ (a = 1 \/ c = 1)
        <5>1. 3 \in Nat /\ c < 3 /\ 3 <= s + 1 /\ ~SameTurn(3, s)
          BY <1>5, <4>1 DEF SameTurn
        <5>2. \A t \in Nat : t \in V <=> (t > s /\ SameTurn(t, s)) \/ (t >= 3 /\ ~SameTurn(t, s))
          BY <1>5, <2>1, <4>1 DEF SameTurn
        <5> QED BY <5>1, <5>2
      <4>2. CASE s = 2 /\ a = 0 /\ c = 0
        <5>1. 1 \in Nat /\ c < 1 /\ 1 <= s + 1 /\ ~SameTurn(1, s)
          BY <4>2 DEF SameTurn
        <5>2. \A t \in Nat : t \in V <=> (t > s /\ SameTurn(t, s)) \/ (t >= 1 /\ ~SameTurn(t, s))
          BY <2>1, <4>2 DEF SameTurn
        <5> QED BY <5>1, <5>2
      <4>3. CASE s = 3
        <5>1. 2 \in Nat /\ c < 2 /\ 2 <= s + 1 /\ ~SameTurn(2, s)
          BY <1>5, <4>3 DEF SameTurn
        <5>2. a = 1 /\ c = 0
          BY <1>1, <1>5, <2>1, <4>3
        <5>3. \A t \in Nat : t \in V <=> (t > s /\ SameTurn(t, s)) \/ (t >= 2 /\ ~SameTurn(t, s))
          BY <2>1, <4>3, <5>2 DEF SameTurn
        <5> QED BY <5>1, <5>3
      <4> QED BY <1>1, <1>5, <2>2, <2>4, <4>1, <4>2, <4>3
    <3> QED BY <1>5, <2>4, <3>1 DEF Turns
  <2> QED BY <1>1, <1>5, <2>2, <2>3, <2>4
<1> QED BY <1>2, <1>3, <1>4, <1>5

-----------------------------------------------------------------------------
(* The steps *)

LEMMA InitRound == Init => RoundInv
<1> SUFFICES ASSUME Init PROVE RoundInv
  OBVIOUS
<1>1. \A s \in Nat : s \in Untaken <=> s > 0
  BY DEF Init, Untaken
<1>2. TurnsInv
  BY <1>1 DEF Init, TurnsInv, Turns
<1> QED BY <1>2, InitTypes DEF Init, RoundInv, EventsInv, StayedInv

LEMMA StepEvents == TypeInv /\ EventsInv /\ [Next]_vars => EventsInv'
<1> SUFFICES ASSUME TypeInv, EventsInv, [Next]_vars PROVE EventsInv'
  OBVIOUS
<1> USE DEF TypeInv, TypeOK
<1>1. CASE Publish
  <2>1. PICK b \in Buffers :
            /\ sem[b] = "Empty" /\ SetBuffer(b, "Full", Nobody)
            /\ next_sequence_id' = next_sequence_id + 1
            /\ sequence_id' = [sequence_id EXCEPT ![b] = next_sequence_id']
    <3>1. PICK i \in Buffers : Publish!(i)
      BY <1>1 DEF Publish
    <3>2. (writer_pos + i) % NumBuffers \in Buffers
      BY <3>1, NumbersAssumption DEF Buffers
    <3> QED BY <3>1, <3>2
  <2>2. /\ sem'[b] = "Full" /\ sem_id'[b] = Nobody /\ sequence_id'[b] = next_sequence_id + 1
        /\ \A c \in Buffers \ {b} :
            sem'[c] = sem[c] /\ sem_id'[c] = sem_id[c] /\ sequence_id'[c] = sequence_id[c]
    BY <2>1 DEF SetBuffer
  <2>3. next_sequence_id \in Nat /\ \A c \in Buffers : sequence_id[c] \in Nat
    BY NumbersAssumption
  <2> QED BY <2>1, <2>2, <2>3 DEF EventsInv
<1>2. ASSUME NEW b \in Buffers, ResetBuffer(b) PROVE EventsInv'
  BY <1>2 DEF ResetBuffer, SetBuffer, EventsInv
<1>3. ASSUME NEW p \in Readers, GetBufferForReading(p) PROVE EventsInv'
  <2>1. PICK b \in Buffers : GetBufferForReading(p)!(b)
    BY <1>3 DEF GetBufferForReading
  <2>2. sem[b] = "Full"
    BY <2>1 DEF MayTake, Scanned
  <2> QED BY <2>1, <2>2 DEF SetBuffer, EventsInv
<1>4. ASSUME NEW p \in Readers, Detach(p) PROVE EventsInv'
  <2>1. p # Nobody
    BY ReadersAssumption
  <2> QED BY <1>4, <2>1 DEF Detach, GivenBack, EventsInv
<1>5. ASSUME NEW p \in Readers, MarkBufferEmpty(p) PROVE EventsInv'
  BY <1>4, <1>5 DEF MarkBufferEmpty, SetBuffer, EventsInv
<1>6. CASE UNCHANGED segment
  BY <1>6 DEF segment, EventsInv
<1> QED
  BY <1>1, <1>2, <1>3, <1>4, <1>5, <1>6
     DEF Next, Leave, NoBufferForReading, Attach, vars, segment

\* What is left changes only when a reader takes from it.
LEMMA UntakenStays ==
    ASSUME TypeInv, EventsInv, EventsInv',
           \/ Publish
           \/ UNCHANGED segment
           \/ \E p \in Readers : MarkBufferEmpty(p) /\ stayed'
    PROVE  Untaken' = Untaken
<1> USE DEF TypeInv, TypeOK
<1>1. CASE Publish
  <2>1. PICK b \in Buffers :
            /\ sem[b] = "Empty" /\ SetBuffer(b, "Full", Nobody)
            /\ next_sequence_id' = next_sequence_id + 1
            /\ sequence_id' = [sequence_id EXCEPT ![b] = next_sequence_id']
    <3>1. PICK i \in Buffers : Publish!(i)
      BY <1>1 DEF Publish
    <3>2. (writer_pos + i) % NumBuffers \in Buffers
      BY <3>1, NumbersAssumption DEF Buffers
    <3> QED BY <3>1, <3>2
  <2>2. /\ sem'[b] = "Full" /\ sequence_id'[b] = next_sequence_id + 1
        /\ \A c \in Buffers \ {b} : sem'[c] = sem[c] /\ sequence_id'[c] = sequence_id[c]
    BY <2>1 DEF SetBuffer
  <2>3. next_sequence_id \in Nat
    BY NumbersAssumption
  <2>4. ASSUME NEW s \in Nat PROVE s \in Untaken' <=> s \in Untaken
    BY <2>1, <2>2, <2>3 DEF Untaken
  <2> QED BY <2>4 DEF Untaken
<1>2. CASE UNCHANGED segment
  BY <1>2 DEF segment, Untaken
<1>3. ASSUME NEW p \in Readers, MarkBufferEmpty(p), stayed' PROVE Untaken' = Untaken
  <2>1. /\ held[p] \in Buffers
        /\ sem[held[p]] = "Reading" /\ SetBuffer(held[p], "Empty", Nobody)
        /\ UNCHANGED <<sequence_id, next_sequence_id>>
    BY <1>3 DEF MarkBufferEmpty, Detach
  <2>2. \A c \in Buffers : sem'[c] = "Full" <=> sem[c] = "Full"
    BY <2>1 DEF SetBuffer
  <2> QED BY <2>1, <2>2 DEF Untaken
<1> QED BY <1>1, <1>2, <1>3

LEMMA UntakenLosesTaken ==
    ASSUME TypeInv, EventsInv, NEW p \in Readers, NEW b \in Buffers, 
           sem[b] = "Full", SetBuffer(b, "Reading", p),
           UNCHANGED <<sequence_id, next_sequence_id>>
    PROVE  sequence_id[b] \in Untaken /\ Untaken' = Untaken \ {sequence_id[b]}
<1> USE DEF TypeInv, TypeOK
<1>1. sequence_id[b] \in Nat /\ next_sequence_id \in Nat /\ sequence_id[b] <= next_sequence_id
  BY NumbersAssumption DEF EventsInv
<1>2. sem'[b] = "Reading" /\ \A c \in Buffers \ {b} : sem'[c] = sem[c]
  BY DEF SetBuffer
<1>3. \A c \in Buffers \ {b} : sem[c] = "Full" => sequence_id[c] # sequence_id[b]
  BY DEF EventsInv
<1>4. ASSUME NEW s \in Nat PROVE s \in Untaken' <=> s \in Untaken /\ s # sequence_id[b]
  BY <1>1, <1>2, <1>3 DEF Untaken
<1> QED BY <1>1, <1>4 DEF Untaken

LEMMA CountOfTwo ==
    ASSUME TypeInv, NEW p \in Readers, NEW q \in Readers, p # q, Readers = {p, q}
    PROVE  reader_count = (IF registered_reader_[p] THEN 1 ELSE 0)
                          + (IF registered_reader_[q] THEN 1 ELSE 0)
<1>1. Registered = (IF registered_reader_[p] THEN {p} ELSE {})
                   \cup (IF registered_reader_[q] THEN {q} ELSE {})
  BY DEF Registered
<1>2. /\ Cardinality({}) = 0 /\ Cardinality({p}) = 1 /\ Cardinality({q}) = 1
      /\ Cardinality({p} \cup {q}) = 2
  <2>1. Cardinality({}) = 0
    BY FS_EmptySet
  <2>2. \A r : Cardinality({r}) = 1 /\ IsFiniteSet({r})
    BY FS_Singleton
  <2>3. Cardinality({p} \cup {q}) = 2
    <3>1. Cardinality({p} \cup {q}) = Cardinality({p}) + 1
      BY <2>2, FS_AddElement
    <3> QED BY <2>2, <3>1
  <2> QED BY <2>1, <2>2, <2>3
<1>3. CASE registered_reader_[p] /\ registered_reader_[q]
  BY <1>1, <1>2, <1>3 DEF TypeInv
<1>4. CASE ~registered_reader_[p] \/ ~registered_reader_[q]
  BY <1>1, <1>2, <1>4 DEF TypeInv
<1> QED BY <1>3, <1>4

\* A reader takes: both are counted, and it takes in its turn if it has one; or the
\* other did not come yet, and it takes the next event.
LEMMA TakeKeepsTurns ==
    ASSUME TypeInv, EventsInv, TurnsInv, stayed,
           NEW p \in Readers, NEW q \in Readers, p # q, Readers = {p, q},
           NEW b \in Buffers, GetBufferForReading(p)!(b), ~leftBehind'
    PROVE  /\ TurnsInv'
           /\ reader_count > 1 /\ last_seen_id_[p] >= reader_count =>
                last_seen_id_'[p] = last_seen_id_[p] + reader_count
<1> DEFINE a == last_seen_id_[p]
           c == last_seen_id_[q]
           s == sequence_id[b]
<1>1. a \in Nat /\ c \in Nat /\ s \in Nat /\ Untaken \in SUBSET Nat
  BY NumbersAssumption DEF TypeInv, TypeOK, Untaken
<1>2. /\ last_seen_id_'[p] = s /\ last_seen_id_'[q] = c
      /\ registered_reader_'[p] /\ registered_reader_'[q] = registered_reader_[q]
  BY DEF Register, TypeInv, TypeOK
<1>3. CountWith(p) = IF registered_reader_[q] THEN 2 ELSE 1
  BY CountOfTwo DEF CountWith, TypeInv, TypeOK
<1>4. /\ sem[b] = "Full" /\ s \in Untaken
      /\ \A t \in Untaken : s <= t \/ s <= a + CountWith(p)
  <2>1. Scanned(p, CountWith(p), b)
    BY DEF MayTake
  <2>2. /\ sem[b] = "Full"
        /\ \A k \in Buffers : sem[k] = "Full" => s <= sequence_id[k] \/ s <= a + CountWith(p)
    BY <1>3, <2>1, ScannedIsOldest DEF TypeInv
  <2>3. s <= next_sequence_id /\ next_sequence_id \in Nat
    BY NumbersAssumption DEF EventsInv, TypeInv, TypeOK
  <2> QED BY <1>1, <2>2, <2>3 DEF Untaken
<1>5. Untaken' = Untaken \ {s}
  BY <1>4, UntakenLosesTaken
<1>6. CASE registered_reader_[q]
  <2>1. a < 2 \/ s = a + 2 \/ s >= a + 4
    <3>1. ~Skips(a, s, 2) /\ ~LeftBehind(a, s, 2)
      BY <1>3, <1>6 DEF MayTake
    <3> HIDE DEF a, c, s
    <3> QED BY <1>1, <3>1 DEF Skips, IsNext, LeftBehind
  <2>2. Turns(Untaken, a, c) /\ Turns(Untaken, c, a)
    BY DEF TurnsInv
  <2>3. /\ Turns(Untaken \ {s}, s, c) /\ Turns(Untaken \ {s}, c, s)
        /\ a >= 2 => s = a + 2
    <3>1. \A t \in Untaken : s <= t \/ s <= a + 2
      BY <1>3, <1>4, <1>6
    <3> HIDE DEF a, c, s
    <3> QED BY <1>1, <1>4, <2>1, <2>2, <3>1, TakenInTurn
  <2>4. TurnsInv'
    <3>1. Turns(Untaken', last_seen_id_'[p], c) /\ Turns(Untaken', c, last_seen_id_'[p])
      BY <1>2, <1>5, <2>3
    <3> QED BY <1>2, <1>6, <3>1 DEF TurnsInv
  <2>5. reader_count > 1 => reader_count = 2
    BY CountOfTwo DEF TypeInv, TypeOK
  <2> QED BY <1>2, <2>3, <2>4, <2>5
<1>7. CASE ~registered_reader_[q]
  <2>1. c = 0 /\ \A t \in Nat : t \in Untaken <=> t > a
    BY <1>7 DEF TurnsInv
  <2>2. s = a + 1
    <3>1. a + 1 \in Untaken
      BY <1>1, <2>1
    <3> QED BY <1>1, <1>3, <1>4, <1>7, <2>1, <3>1
  <2>3. \A t \in Nat : t \in Untaken' <=> t > s
    BY <1>1, <1>5, <2>1, <2>2
  <2>4. Turns(Untaken', s, 0) /\ Turns(Untaken', 0, s)
    <3> HIDE DEF s
    <3>1. CASE s < 2
      BY <1>1, <2>3, <3>1 DEF Turns
    <3>2. CASE s >= 2
      <4>1. \A t \in Nat :
                t \in Untaken' <=> (t > s /\ SameTurn(t, s)) \/ (t >= s + 1 /\ ~SameTurn(t, s))
        BY <1>1, <2>3
      <4>2. s + 1 \in Nat /\ 0 < s + 1 /\ s + 1 <= s + 1 /\ ~SameTurn(s + 1, s)
        BY <1>1 DEF SameTurn
      <4> QED BY <1>1, <3>2, <4>1, <4>2 DEF Turns
    <3> QED BY <1>1, <3>1, <3>2
  <2>5. reader_count <= 1
    BY <1>7, CountOfTwo DEF TypeInv, TypeOK
  <2>6. TurnsInv'
    BY <1>2, <1>7, <2>1, <2>3, <2>4 DEF TurnsInv
  <2> QED BY <2>5, <2>6 DEF TypeInv, TypeOK
<1> QED BY <1>6, <1>7

LEMMA StepStayed == TypeInv /\ StayedInv /\ [Next]_vars => StayedInv' /\ (stayed' => stayed)
<1> SUFFICES ASSUME TypeInv, StayedInv, [Next]_vars PROVE StayedInv' /\ (stayed' => stayed)
  OBVIOUS
<1>1. ASSUME NEW p \in Readers, Detach(p) PROVE ~stayed'
  BY <1>1 DEF Detach
<1>2. ASSUME NEW b \in Buffers, ResetBuffer(b) PROVE ~stayed'
  BY <1>2 DEF ResetBuffer
<1>3. ASSUME NEW p \in Readers, Attach(p)
      PROVE  (\A q \in Readers : shm_ptr_[q] => shm_ptr_'[q]) /\ stayed' = stayed
  BY <1>3 DEF Attach, TypeInv, TypeOK
<1>4. CASE Publish
  BY <1>4 DEF Publish, StayedInv, readers
<1>5. ASSUME NEW p \in Readers, MarkBufferEmpty(p)
      PROVE  UNCHANGED <<shm_ptr_, stayed>> \/ ~stayed'
  BY <1>5, <1>1 DEF MarkBufferEmpty
<1>6. ASSUME NEW p \in Readers, GetBufferForReading(p) \/ NoBufferForReading(p)
      PROVE  UNCHANGED <<shm_ptr_, stayed>>
  BY <1>6 DEF GetBufferForReading, NoBufferForReading
<1>7. CASE UNCHANGED vars
  BY <1>7 DEF vars, StayedInv
<1> QED BY <1>1, <1>2, <1>3, <1>4, <1>5, <1>6, <1>7 DEF Next, Leave, StayedInv

InTurnStep ==
    \A p \in Readers :
        /\ stayed /\ ~leftBehind' /\ reader_count > 1 /\ last_seen_id_[p] >= reader_count
        /\ last_seen_id_'[p] # last_seen_id_[p]
        => last_seen_id_'[p] = last_seen_id_[p] + reader_count

LEMMA StepTurns ==
    ASSUME TwoReaders, RoundInv, [Next]_vars, stayed, ~leftBehind'
    PROVE  InTurnStep /\ (stayed' => TurnsInv')
<1>1. TypeInv /\ EventsInv /\ EventsInv'
  BY StepEvents DEF RoundInv
<1>2. ~leftBehind
  <2>1. ASSUME NEW p \in Readers, GetBufferForReading(p) PROVE ~leftBehind
    BY <2>1 DEF GetBufferForReading
  <2> QED
    BY <2>1 DEF Next, Publish, ResetBuffer, NoBufferForReading, MarkBufferEmpty, Leave, Detach,
                Attach, vars, readers
<1>3. TurnsInv
  BY <1>2 DEF RoundInv
<1>4. ASSUME UNCHANGED <<last_seen_id_, registered_reader_>>, Untaken' = Untaken
      PROVE  InTurnStep /\ TurnsInv'
  BY <1>3, <1>4 DEF InTurnStep, TurnsInv
<1>5. CASE Publish
  BY <1>1, <1>4, <1>5, UntakenStays DEF Publish, readers
<1>6. ASSUME NEW b \in Buffers, ResetBuffer(b) PROVE InTurnStep /\ ~stayed'
  BY <1>6 DEF ResetBuffer, InTurnStep
<1>7. ASSUME NEW p \in Readers, GetBufferForReading(p) PROVE InTurnStep /\ TurnsInv'
  <2>1. PICK q \in Readers : p # q /\ Readers = {p, q}
    BY DEF TwoReaders
  <2>2. PICK b \in Buffers : GetBufferForReading(p)!(b)
    BY <1>7 DEF GetBufferForReading
  <2>3. /\ TurnsInv'
        /\ reader_count > 1 /\ last_seen_id_[p] >= reader_count =>
             last_seen_id_'[p] = last_seen_id_[p] + reader_count
    BY <1>1, <1>3, <2>1, <2>2, TakeKeepsTurns
  <2>4. last_seen_id_'[q] = last_seen_id_[q]
    BY <1>1, <2>1, <2>2 DEF TypeInv, TypeOK
  <2> QED BY <2>1, <2>3, <2>4 DEF InTurnStep
<1>8. ASSUME NEW p \in Readers, NoBufferForReading(p) PROVE InTurnStep /\ TurnsInv'
  <2>1. Untaken' = Untaken
    BY <1>1, <1>8, UntakenStays DEF NoBufferForReading
  <2>2. \A q \in Readers : ~registered_reader_'[q] => ~registered_reader_[q]
    BY <1>1, <1>8 DEF NoBufferForReading, Register, TypeInv, TypeOK
  <2>3. last_seen_id_' = last_seen_id_
    BY <1>8 DEF NoBufferForReading
  <2> QED BY <1>3, <2>1, <2>2, <2>3 DEF InTurnStep, TurnsInv
<1>9. ASSUME NEW p \in Readers, MarkBufferEmpty(p) PROVE InTurnStep /\ (stayed' => TurnsInv')
  <2>1. last_seen_id_' = last_seen_id_
    BY <1>9 DEF MarkBufferEmpty, Detach
  <2>2. stayed' => registered_reader_' = registered_reader_ /\ Untaken' = Untaken
    BY <1>1, <1>9, UntakenStays DEF MarkBufferEmpty, Detach
  <2> QED BY <1>4, <2>1, <2>2 DEF InTurnStep
<1>10. ASSUME NEW p \in Readers, Leave(p) PROVE InTurnStep /\ ~stayed'
  BY <1>10 DEF Leave, Detach, InTurnStep
<1>11. ASSUME NEW p \in Readers, Attach(p) PROVE FALSE
  BY <1>11 DEF Attach, RoundInv, StayedInv
<1>12. CASE UNCHANGED vars
  <2>1. UNCHANGED segment
    BY <1>12 DEF vars, segment
  <2> QED BY <1>1, <1>4, <1>12, <2>1, UntakenStays DEF vars
<1> QED BY <1>5, <1>6, <1>7, <1>8, <1>9, <1>10, <1>11, <1>12 DEF Next

\* Two readers that stay take the events in turn: once a reader has got its second
\* event or a later one, it gets every other event from there on, however late the other
\* came, however slow it is, and however many buffers there are, until one of them is
\* a round ahead and takes what the other left behind.
THEOREM InTurnAlways == ASSUME TwoReaders PROVE Spec => InTurn
<1>1. Init => RoundInv
  BY InitRound
<1>2. RoundInv /\ [Next]_vars => RoundInv'
  <2> SUFFICES ASSUME RoundInv, [Next]_vars PROVE RoundInv'
    OBVIOUS
  <2>1. TypeInv' /\ EventsInv' /\ StayedInv' /\ (stayed' => stayed)
    BY StepTypes, StepEvents, StepStayed DEF RoundInv
  <2>2. stayed' /\ ~leftBehind' => TurnsInv'
    BY <2>1, StepTurns
  <2> QED BY <2>1, <2>2 DEF RoundInv
<1>3. RoundInv /\ [Next]_vars => InTurnStep
  <2> SUFFICES ASSUME RoundInv, [Next]_vars PROVE InTurnStep
    OBVIOUS
  <2>1. CASE stayed /\ ~leftBehind'
    BY <2>1, StepTurns
  <2>2. CASE ~stayed \/ leftBehind'
    BY <2>2 DEF InTurnStep
  <2> QED BY <2>1, <2>2
<1>4. RoundInv /\ [Next]_vars =>
        [\A p \in Readers :
            /\ stayed /\ ~leftBehind' /\ reader_count > 1 /\ last_seen_id_[p] >= reader_count
            /\ last_seen_id_'[p] # last_seen_id_[p]
            => last_seen_id_'[p] = last_seen_id_[p] + reader_count]_vars
  BY <1>3 DEF InTurnStep
<1> QED BY <1>1, <1>2, <1>4, PTL DEF Spec, InTurn

=============================================================================
