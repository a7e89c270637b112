------------------------------ MODULE Fragment ------------------------------
(* Data/Fragment.hh: one array of words that holds a header, metadata and  *)
(* a payload, and the program that builds fragments with its functions.    *)
(*                                                                         *)
(* A word is a model value but for the first of a header, which is a       *)
(* record.  Sequence id, fragment id and timestamp are one field, "id".    *)
(* Headers of version 0 and 1 are "old"; they are a word shorter than the  *)
(* current one, and fragmentHeaderPtr() keeps an upgraded copy of them.    *)
EXTENDS QuickVec, SequencesExt

CONSTANTS
    Slots,       \* the program's fragments
    Versions,    \* the header version each of them starts with
    UserTypes,   \* types it gives them
    Words,       \* the payload its fragments start with, or as much as they hold
    Data,        \* words of payload and metadata it writes later
    Stamp,       \* the header's words after the first
    MaxPayload,  \* no fragment is given more words of payload than this
    MaxOps,      \* the program calls so many functions
    MaxChanges,  \* so many of the first may be functions of fragments
    CopyOld      \* it copies old fragments it has changed, and swaps old
                 \* fragments whose header it has looked at

ASSUME FragmentAssumption ==
    /\ Words \in Seq(Range(Words))
    /\ Slots \subseteq 1 .. Len(Words)
    /\ Versions \in [Slots -> {"old", "current"}]
    /\ MaxPayload \in Nat
    /\ MaxOps \in Nat
    /\ MaxChanges \in 0 .. MaxOps
    /\ CopyOld \in BOOLEAN

VARIABLES
    frag,  \* the fragments
    want,  \* what each should contain, Junk where the program wrote nothing
    ops    \* calls made so far

-----------------------------------------------------------------------------
(* The functions of a fragment.                                            *)

\* num_words() of the header's version.
NumWords(version) == IF version = "old" THEN 1 ELSE 2

NoHeader == [version |-> "none"]

HeaderOf(version, type, id, words, metadata) ==
    [version |-> version, type |-> type, id |-> id,
     word_count |-> words, metadata_word_count |-> metadata]

\* RawFragmentHeaderV0::upgrade, RawFragmentHeaderV1::upgrade
Upgrade(h) == [h EXCEPT !.version = "current"]

RawHeader(f) == f.vals.mem[1]

\* *fragmentHeaderPtr()
Header(f) ==
    IF f.upgraded_header # NoHeader THEN f.upgraded_header
    ELSE IF RawHeader(f).version = "current" THEN RawHeader(f)
    ELSE Upgrade(RawHeader(f))

\* What fragmentHeaderPtr() leaves, in a reader too: the upgraded copy of an
\* old header is kept.
Accessed(f) ==
    IF RawHeader(f).version = "old" THEN [vals |-> f.vals, upgraded_header |-> Header(f)] ELSE f

\* A store through fragmentHeaderPtr(): to the words of a current header, to
\* the upgraded copy of an old one.
SetHeader(f, h) ==
    IF f.upgraded_header = NoHeader /\ RawHeader(f).version = "current"
    THEN [f EXCEPT !.vals.mem[1] = h]
    ELSE [f EXCEPT !.upgraded_header = h]

HeaderSizeWords(f) == NumWords(RawHeader(f).version)

\* dataBegin(), as an index into the words; dataSize()
DataBegin(f) == HeaderSizeWords(f) + Header(f).metadata_word_count
DataSize(f) == f.vals.size - DataBegin(f)

\* updateFragmentHeaderWC_()
UpdateWC(f) == SetHeader(f, [Header(f) EXCEPT !.word_count = f.vals.size])

\* memcpy of words to the array, from index at on.
WriteWords(f, at, words) ==
    [f EXCEPT !.vals.mem = [w \in DOMAIN @ |->
        IF w \in at + 1 .. at + Len(words) THEN words[w - at] ELSE @[w]]]

HeaderWords(h) == <<h>> \o [w \in 1 .. NumWords(h.version) - 1 |-> Stamp]

\* Fragment(n)
NewFragment(n) ==
    LET vec == NewVec(n + NumWords("current"))
        h   == HeaderOf("current", "Invalid", 0, vec.size, 0)
    IN  WriteWords([vals |-> vec, upgraded_header |-> NoHeader], 0, HeaderWords(h))

SetType(f, type) == SetHeader(f, [Header(f) EXCEPT !.type = type])
SetId(f, id) == SetHeader(f, [Header(f) EXCEPT !.id = id])

\* resize(sz) and resizeBytes; resize(sz, v); resizeBytesWithCushion
ResizeData(f, n) == UpdateWC([f EXCEPT !.vals = Resize(@, n + DataBegin(f))])
ResizeDataFilled(f, n, val) == UpdateWC([f EXCEPT !.vals = ResizeFilled(@, n + DataBegin(f), val)])
ResizeDataWithCushion(f, n) == UpdateWC([f EXCEPT !.vals = ResizeWithCushion(@, n + DataBegin(f))])

\* autoResize(): the size is what the header says.
AutoResize(f) == UpdateWC([f EXCEPT !.vals = Resize(@, Header(f).word_count)])

\* clear()
ClearData(f) == UpdateWC([f EXCEPT !.vals = Erase(@, DataBegin(f), f.vals.size)])

ReserveData(f, n) == [f EXCEPT !.vals = Reserve(@, n + DataBegin(f))]

HasMetadata(f) == Header(f).metadata_word_count # 0

\* setMetadata: words are inserted between header and payload.
SetMetadata(f, metadata) ==
    LET n        == Len(metadata)
        widened  == UpdateWC([f EXCEPT !.vals = Insert(@, DataBegin(f), n, 0)])
        declared == SetHeader(widened, [Header(widened) EXCEPT !.metadata_word_count = n])
    IN  WriteWords(declared, HeaderSizeWords(f), metadata)

\* updateMetadata, where the sizes agree.
UpdateMetadata(f, metadata) == WriteWords(f, HeaderSizeWords(f), metadata)

\* The template constructor.
NewWithMetadata(n, id, type, metadata) ==
    LET vec == NewVec(NumWords("current") + Len(metadata) + n)
        h   == HeaderOf("current", type, id, vec.size, vec.size - (NumWords("current") + n))
    IN  WriteWords([vals |-> vec, upgraded_header |-> NoHeader], 0, HeaderWords(h) \o metadata)

\* dataFrag(sequenceID, fragID, i, e), then setUserType.
DataFrag(type, id, words) ==
    LET empty == SetId(NewFragment(0), id)
        vec   == Reserve(empty.vals, Len(words) + NumWords("current"))
    IN  SetType(UpdateWC([empty EXCEPT !.vals = PushAll(vec, words)]), type)

\* A fragment whose words come from a buffer or a file: a new fragment of the
\* size, the words copied to headerAddress(), and autoResize().
Received(words) == AutoResize(WriteWords(NewFragment(Len(words) - NumWords("current")), 0, words))

\* Copy construction and assignment; the upgraded header is not copied.
CopyOf(f) == [vals |-> CopyVec(f.vals), upgraded_header |-> NoHeader]
AssignedTo(f, other) == [vals |-> AssignVec(f.vals, other.vals), upgraded_header |-> NoHeader]

\* What a move leaves behind.
Plundered(f) == [vals |-> MovedVec(f.vals), upgraded_header |-> NoHeader]

\* What a reader of the fragment sees.
Value(f) ==
    [type     |-> Header(f).type,
     id       |-> Header(f).id,
     metadata |-> SubSeq(f.vals.mem, HeaderSizeWords(f) + 1, DataBegin(f)),
     payload  |-> SubSeq(f.vals.mem, DataBegin(f) + 1, f.vals.size)]

\* The words at headerAddress() a fragment is sent or copied by.
SentWords(f) == SubSeq(f.vals.mem, 1, Header(f).word_count)

-----------------------------------------------------------------------------
(* The program: it makes fragments, changes, copies, moves and swaps them. *)

NoValue == [type |-> "none", id |-> 0, metadata |-> <<>>, payload |-> <<>>]
Held(i) == want[i] # NoValue

\* The header's words say what its functions say.
HeaderStored(f) == f.upgraded_header \in {NoHeader, Upgrade(RawHeader(f))}

OldWords(type, id, words) ==
    HeaderWords(HeaderOf("old", type, id, NumWords("old") + Len(words), 0)) \o words

OldSlots == {i \in Slots : Versions[i] = "old"}

\* Old fragments were received, or are copies of such that nobody has read.
FragmentInit ==
    /\ \E type \in [Slots -> UserTypes], copies \in SUBSET OldSlots :
          LET words(i) == SubSeq(Words, 1, i)
              received(i) == Received(OldWords(type[i], i, words(i)))
          IN  /\ frag = [i \in Slots |->
                    IF i \in copies THEN CopyOf(received(i))
                    ELSE IF i \in OldSlots THEN received(i)
                    ELSE DataFrag(type[i], i, words(i))]
              /\ want = [i \in Slots |->
                    [type |-> type[i], id |-> i, metadata |-> <<>>, payload |-> words(i)]]
    /\ ops = 0

Call == ops < MaxOps /\ ops' = ops + 1
FragmentCall == ops < MaxChanges /\ Call

\* A function of fragment i that leaves it as f, with contents v.  There is
\* none that does not look at the header.
Change(i, f, v) ==
    /\ FragmentCall
    /\ Held(i)
    /\ frag' = [frag EXCEPT ![i] = Accessed(f)]
    /\ want' = [want EXCEPT ![i] = v]

\* type(), dataSize(), hasMetadata() and the like, and what throws.
ReadFragment(i) == Change(i, frag[i], want[i])

Resized(v, n) ==
    [v EXCEPT !.payload = [k \in 1 .. n |-> IF k <= Len(@) THEN @[k] ELSE Junk]]

ResizeFragment(i) ==
    \E n \in 0 .. MaxPayload :
        \/ Change(i, ResizeData(frag[i], n), Resized(want[i], n))
        \/ Change(i, ResizeDataWithCushion(frag[i], n), Resized(want[i], n))

ResizeFragmentFilled(i, n, d) ==
    Change(i, ResizeDataFilled(frag[i], n, d), Resized(want[i], n))

ClearFragment(i) == Change(i, ClearData(frag[i]), Resized(want[i], 0))

ReserveFragment(i) == \E n \in 0 .. MaxPayload : Change(i, ReserveData(frag[i], n), want[i])

SetUserType(i) ==
    \E t \in UserTypes : Change(i, SetType(frag[i], t), [want[i] EXCEPT !.type = t])

\* *(dataBegin() + k - 1) = d
WritePayload(i) ==
    \E k \in 1 .. Len(want[i].payload), d \in Data :
        Change(i, WriteWords(frag[i], DataBegin(frag[i]) + k - 1, <<d>>),
               [want[i] EXCEPT !.payload[k] = d])

\* Both throw where their guard does not hold: a ReadFragment.
SetFragmentMetadata(i) ==
    /\ Held(i)
    /\ ~HasMetadata(frag[i])
    /\ \E d \in Data : Change(i, SetMetadata(frag[i], <<d>>), [want[i] EXCEPT !.metadata = <<d>>])

UpdateFragmentMetadata(i) ==
    /\ Held(i)
    /\ HasMetadata(frag[i])
    /\ \E d \in Data : Change(i, UpdateMetadata(frag[i], <<d>>), [want[i] EXCEPT !.metadata = <<d>>])

\* A new fragment in a slot that has none.
MakeFragment(i) ==
    /\ FragmentCall
    /\ ~Held(i)
    /\ \E d \in Data, t \in UserTypes :
          /\ frag' = [frag EXCEPT ![i] =
                WriteWords(NewWithMetadata(1, i, t, <<d>>), NumWords("current") + 1, <<d>>)]
          /\ want' = [want EXCEPT ![i] =
                [type |-> t, id |-> i, metadata |-> <<d>>, payload |-> <<d>>]]

\* The copy of an old fragment is made of its words alone.
CopyFragment(i, j) ==
    /\ FragmentCall
    /\ i # j
    /\ Held(j)
    /\ CopyOld \/ HeaderStored(frag[j])
    /\ \/ ~Held(i) /\ frag' = [frag EXCEPT ![i] = CopyOf(frag[j])]
       \/ Held(i) /\ frag' = [frag EXCEPT ![i] = AssignedTo(frag[i], frag[j])]
    /\ want' = [want EXCEPT ![i] = want[j]]

\* Move construction and move assignment.
MoveFragment(i, j) ==
    /\ FragmentCall
    /\ i # j
    /\ Held(j)
    /\ frag' = [frag EXCEPT ![i] = frag[j], ![j] = Plundered(frag[j])]
    /\ want' = [want EXCEPT ![i] = want[j], ![j] = NoValue]

\* swap(Fragment&): the arrays change places, the upgraded headers do not.
SwapFragments(i, j) ==
    /\ FragmentCall
    /\ i # j
    /\ Held(i) /\ Held(j)
    /\ CopyOld \/ {frag[i].upgraded_header, frag[j].upgraded_header} = {NoHeader}
    /\ frag' = [frag EXCEPT ![i].vals = frag[j].vals, ![j].vals = frag[i].vals]
    /\ want' = [want EXCEPT ![i] = want[j], ![j] = want[i]]

FragmentNext ==
    \E i \in Slots :
        \/ ResizeFragment(i)
        \/ \E n \in 0 .. MaxPayload, d \in Data : ResizeFragmentFilled(i, n, d)
        \/ ReadFragment(i)
        \/ ClearFragment(i)
        \/ ReserveFragment(i)
        \/ SetUserType(i)
        \/ WritePayload(i)
        \/ SetFragmentMetadata(i)
        \/ UpdateFragmentMetadata(i)
        \/ MakeFragment(i)
        \/ \E j \in Slots :
              \/ CopyFragment(i, j)
              \/ MoveFragment(i, j)
              \/ SwapFragments(i, j)

-----------------------------------------------------------------------------
(* Properties.                                                             *)

\* A holds what v promises.
Agrees(a, v) ==
    /\ a.type = v.type
    /\ a.id = v.id
    /\ a.metadata = v.metadata
    /\ Len(a.payload) = Len(v.payload)
    /\ \A k \in DOMAIN v.payload : v.payload[k] # Junk => a.payload[k] = v.payload[k]

\* The array of a fragment is allocated, and its header counts its words.
WellFormed(f) ==
    /\ Len(f.vals.mem) = f.vals.capacity
    /\ f.vals.size <= f.vals.capacity
    /\ Header(f).word_count = f.vals.size
    /\ DataBegin(f) <= f.vals.size

\* Whatever is read, resized, reallocated, inserted before it, copied, moved or
\* swapped, a fragment has the type, metadata and payload the program gave it.
\* Without CopyOld the program copies no old fragment whose header it has
\* changed and swaps none whose header it has looked at.  Of the words that a
\* resize brings in, with or without a value for them, nothing is promised.
ContentsKept ==
    \A i \in Slots : Held(i) => WellFormed(frag[i]) /\ Agrees(Value(frag[i]), want[i])
=============================================================================
