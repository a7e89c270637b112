----------------------- MODULE ContainerFragmentLoader -----------------------
(* Data/ContainerFragment.hh and Data/ContainerFragmentLoader.hh: a        *)
(* fragment whose payload is other fragments, one after the other, and an  *)
(* index of where each ends.                                               *)
(*                                                                         *)
(* Offsets are in words.  The metadata is one word, a record.  What is     *)
(* read from memory that is not the container's, or that nobody wrote, is  *)
(* Wild; a function that uses it as a place or a size sets "wild".         *)
EXTENDS Fragment

CONSTANTS
    Magic,        \* CONTAINER_MAGIC
    CountLimit,   \* block_count is a 16-bit field: 2^16 in the code
    Lists,        \* the sequences of fragments addFragments is called with
    EmptyFirst,   \* also an empty one, to a container without fragments
    MixedLists,   \* also where a fragment after the first is of a wrong type
    Garbage       \* values of a header field that appendFragment does not set

\* What a word is read as where a header or a place of the index should be.
HeaderWord ==
    [version : {"old", "current"}, type : UserTypes \cup {"Empty"}, id : Slots \cup {0},
     word_count : Nat, metadata_word_count : Nat]
IndexWord == [offset : Nat]

ASSUME ContainerAssumption ==
    /\ CountLimit \in Nat \ {0}
    /\ Lists \subseteq Seq(Slots)
    /\ EmptyFirst \in BOOLEAN
    /\ MixedLists \in BOOLEAN
    /\ Junk # Magic /\ Junk \notin HeaderWord /\ Junk \notin IndexWord
    /\ Garbage \subseteq Nat

VARIABLES
    container,  \* the fragment of the container, NoContainer without one
    loading,    \* the program has a loader on it
    index_ptr,  \* the loader's index_ptr_: a block and a place in it
    wild,       \* a function used memory that is not the container's
    added       \* what was put into the container

containerVars == <<container, loading, index_ptr, wild, added>>

-----------------------------------------------------------------------------
(* Reading a container: ContainerFragment.                                 *)

NoContainer == [vals |-> NewVec(0), upgraded_header |-> NoHeader]
NullPtr == [block |-> 0, at |-> 0]
Wild == -1

\* metadata(); a version 0 container keeps the index in its metadata.
ContainerMetadata(f) == f.vals.mem[HeaderSizeWords(f) + 1]
IsVersion0(f) == ContainerMetadata(f).version = 0

\* The word at an offset of the payload.
WordAt(f, offset) ==
    IF offset # Wild /\ DataBegin(f) + offset < f.vals.capacity
    THEN f.vals.mem[DataBegin(f) + offset + 1]
    ELSE Junk

OffsetIn(word) == IF word \in IndexWord THEN word.offset ELSE Wild

\* The test of reset_index_ptr_.
HasIndex(f) ==
    LET md == ContainerMetadata(f)
    IN  md.has_index /\ WordAt(f, md.index_offset + md.block_count) = Magic

IndexOf(f) ==
    [block |-> f.vals.block, at |-> DataBegin(f) + ContainerMetadata(f).index_offset]

\* fragmentIndex(k) through the pointer ptr: where fragment k begins.
FragmentIndex(f, ptr, k) ==
    IF k = 0 THEN 0
    ELSE IF IsVersion0(f) THEN ContainerMetadata(f).index[k]
    ELSE IF ptr.block = f.vals.block THEN OffsetIn(f.vals.mem[ptr.at + k])
    ELSE Wild

\* A ContainerFragment made on f finds its index.
Readable(f) == IsVersion0(f) \/ HasIndex(f)

\* The words of fragment k, counted from 0, that at(k) copies for it.
BlockWords(f, k) ==
    LET first == FragmentIndex(f, IndexOf(f), k)
        last  == FragmentIndex(f, IndexOf(f), k + 1)
    IN  [w \in 1 .. last - first |-> WordAt(f, first + w - 1)]

\* at(k)
At(f, k) ==
    LET words == BlockWords(f, k)
        short == Len(words) < NumWords("current")
    IN  WriteWords(NewFragment(IF short THEN 0 ELSE Len(words) - NumWords("current")), 0, words)

-----------------------------------------------------------------------------
(* Writing one: ContainerFragmentLoader.  A function in progress is a      *)
(* record of the fragment, the index pointer and how it went.              *)

LoaderOn(f, ptr) == [f |-> f, index_ptr |-> ptr, threw |-> FALSE, wild |-> FALSE]

BlockCount(l) == ContainerMetadata(l.f).block_count
LastFragmentIndex(l) == FragmentIndex(l.f, l.index_ptr, BlockCount(l))

\* Mutant of ResetIndexPtr: a pointer once found is kept, as get_index_ does.
GetIndexPtr(l) ==
    IF l.index_ptr # NullPtr THEN l
    ELSE IF HasIndex(l.f) THEN [l EXCEPT !.index_ptr = IndexOf(l.f)]
    ELSE [l EXCEPT !.threw = TRUE]

\* reset_index_ptr_
ResetIndexPtr(l) ==
    IF HasIndex(l.f) THEN [l EXCEPT !.index_ptr = IndexOf(l.f)] ELSE [l EXCEPT !.threw = TRUE]

\* addSpace_(n): "Must reset index_ptr after resize operation!"
AddSpace(l, n) ==
    ResetIndexPtr([l EXCEPT !.f = ResizeDataWithCushion(@, DataSize(l.f) + n)])

\* Mutant of MakeRoom: the index is given the room it has, not what it needs.
MakeRoomForWords(l, words, n) ==
    LET last == LastFragmentIndex(l)
        need == last + words + BlockCount(l) + 1
    IN  IF last = Wild THEN [l EXCEPT !.wild = TRUE]
        ELSE IF DataSize(l.f) < need THEN AddSpace(l, need - DataSize(l.f)) ELSE l

\* Room for n more fragments of so many words in all, and for the index.
MakeRoom(l, words, n) ==
    LET last == LastFragmentIndex(l)
        need == last + words + BlockCount(l) + 1 + n
    IN  IF last = Wild THEN [l EXCEPT !.wild = TRUE]
        ELSE IF DataSize(l.f) < need THEN AddSpace(l, need - DataSize(l.f)) ELSE l

Failed(l) == l.threw \/ l.wild

\* memcpy to an offset of the payload.
Store(l, offset, words) ==
    IF offset = Wild \/ offset + Len(words) > DataSize(l.f)
    THEN [l EXCEPT !.wild = TRUE]
    ELSE [l EXCEPT !.f = WriteWords(@, DataBegin(l.f) + offset, words)]

StoreMetadata(l, md) == [l EXCEPT !.f = UpdateMetadata(@, <<md>>)]

\* create_index_: the ends of the first n fragments, by their headers.
Ends(f, n) ==
    LET end[k \in 0 .. n] ==
            IF k = 0 THEN 0
            ELSE LET word == WordAt(f, end[k - 1])
                 IN  IF word \in HeaderWord THEN end[k - 1] + word.word_count ELSE Wild
    IN  [k \in 1 .. n |-> end[k]]

\* The end of each function: count the new fragments and write the index.
Reindex(l, new) ==
    LET count   == (BlockCount(l) + new) % CountLimit
        ends    == Ends(l.f, count)
        index   == [k \in 1 .. count |-> [offset |-> ends[k]]] \o <<Magic>>
        counted == StoreMetadata(l, [ContainerMetadata(l.f) EXCEPT
                       !.block_count = count, !.has_index = TRUE, !.index_offset = ends[count]])
        stored  == Store(counted, ends[count], index)
    IN  IF count = 0 \/ ends[count] = Wild THEN [l EXCEPT !.wild = TRUE]
        ELSE IF Failed(stored) THEN stored
        ELSE ResetIndexPtr(stored)

\* The fragment type of the container once these types have been accepted.
TypeAfter(l, types) ==
    LET all   == <<ContainerMetadata(l.f).fragment_type>> \o types
        named == {k \in DOMAIN all : all[k] # "Empty"}
    IN  IF named = {} THEN "Empty" ELSE all[Min(named)]

WrongType(l, types, k) == TypeAfter(l, SubSeq(types, 1, k - 1)) \notin {"Empty", types[k]}

SetFragmentType(l, type) ==
    StoreMetadata(l, [ContainerMetadata(l.f) EXCEPT !.fragment_type = type])

\* addFragments.  Each fragment's type is tested before its words are copied,
\* onto the old index; the first wrong one throws.
AddAll(l, fragments, allow) ==
    LET types  == [k \in DOMAIN fragments |-> Header(fragments[k]).type]
        wrong  == {k \in DOMAIN types : ~allow /\ WrongType(l, types, k)}
        good   == IF wrong = {} THEN Len(types) ELSE Min(wrong) - 1
        words  == [k \in DOMAIN fragments |-> SentWords(fragments[k])]
        roomy  == MakeRoom(l, Len(FlattenSeq(words)), Len(words))
        copied == Store(SetFragmentType(roomy, TypeAfter(l, SubSeq(types, 1, good))),
                        LastFragmentIndex(roomy), FlattenSeq(SubSeq(words, 1, good)))
    IN  IF Failed(roomy) THEN roomy
        ELSE IF Failed(copied) THEN copied
        ELSE IF wrong # {} THEN [copied EXCEPT !.threw = TRUE]
        ELSE Reindex(copied, Len(words))

\* appendFragment(n): a header of which metadata_word_count is not set.
AppendedHeader(l, n, garbage) ==
    HeaderOf("current", ContainerMetadata(l.f).fragment_type, Header(l.f).id,
             n + NumWords("current"), garbage)

AppendTo(l, h) ==
    LET roomy  == MakeRoom(l, h.word_count, 1)
        copied == Store(roomy, LastFragmentIndex(roomy), HeaderWords(h))
    IN  IF Failed(roomy) THEN roomy ELSE IF Failed(copied) THEN copied ELSE Reindex(copied, 1)

\* addFragment: the type is tested before anything is done.
AddOne(l, f, allow) ==
    IF ~allow /\ WrongType(l, <<Header(f).type>>, 1)
    THEN [l EXCEPT !.threw = TRUE]
    ELSE AddAll(l, <<f>>, allow)

\* lastFragmentHeader(), as an offset.
LastHeader(l) == FragmentIndex(l.f, l.index_ptr, BlockCount(l) - 1)

\* The words that a fragment lacks to have n of payload.  Its size is a
\* size_t: where it would be below zero it is more than any n.
Lacking(h, n) ==
    IF h.word_count < NumWords("current") \/ n + NumWords("current") < h.word_count
    THEN 0 ELSE n + NumWords("current") - h.word_count

\* Mutant of ResizeLast: the index is not made again.
ResizeLastHeader(l, n) ==
    LET h       == WordAt(l.f, LastHeader(l))
        resized == Store(l, LastHeader(l), <<[h EXCEPT !.word_count = n + NumWords("current")]>>)
    IN  IF Lacking(h, n) > 0 THEN AddSpace(resized, Lacking(h, n)) ELSE resized

\* resizeLastFragment(n)
ResizeLast(l, n) ==
    LET h       == WordAt(l.f, LastHeader(l))
        resized == Store(l, LastHeader(l), <<[h EXCEPT !.word_count = n + NumWords("current")]>>)
        roomy   == IF Lacking(h, n) > 0 THEN AddSpace(resized, Lacking(h, n)) ELSE resized
    IN  IF Failed(roomy) THEN roomy ELSE Reindex(roomy, 0)

-----------------------------------------------------------------------------
(* The program: it fills a container, or has read an old one from a file.  *)

\* A promise about one contained fragment: its words, and its payload's size.
Promise(f) == [words |-> SentWords(f), payload |-> DataSize(f)]

Version0Of(fragments) ==
    LET words == [k \in DOMAIN fragments |-> SentWords(fragments[k])]
        ends  == [k \in DOMAIN words |-> Len(FlattenSeq(SubSeq(words, 1, k)))]
        md    == [version |-> 0, block_count |-> Len(words),
                  fragment_type |-> Header(fragments[1]).type, index |-> ends]
        total == NumWords("current") + 1 + Len(FlattenSeq(words))
    IN  Received(HeaderWords(HeaderOf("current", "Container", 0, total, 1))
                     \o <<md>> \o FlattenSeq(words))

Fragments(list) == [k \in DOMAIN list |-> frag[list[k]]]

ContainerInit ==
    /\ \/ container = NoContainer /\ added = <<>>
       \/ \E list \in Lists \ {<<>>} :
             /\ container = Version0Of(Fragments(list))
             /\ added = [k \in DOMAIN list |-> Promise(frag[list[k]])]
    /\ loading = FALSE
    /\ index_ptr = NullPtr
    /\ wild = FALSE

\* ContainerFragmentLoader(f, expectedFragmentType), on a new Fragment(0).
OpenContainer ==
    /\ Call
    /\ container = NoContainer
    /\ \E type \in UserTypes \cup {"Empty"} :
          LET md   == [version |-> 1, block_count |-> 0, fragment_type |-> type,
                       has_index |-> TRUE, index_offset |-> 0]
              room == ResizeData(SetMetadata(SetType(NewFragment(0), "Container"), <<md>>), 1)
          IN  container' = WriteWords(room, DataBegin(room), <<Magic>>)
    /\ loading' = TRUE
    /\ index_ptr' = NullPtr
    /\ added' = <<>>
    /\ UNCHANGED <<frag, want, wild>>

\* A function of the loader that ends as l; what it threw promises nothing.
Load(l, promised) ==
    /\ Call
    /\ container' = l.f
    /\ index_ptr' = l.index_ptr
    /\ wild' = l.wild
    /\ added' = IF Failed(l) THEN added ELSE promised
    /\ UNCHANGED <<want, loading>>

Loader == LoaderOn(container, index_ptr)
Usable == loading /\ ~wild
Storable(i) == Held(i) /\ (CopyOld \/ HeaderStored(frag[i]))

AddFragment(i, allow) ==
    /\ Usable
    /\ Storable(i)
    /\ frag' = [frag EXCEPT ![i] = Accessed(@)]
    /\ Load(AddOne(Loader, frag[i], allow), Append(added, Promise(frag[i])))

\* The overload for pointers is the same.  sizeBytes() is asked of all of the
\* list first.  An empty list leaves a container as it is, but for one without
\* fragments: the index it makes has no end, and index[-1] is read for it.
AddFragments(list, allow) ==
    LET fragments == Fragments(list)
        types     == [k \in DOMAIN list |-> Header(fragments[k]).type]
    IN  /\ Usable
        /\ \A k \in DOMAIN list : Storable(list[k])
        /\ list # <<>> \/ added # <<>> \/ EmptyFirst
        /\ frag' = [i \in Slots |-> IF i \in Range(list) THEN Accessed(frag[i]) ELSE frag[i]]
        /\ MixedLists \/ allow \/ \A k \in 2 .. Len(list) : ~WrongType(Loader, types, k)
        /\ Load(AddAll(Loader, fragments, allow),
                added \o [k \in DOMAIN list |-> Promise(fragments[k])])

AppendFragment(n, garbage) ==
    LET h == AppendedHeader(Loader, n, garbage)
    IN  /\ Usable
        /\ Load(AppendTo(Loader, h),
                Append(added, [words |-> HeaderWords(h) \o [k \in 1 .. n |-> Junk], payload |-> n]))
        /\ UNCHANGED frag

\* The program writes the payload behind the header appendFragment returned.
FillLast(d) ==
    LET last  == added[Len(added)]
        words == [k \in 1 .. last.payload |-> d]
    IN  /\ Usable
        /\ added # <<>>
        /\ Len(last.words) = NumWords("current") + last.payload
        /\ Load(Store(Loader, LastHeader(Loader) + NumWords("current"), words),
                [added EXCEPT ![Len(added)].words = SubSeq(@, 1, NumWords("current")) \o words])
        /\ UNCHANGED frag

\* The promise: the words that fit stay, but for the count in the header.  An
\* old fragment without payload, shorter than a current header, is not resized.
ResizeLastFragment(n) ==
    LET size == n + NumWords("current")
        last == added[Len(added)]
    IN  /\ Usable
        /\ added # <<>>
        /\ Len(last.words) >= NumWords("current")
        /\ Load(ResizeLast(Loader, n),
                [added EXCEPT ![Len(added)] =
                    [words   |-> [w \in 1 .. size |->
                                    CASE w = 1 -> [last.words[1] EXCEPT !.word_count = size]
                                      [] w \in 2 .. Len(last.words) -> last.words[w]
                                      [] OTHER -> Junk],
                     payload |-> n]])
        /\ UNCHANGED frag

ContainerNext ==
    \/ OpenContainer
    \/ \E allow \in BOOLEAN :
          \/ \E i \in Slots : AddFragment(i, allow)
          \/ \E list \in Lists : AddFragments(list, allow)
    \/ \E n \in 0 .. MaxPayload :
          \/ \E garbage \in Garbage : AppendFragment(n, garbage)
          \/ ResizeLastFragment(n)
    \/ \E d \in Data : FillLast(d)

-----------------------------------------------------------------------------
(* Properties.                                                             *)

Holds(words, promised) ==
    /\ Len(words) = Len(promised)
    /\ \A w \in DOMAIN promised : promised[w] # Junk => words[w] = promised[w]

\* A ContainerFragment made on f reads what was promised.
ReadsAs(f, promises) ==
    /\ Readable(f)
    /\ ContainerMetadata(f).block_count = Len(promises)
    /\ \A k \in DOMAIN promises :
          Holds(SubSeq(At(f, k - 1).vals.mem, 1, Len(BlockWords(f, k - 1))), promises[k].words)

\* However often the container grew, it is still of the type of a container,
\* and its fragments can be read back, in order, each with the words it had.
\* A function that throws before it has copied anything leaves them as they
\* were; with MixedLists, an addFragments throws after its first fragments.
ContainerHolds ==
    container # NoContainer => Header(container).type = "Container" /\ ReadsAs(container, added)

\* No function reads an offset from, or writes to, memory the container does
\* not have, unless a container without fragments is given an empty list
\* (EmptyFirst).
NothingWild == ~wild

\* A fragment read back has the payload it was given: the test of
\* appendFragment requires outfrag->dataSize() to be what was asked for.
ReadBackSizes ==
    container # NoContainer =>
        \A k \in DOMAIN added : DataSize(At(container, k - 1)) = added[k].payload
=============================================================================
