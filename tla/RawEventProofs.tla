--------------------------- MODULE RawEventProofs ---------------------------
(***************************************************************************)
(* Proofs about the event's data, for any number of fragments, words,      *)
(* types and calls.                                                        *)
(*                                                                         *)
(* They go from the inside to the outside: what each operator of QuickVec  *)
(* does to each word, what each function of Fragment does to header,       *)
(* metadata and payload, and from these what a fragment holds and what an  *)
(* event keeps; then how a container is laid out, what each function of    *)
(* its loader makes of it, and that the fragments in it are whole.         *)
(***************************************************************************)
EXTENDS RawEvent, SequenceTheorems, WellFoundedInduction, TLAPS

-----------------------------------------------------------------------------
(* Numbers and sequences                                                   *)

\* Every set of numbers has a smallest one.
LEMMA Smallest == ASSUME NEW T \in SUBSET Nat, T # {} PROVE \E x \in T : \A y \in T : x <= y
  <1> DEFINE R == {ss \in Nat \X Nat : ss[1] < ss[2]}
  <1>1. IsWellFoundedOn(R, Nat)
    BY NatLessThanWellFounded DEF OpToRel
  <1>2. PICK x \in T : \A y \in T : ~(<<y, x>> \in R)
    BY <1>1, WFMin
  <1>3. ASSUME NEW y \in T PROVE x <= y
    <2>1. ~(y < x)
      BY <1>2
    <2> QED BY <2>1
  <1> QED BY <1>3

\* Induction over the numbers, as a fact about sets.
LEMMA Induction ==
  ASSUME NEW n \in Nat, NEW T, 0 \in T, \A k \in 0 .. n - 1 : k \in T => k + 1 \in T
  PROVE  0 .. n \subseteq T
  <1> DEFINE Bad == {k \in 0 .. n : k \notin T}
  <1> SUFFICES ASSUME Bad # {} PROVE FALSE
    BY Zenon
  <1>0. Bad \in SUBSET Nat
    OBVIOUS
  <1>1. PICK k \in Bad : \A j \in Bad : k <= j
    BY <1>0, Smallest
  <1>2. k - 1 \in 0 .. n - 1 /\ k - 1 \notin Bad
    BY <1>1
  <1>3. k - 1 \in T
    BY <1>2
  <1> QED BY <1>1, <1>2, <1>3

IsSeq(s) == s \in Seq(Range(s))

LEMMA SeqIs == ASSUME NEW S, NEW s \in Seq(S) PROVE IsSeq(s)
  BY SeqOfRange DEF IsSeq

\* A function on 1 .. n is a sequence.
LEMMA FcnIsSeq ==
  ASSUME NEW n \in Nat, NEW f, f = [k \in 1 .. n |-> f[k]]
  PROVE  IsSeq(f) /\ Len(f) = n
  <1>1. f \in [1 .. n -> Range(f)]
    BY DEF Range
  <1>2. f \in Seq(Range(f))
    BY <1>1
  <1>3. Len(f) \in Nat /\ DOMAIN f = 1 .. Len(f)
    BY <1>2, LenProperties
  <1>4. 1 .. n = 1 .. Len(f)
    BY <1>1, <1>3
  <1> QED BY <1>2, <1>3, <1>4 DEF IsSeq

\* The length and the members of a sequence.
LEMMA SeqHas ==
  ASSUME NEW s, IsSeq(s)
  PROVE  Len(s) \in Nat /\ DOMAIN s = 1 .. Len(s) /\ s = [k \in 1 .. Len(s) |-> s[k]]
  <1>1. Len(s) \in Nat /\ DOMAIN s = 1 .. Len(s) /\ s \in [1 .. Len(s) -> Range(s)]
    BY LenProperties DEF IsSeq
  <1> QED BY <1>1

LEMMA SeqSame ==
  ASSUME NEW s, NEW t, IsSeq(s), IsSeq(t), Len(s) = Len(t), \A k \in 1 .. Len(s) : s[k] = t[k]
  PROVE  s = t
  BY SeqHas

LEMMA SubSeqHas ==
  ASSUME NEW s, IsSeq(s), NEW a \in Int, NEW b \in Int, 1 <= a, b <= Len(s)
  PROVE  /\ IsSeq(SubSeq(s, a, b))
         /\ Len(SubSeq(s, a, b)) = IF a <= b THEN b - a + 1 ELSE 0
         /\ \A k \in 1 .. b - a + 1 : SubSeq(s, a, b)[k] = s[a + k - 1]
  <1>1. \A k \in a .. b : s[k] \in Range(s)
    BY SeqHas DEF Range
  <1>2. /\ SubSeq(s, a, b) \in Seq(Range(s))
        /\ Len(SubSeq(s, a, b)) = IF a <= b THEN b - a + 1 ELSE 0
        /\ \A k \in 1 .. b - a + 1 : SubSeq(s, a, b)[k] = s[a + k - 1]
    BY <1>1, SubSeqProperties
  <1> QED BY <1>2, SeqIs

\* What follows the first a of the first b.
LEMMA PartHas ==
  ASSUME NEW s, IsSeq(s), NEW a \in Nat, NEW b \in Nat, a <= b, b <= Len(s)
  PROVE  /\ IsSeq(SubSeq(s, a + 1, b)) /\ Len(SubSeq(s, a + 1, b)) = b - a
         /\ \A k \in 1 .. b - a : SubSeq(s, a + 1, b)[k] = s[a + k]
  <1> DEFINE r == SubSeq(s, a + 1, b)
  <1>1. a + 1 \in Int /\ b \in Int /\ 1 <= a + 1
    OBVIOUS
  <1>2. /\ IsSeq(r) /\ Len(r) = IF a + 1 <= b THEN b - (a + 1) + 1 ELSE 0
        /\ \A k \in 1 .. b - (a + 1) + 1 : r[k] = s[(a + 1) + k - 1]
    BY <1>1, SubSeqHas
  <1> HIDE DEF r
  <1>3. Len(r) = b - a
    BY <1>2
  <1>4. ASSUME NEW k \in 1 .. b - a PROVE r[k] = s[a + k]
    <2>1. k \in 1 .. b - (a + 1) + 1 /\ (a + 1) + k - 1 = a + k
      OBVIOUS
    <2> QED BY <1>2, <2>1
  <1> QED BY <1>2, <1>3, <1>4 DEF r

LEMMA ConcatHas ==
  ASSUME NEW s, NEW t, IsSeq(s), IsSeq(t)
  PROVE  /\ IsSeq(s \o t)
         /\ Len(s \o t) = Len(s) + Len(t)
         /\ \A k \in 1 .. Len(s) + Len(t) :
               (s \o t)[k] = IF k <= Len(s) THEN s[k] ELSE t[k - Len(s)]
  <1> DEFINE S == Range(s) \cup Range(t)
  <1>1. s \in Seq(S)
    <2>1. Range(s) \subseteq S
      OBVIOUS
    <2> QED BY <2>1, SeqMonotonic DEF IsSeq
  <1>2. t \in Seq(S)
    <2>1. Range(t) \subseteq S
      OBVIOUS
    <2> QED BY <2>1, SeqMonotonic DEF IsSeq
  <1> HIDE DEF S
  <1> QED BY <1>1, <1>2, ConcatProperties, SeqIs

LEMMA OneWord == ASSUME NEW w PROVE IsSeq(<<w>>) /\ Len(<<w>>) = 1 /\ <<w>>[1] = w
  <1>1. <<w>> \in Seq({w}) /\ Len(<<w>>) = 1 /\ <<w>>[1] = w
    OBVIOUS
  <1> QED BY <1>1, SeqIs

LEMMA NoWords == IsSeq(<<>>) /\ Len(<<>>) = 0
  <1>1. <<>> \in Seq({}) /\ Len(<<>>) = 0
    BY EmptySeq
  <1> QED BY <1>1, SeqIs

-----------------------------------------------------------------------------
(* QuickVec: which words each operation keeps                              *)

\* The array of such a size, capacity, words and block, as a set.
Vecs(size, capacity, mem, block) ==
    [size : {size}, capacity : {capacity}, mem : {mem}, block : {block}]

\* An array that was not moved from.
IsVec(v) ==
    /\ v \in [size : Nat, capacity : Nat, mem : {v.mem}, block : Nat]
    /\ v.size <= v.capacity
    /\ v.mem = [w \in 1 .. v.capacity |-> v.mem[w]]

\* r has the words of v that are among the first n.
SameWords(r, v, n) == \A w \in 1 .. n : r.mem[w] = v.mem[w]

LEMMA VecHas ==
  ASSUME NEW v, IsVec(v)
  PROVE  /\ v.size \in Nat /\ v.capacity \in Nat /\ v.block \in Nat
         /\ v.size <= v.capacity
         /\ IsSeq(v.mem) /\ Len(v.mem) = v.capacity /\ DOMAIN v.mem = 1 .. v.capacity
  <1>1. v.size \in Nat /\ v.capacity \in Nat /\ v.block \in Nat /\ v.size <= v.capacity
    BY DEF IsVec
  <1>2. v.mem = [w \in 1 .. v.capacity |-> v.mem[w]]
    BY DEF IsVec
  <1>3. DOMAIN v.mem = 1 .. v.capacity
    BY <1>2
  <1> QED BY <1>1, <1>2, <1>3, FcnIsSeq

LEMMA MadeVec ==
  ASSUME NEW s \in Nat, NEW c \in Nat, s <= c, NEW m, m = [w \in 1 .. c |-> m[w]],
         NEW b \in Nat, NEW r \in Vecs(s, c, m, b)
  PROVE  IsVec(r) /\ r.size = s /\ r.capacity = c /\ r.mem = m
  <1>1. r.size = s /\ r.capacity = c /\ r.mem = m
    BY DEF Vecs
  <1>2. r \in [size : Nat, capacity : Nat, mem : {r.mem}, block : Nat]
    BY <1>1 DEF Vecs
  <1> QED BY <1>1, <1>2 DEF IsVec

LEMMA NewVecHas ==
  ASSUME NEW n \in Nat
  PROVE  /\ IsVec(NewVec(n)) /\ NewVec(n).size = n /\ NewVec(n).capacity = n
         /\ \A w \in 1 .. n : NewVec(n).mem[w] = Junk
  <1>1. NewVec(n).mem = [w \in 1 .. n |-> Junk]
    BY DEF NewVec, Allocate
  <1>2. NewVec(n) \in Vecs(n, n, [w \in 1 .. n |-> Junk], 1)
    BY DEF NewVec, Allocate, Vecs
  <1> QED BY <1>1, <1>2, MadeVec

LEMMA ReserveHas ==
  ASSUME NEW v, IsVec(v), NEW n \in Nat
  PROVE  /\ IsVec(Reserve(v, n)) /\ Reserve(v, n).size = v.size
         /\ Reserve(v, n).capacity >= n /\ Reserve(v, n).capacity >= v.capacity
         /\ SameWords(Reserve(v, n), v, v.size)
  <1>1. CASE n > v.capacity
    <2> DEFINE mem == [w \in 1 .. n |-> IF w <= v.size THEN v.mem[w] ELSE Junk]
    <2>1. Reserve(v, n) = [v EXCEPT !.mem = mem, !.capacity = n, !.block = @ + 1]
      BY <1>1 DEF Reserve, Allocate
    <2> HIDE DEF mem
    <2> DEFINE m == v.mem
    <2>5. v \in [size : Nat, capacity : Nat, mem : {m}, block : Nat]
      BY DEF IsVec
    <2> HIDE DEF m
    <2>2. Reserve(v, n) \in Vecs(v.size, n, mem, v.block + 1)
      BY <2>1, <2>5 DEF Vecs
    <2>3. mem = [w \in 1 .. n |-> mem[w]] /\ \A w \in 1 .. n : w <= v.size => mem[w] = v.mem[w]
      BY DEF mem
    <2>4. /\ IsVec(Reserve(v, n)) /\ Reserve(v, n).size = v.size
          /\ Reserve(v, n).capacity = n /\ Reserve(v, n).mem = mem
      BY <1>1, <2>2, <2>3, VecHas, MadeVec
    <2> QED BY <1>1, <2>3, <2>4, VecHas DEF SameWords
  <1>2. CASE ~(n > v.capacity)
    BY <1>2, VecHas DEF Reserve, SameWords
  <1> QED BY <1>1, <1>2

\* A resize leaves so many words, those that it keeps among them.
ResizedTo(r, v, n) ==
    /\ IsVec(r) /\ r.size = n
    /\ r.capacity >= v.capacity
    /\ SameWords(r, v, v.size)

LEMMA ResizeHas == ASSUME NEW v, IsVec(v), NEW n \in Nat PROVE ResizedTo(Resize(v, n), v, n)
  <1> DEFINE q == Reserve(v, n)
  <1>1. IsVec(q) /\ q.capacity >= n /\ q.capacity >= v.capacity /\ SameWords(q, v, v.size)
    BY ReserveHas
  <1>2. Resize(v, n) = [q EXCEPT !.size = n]
    BY DEF Resize
  <1> HIDE DEF q
  <1>3. Resize(v, n) \in Vecs(n, q.capacity, q.mem, q.block)
    BY <1>1, <1>2 DEF IsVec, Vecs
  <1>4. q.mem = [w \in 1 .. q.capacity |-> q.mem[w]] /\ q.capacity \in Nat /\ q.block \in Nat /\ n <= q.capacity
    BY <1>1 DEF IsVec
  <1>5. /\ IsVec(Resize(v, n)) /\ Resize(v, n).size = n
        /\ Resize(v, n).capacity = q.capacity /\ Resize(v, n).mem = q.mem
    BY <1>3, <1>4, MadeVec
  <1> QED BY <1>1, <1>5 DEF ResizedTo, SameWords

LEMMA ResizeFilledHas ==
  ASSUME NEW v, IsVec(v), NEW n \in Nat, NEW val PROVE ResizedTo(ResizeFilled(v, n, val), v, n)
  <1> DEFINE r == Resize(v, n)
  <1>1. ResizedTo(r, v, n)
    BY ResizeHas
  <1>2. ResizeFilled(v, n, val) = [r EXCEPT !.mem = [w \in DOMAIN r.mem |-> r.mem[w]]]
    BY DEF ResizeFilled
  <1> HIDE DEF r
  <1>3. IsVec(r)
    BY <1>1 DEF ResizedTo
  <1>4. [w \in DOMAIN r.mem |-> r.mem[w]] = r.mem
    BY <1>3, VecHas DEF IsVec
  <1>5. ResizeFilled(v, n, val) \in Vecs(r.size, r.capacity, r.mem, r.block)
    BY <1>2, <1>3, <1>4 DEF IsVec, Vecs
  <1>6. r.mem = [w \in 1 .. r.capacity |-> r.mem[w]]
    BY <1>3 DEF IsVec
  <1>7. /\ IsVec(ResizeFilled(v, n, val)) /\ ResizeFilled(v, n, val).size = r.size
        /\ ResizeFilled(v, n, val).capacity = r.capacity /\ ResizeFilled(v, n, val).mem = r.mem
    BY <1>3, <1>5, <1>6, VecHas, MadeVec
  <1> QED BY <1>1, <1>7 DEF ResizedTo, SameWords

LEMMA CushionedNat == ASSUME NEW c \in Nat, NEW n \in Nat PROVE Cushioned(c, n) \in Nat
  <1> DEFINE wanted == IF (13 * c + 5) \div 10 < n THEN n ELSE (13 * c + 5) \div 10
             above == {step \in GrowthSteps : wanted < step}
  <1>1. wanted \in Nat
    OBVIOUS
  <1>2. above # {} => Min(above) \in Nat
    <2>1. above \in SUBSET Nat
      BY GrowthAssumption
    <2> HIDE DEF above
    <2> QED BY <2>1, Smallest DEF Min
  <1>3. Cushioned(c, n) = IF above = {} THEN wanted ELSE Min(above)
    BY DEF Cushioned
  <1> HIDE DEF above, wanted
  <1> QED BY <1>1, <1>2, <1>3

LEMMA ResizeWithCushionHas ==
  ASSUME NEW v, IsVec(v), NEW n \in Nat PROVE ResizedTo(ResizeWithCushion(v, n), v, n)
  <1> DEFINE q == IF n > v.capacity THEN Reserve(v, Cushioned(v.capacity, n)) ELSE v
  <1>1. v.capacity \in Nat /\ Cushioned(v.capacity, n) \in Nat
    BY CushionedNat, VecHas
  <1>2. IsVec(q) /\ q.size = v.size /\ q.capacity >= v.capacity /\ SameWords(q, v, v.size)
    <2>1. CASE n > v.capacity
      BY <1>1, <2>1, ReserveHas
    <2>2. CASE ~(n > v.capacity)
      BY <1>1, <2>2 DEF SameWords
    <2> QED BY <2>1, <2>2
  <1>3. ResizeWithCushion(v, n) = Resize(q, n)
    BY DEF ResizeWithCushion
  <1> HIDE DEF q
  <1>4. ResizedTo(Resize(q, n), q, n)
    BY <1>2, ResizeHas
  <1>5. q.capacity \in Nat /\ Resize(q, n).capacity \in Nat
    BY <1>2, <1>4, VecHas DEF ResizedTo
  <1> QED BY <1>1, <1>2, <1>3, <1>4, <1>5 DEF ResizedTo, SameWords

\* The words of v with n copies of a value put in at a place.
Inserted(mem, v, at, n) ==
    /\ \A w \in 1 .. at : mem[w] = v.mem[w]
    /\ \A w \in at + 1 .. v.size : mem[w + n] = v.mem[w]

\* What is behind the place of an insertion moves up.
LEMMA InsertHas ==
  ASSUME NEW v, IsVec(v), NEW at \in 0 .. v.size, NEW n \in Nat, NEW val
  PROVE  /\ IsVec(Insert(v, at, n, val)) /\ Insert(v, at, n, val).size = v.size + n
         /\ Inserted(Insert(v, at, n, val).mem, v, at, n)
  <1> DEFINE q == Reserve(v, v.size + n)
             word(w) == CASE w <= at \/ w > v.size + n -> q.mem[w]
                          [] w \in at + 1 .. at + n -> val
                          [] OTHER -> q.mem[w - n]
             mem == [w \in DOMAIN q.mem |-> word(w)]
             r == Insert(v, at, n, val)
  <1>1. v.size \in Nat /\ v.size + n \in Nat /\ at \in Nat /\ at <= v.size
    BY VecHas
  <1>2. IsVec(q) /\ q.size = v.size /\ q.capacity >= v.size + n /\ SameWords(q, v, v.size)
    BY <1>1, ReserveHas
  <1>3. r = [q EXCEPT
               !.size = @ + n,
               !.mem  = [w \in DOMAIN @ |->
                   CASE w <= at \/ w > v.size + n -> @[w]
                     [] w \in at + 1 .. at + n -> val
                     [] OTHER -> @[w - n]]]
    BY Zenon DEF Insert
  <1>4. r = [q EXCEPT !.size = @ + n, !.mem = mem]
    BY <1>3
  <1> HIDE DEF q, r
  <1>5. DOMAIN q.mem = 1 .. q.capacity /\ q.capacity \in Nat /\ q.block \in Nat
    BY <1>2, VecHas
  <1>6. mem = [w \in 1 .. q.capacity |-> mem[w]] /\ \A w \in 1 .. q.capacity : mem[w] = word(w)
    BY <1>5
  <1>7. \A w \in 1 .. at : mem[w] = v.mem[w]
    BY <1>1, <1>2, <1>5, <1>6 DEF SameWords
  <1>8. ASSUME NEW w \in at + 1 .. v.size PROVE mem[w + n] = v.mem[w]
    <2>1. w + n \in 1 .. q.capacity /\ w \in 1 .. v.size /\ w \in Nat
      BY <1>1, <1>2, <1>5
    <2>2. w + n > at + n /\ w + n <= v.size + n /\ w + n > at /\ w + n - n = w
      BY <1>1, <2>1
    <2>3. mem[w + n] = word(w + n)
      BY <1>6, <2>1
    <2>4. word(w + n) = q.mem[w + n - n]
      BY <1>1, <2>1, <2>2
    <2> QED BY <1>2, <2>1, <2>2, <2>3, <2>4 DEF SameWords
  <1> HIDE DEF mem
  <1>9. r \in Vecs(q.size + n, q.capacity, mem, q.block)
    BY <1>2, <1>4 DEF IsVec, Vecs
  <1>10. r \in Vecs(v.size + n, q.capacity, mem, q.block)
    BY <1>2, <1>9
  <1>11. IsVec(r) /\ r.size = v.size + n /\ r.mem = mem
    BY <1>1, <1>2, <1>5, <1>6, <1>10, MadeVec
  <1> QED BY <1>7, <1>8, <1>11 DEF r, Inserted

\* All that follows a place is erased.
LEMMA EraseHas ==
  ASSUME NEW v, IsVec(v), NEW first \in 0 .. v.size
  PROVE  /\ IsVec(Erase(v, first, v.size)) /\ Erase(v, first, v.size).size = first
         /\ SameWords(Erase(v, first, v.size), v, first)
  <1> DEFINE r == Erase(v, first, v.size)
             mem == [w \in DOMAIN v.mem |->
                IF w \in first + 1 .. v.size - (v.size - first) THEN v.mem[w + v.size - first] ELSE v.mem[w]]
  <1>1. /\ v.size \in Nat /\ first \in Nat /\ first <= v.size /\ v.size - (v.size - first) = first
        /\ v.capacity \in Nat /\ v.block \in Nat /\ DOMAIN v.mem = 1 .. v.capacity /\ v.size <= v.capacity
    BY VecHas
  <1>2. r = [v EXCEPT !.size = @ - (v.size - first), !.mem = mem]
    BY DEF Erase
  <1>3. mem = [w \in 1 .. v.capacity |-> mem[w]] /\ \A w \in 1 .. first : mem[w] = v.mem[w]
    BY <1>1
  <1> HIDE DEF mem, r
  <1>4. r \in Vecs(v.size - (v.size - first), v.capacity, mem, v.block)
    BY <1>1, <1>2 DEF IsVec, Vecs
  <1>5. IsVec(r) /\ r.size = first /\ r.mem = mem
    BY <1>1, <1>3, <1>4, MadeVec
  <1> QED BY <1>3, <1>5 DEF r, SameWords

LEMMA CopyVecHas ==
  ASSUME NEW v, IsVec(v)
  PROVE  /\ IsVec(CopyVec(v)) /\ CopyVec(v).size = v.size
         /\ SameWords(CopyVec(v), v, v.size)
  <1> DEFINE mem == [w \in 1 .. v.capacity |-> IF w <= v.size THEN v.mem[w] ELSE Junk]
  <1>1. v.size \in Nat /\ v.capacity \in Nat /\ v.size <= v.capacity
    BY VecHas
  <1>2. CopyVec(v) = [v EXCEPT !.mem = mem, !.block = 1]
    BY DEF CopyVec, Allocate
  <1>3. mem = [w \in 1 .. v.capacity |-> mem[w]] /\ \A w \in 1 .. v.size : mem[w] = v.mem[w]
    BY <1>1
  <1> HIDE DEF mem
  <1>6. v \in [size : Nat, capacity : Nat, mem : {v.mem}, block : Nat]
    BY DEF IsVec
  <1>4. CopyVec(v) \in Vecs(v.size, v.capacity, mem, 1)
    BY <1>2, <1>6 DEF Vecs
  <1>5. IsVec(CopyVec(v)) /\ CopyVec(v).size = v.size /\ CopyVec(v).mem = mem
    BY <1>1, <1>3, <1>4, MadeVec
  <1> QED BY <1>3, <1>5 DEF SameWords

LEMMA AssignVecHas ==
  ASSUME NEW v, IsVec(v), NEW other, IsVec(other)
  PROVE  /\ IsVec(AssignVec(v, other)) /\ AssignVec(v, other).size = other.size
         /\ SameWords(AssignVec(v, other), other, other.size)
  <1> DEFINE q == Resize(v, other.size)
             mem == [w \in DOMAIN q.mem |-> IF w <= other.size THEN other.mem[w] ELSE q.mem[w]]
             r == AssignVec(v, other)
  <1>1. other.size \in Nat
    BY VecHas
  <1>2. IsVec(q) /\ q.size = other.size
    BY <1>1, ResizeHas DEF ResizedTo
  <1>3. r = [q EXCEPT !.mem = mem]
    BY DEF AssignVec
  <1> HIDE DEF q, r
  <1>4. DOMAIN q.mem = 1 .. q.capacity /\ q.capacity \in Nat /\ q.block \in Nat /\ other.size <= q.capacity
    BY <1>2, VecHas
  <1>5. mem = [w \in 1 .. q.capacity |-> mem[w]] /\ \A w \in 1 .. other.size : mem[w] = other.mem[w]
    BY <1>1, <1>4
  <1> HIDE DEF mem
  <1>6. r \in Vecs(q.size, q.capacity, mem, q.block)
    BY <1>2, <1>3 DEF IsVec, Vecs
  <1>7. IsVec(r) /\ r.size = other.size /\ r.mem = mem
    BY <1>1, <1>2, <1>4, <1>5, <1>6, MadeVec
  <1> QED BY <1>5, <1>7 DEF r, SameWords

\* A word behind the others.
LEMMA PushBackHas ==
  ASSUME NEW v, IsVec(v), NEW val
  PROVE  /\ IsVec(PushBack(v, val)) /\ PushBack(v, val).size = v.size + 1
         /\ SameWords(PushBack(v, val), v, v.size)
         /\ PushBack(v, val).mem[v.size + 1] = val
  <1> DEFINE q == IF v.size = v.capacity THEN Reserve(v, v.size + v.size \div 10 + 1) ELSE v
             mem == [w \in 1 .. q.capacity |-> IF w = v.size + 1 THEN val ELSE q.mem[w]]
             r == PushBack(v, val)
  <1>1. v.size \in Nat /\ v.capacity \in Nat /\ v.size <= v.capacity 
        /\ v.size + 1 \in Nat /\ v.size + v.size \div 10 + 1 \in Nat
    BY VecHas
  <1>2. IsVec(q) /\ q.size = v.size /\ v.size + 1 <= q.capacity /\ SameWords(q, v, v.size)
    <2>1. CASE v.size = v.capacity
      <3>1. /\ IsVec(q) /\ q.size = v.size /\ q.capacity >= v.size + v.size \div 10 + 1
            /\ SameWords(q, v, v.size)
        BY <1>1, <2>1, ReserveHas
      <3>2. q.capacity \in Nat
        BY <3>1, VecHas
      <3> HIDE DEF q
      <3> QED BY <1>1, <3>1, <3>2
    <2>2. CASE v.size # v.capacity
      <3>1. q = v
        BY <2>2
      <3> HIDE DEF q
      <3> QED BY <1>1, <2>2, <3>1 DEF SameWords
    <2> QED BY <2>1, <2>2
  <1>3. r = [q EXCEPT !.mem[v.size + 1] = val, !.size = @ + 1]
    BY DEF PushBack
  <1> HIDE DEF q, r
  <1>4. /\ DOMAIN q.mem = 1 .. q.capacity /\ q.capacity \in Nat /\ q.block \in Nat
        /\ q.mem = [w \in 1 .. q.capacity |-> q.mem[w]]
    BY <1>2, VecHas DEF IsVec
  <1>5. mem = [q.mem EXCEPT ![v.size + 1] = val]
    BY <1>4, Zenon
  <1>6. r = [q EXCEPT !.mem = mem, !.size = @ + 1]
    BY <1>3, <1>5
  <1>7. /\ mem = [w \in 1 .. q.capacity |-> mem[w]] /\ mem[v.size + 1] = val
        /\ \A w \in 1 .. v.size : mem[w] = v.mem[w]
    <2>1. \A w \in 1 .. q.capacity : mem[w] = IF w = v.size + 1 THEN val ELSE q.mem[w]
      OBVIOUS
    <2>2. mem = [w \in 1 .. q.capacity |-> mem[w]]
      OBVIOUS
    <2> HIDE DEF mem
    <2>3. \A w \in 1 .. v.size : w \in 1 .. q.capacity /\ w # v.size + 1
      BY <1>1, <1>2, <1>4
    <2>4. v.size + 1 \in 1 .. q.capacity
      BY <1>1, <1>2, <1>4
    <2> QED BY <1>2, <2>1, <2>2, <2>3, <2>4 DEF SameWords
  <1> HIDE DEF mem
  <1>8. r \in Vecs(q.size + 1, q.capacity, mem, q.block)
    BY <1>2, <1>6 DEF IsVec, Vecs
  <1>9. r \in Vecs(v.size + 1, q.capacity, mem, q.block)
    BY <1>2, <1>8
  <1>10. IsVec(r) /\ r.size = v.size + 1 /\ r.mem = mem
    <2> DEFINE s == v.size + 1
               c == q.capacity
               b == q.block
    <2>1. s \in Nat /\ c \in Nat /\ b \in Nat /\ s <= c /\ r \in Vecs(s, c, mem, b)
      BY <1>1, <1>2, <1>4, <1>9
    <2>2. mem = [w \in 1 .. c |-> mem[w]]
      BY <1>7
    <2> HIDE DEF s, c, b
    <2>3. IsVec(r) /\ r.size = s /\ r.mem = mem
      BY <2>1, <2>2, MadeVec
    <2> QED BY <2>3 DEF s
  <1> QED BY <1>7, <1>10 DEF r, SameWords

\* One word after the other: the function that PushAll defines exists.
Pushing(v, vals, n, f) ==
    f = [k \in 0 .. n |-> IF k = 0 THEN v ELSE PushBack(f[k - 1], vals[k])]

LEMMA PushingExists ==
  ASSUME NEW v, NEW vals, NEW n \in Nat
  PROVE  \E f : Pushing(v, vals, n, f)
  <1> DEFINE T == {m \in Nat : \E f : Pushing(v, vals, m, f)}
  <1>1. 0 \in T
    <2> DEFINE f == [k \in 0 .. 0 |-> v]
    <2>1. Pushing(v, vals, 0, f)
      BY DEF Pushing
    <2> QED BY <2>1
  <1>2. ASSUME NEW m \in 0 .. n - 1, m \in T PROVE m + 1 \in T
    <2>1. PICK f : Pushing(v, vals, m, f)
      BY <1>2
    <2> DEFINE g == [k \in 0 .. m + 1 |-> IF k <= m THEN f[k] ELSE PushBack(f[m], vals[m + 1])]
    <2>2. \A k \in 0 .. m : f[k] = IF k = 0 THEN v ELSE PushBack(f[k - 1], vals[k])
      BY <2>1 DEF Pushing
    <2>3. ASSUME NEW k \in 0 .. m + 1 PROVE g[k] = IF k = 0 THEN v ELSE PushBack(g[k - 1], vals[k])
      <3>1. CASE k = 0
        BY <2>2, <3>1
      <3>2. CASE k \in 1 .. m
        <4>1. g[k] = f[k] /\ g[k - 1] = f[k - 1] /\ k # 0 /\ k \in 0 .. m
          BY <3>2
        <4> HIDE DEF g
        <4> QED BY <2>2, <4>1
      <3>3. CASE k = m + 1
        <4>1. g[k] = PushBack(f[m], vals[m + 1]) /\ g[k - 1] = f[m] /\ k # 0
          BY <3>3
        <4> HIDE DEF g
        <4> QED BY <3>3, <4>1
      <3> QED BY <3>1, <3>2, <3>3
    <2>4. g = [k \in 0 .. m + 1 |-> IF k = 0 THEN v ELSE PushBack(g[k - 1], vals[k])]
      <3>1. g = [k \in 0 .. m + 1 |-> g[k]]
        OBVIOUS
      <3> HIDE DEF g
      <3> QED BY <2>3, <3>1
    <2>5. Pushing(v, vals, m + 1, g)
      BY <2>4 DEF Pushing
    <2> HIDE DEF g
    <2> QED BY <2>5
  <1> HIDE DEF T
  <1>3. n \in T
    BY <1>1, <1>2, Induction
  <1> QED BY <1>3 DEF T

LEMMA PushAllHas ==
  ASSUME NEW v, IsVec(v), NEW vals, IsSeq(vals)
  PROVE  /\ IsVec(PushAll(v, vals)) /\ PushAll(v, vals).size = v.size + Len(vals)
         /\ SameWords(PushAll(v, vals), v, v.size)
         /\ \A k \in 1 .. Len(vals) : PushAll(v, vals).mem[v.size + k] = vals[k]
  <1> DEFINE n == Len(vals)
             f == CHOOSE pushed : Pushing(v, vals, n, pushed)
             Pushed(k) == /\ IsVec(f[k]) /\ f[k].size = v.size + k
                          /\ SameWords(f[k], v, v.size)
                          /\ \A j \in 1 .. k : f[k].mem[v.size + j] = vals[j]
             T == {k \in 0 .. n : Pushed(k)}
  <1>1. n \in Nat /\ v.size \in Nat
    BY SeqHas, VecHas
  <1>2. Pushing(v, vals, n, f)
    BY <1>1, PushingExists
  <1>3. PushAll(v, vals) = f[n]
    BY DEF PushAll, Pushing
  <1> HIDE DEF f
  <1>4. f[0] = v /\ \A k \in 1 .. n : f[k] = PushBack(f[k - 1], vals[k])
    BY <1>1, <1>2 DEF Pushing
  <1> HIDE DEF n
  <1>5. 0 \in T
    BY <1>1, <1>4 DEF SameWords
  <1>6. ASSUME NEW k \in 0 .. n - 1, k \in T PROVE k + 1 \in T
    <2>1. Pushed(k) /\ k + 1 \in 1 .. n /\ k + 1 - 1 = k
      BY <1>1, <1>6
    <2>2. f[k + 1] = PushBack(f[k], vals[k + 1])
      BY <1>4, <2>1
    <2> DEFINE q == f[k]
               r == f[k + 1]
    <2>3. IsVec(q) /\ q.size = v.size + k /\ SameWords(q, v, v.size) /\ \A j \in 1 .. k : q.mem[v.size + j] = vals[j]
      BY <2>1
    <2> HIDE DEF q
    <2>4. /\ IsVec(r) /\ r.size = q.size + 1 /\ SameWords(r, q, q.size)
          /\ r.mem[q.size + 1] = vals[k + 1]
      BY <2>2, <2>3, PushBackHas DEF q
    <2> HIDE DEF r
    <2>5. r.size = v.size + (k + 1)
      BY <1>1, <2>3, <2>4
    <2>6. SameWords(r, v, v.size)
      BY <1>1, <2>3, <2>4 DEF SameWords
    <2>7. ASSUME NEW j \in 1 .. k + 1 PROVE r.mem[v.size + j] = vals[j]
      <3>1. CASE j = k + 1
        BY <1>1, <2>3, <2>4, <3>1
      <3>2. CASE j \in 1 .. k
        <4>1. v.size + j \in 1 .. q.size
          BY <1>1, <2>3, <3>2
        <4>2. r.mem[v.size + j] = q.mem[v.size + j]
          BY <2>4, <4>1 DEF SameWords
        <4> QED BY <2>3, <3>2, <4>2
      <3> QED BY <3>1, <3>2
    <2>8. Pushed(k + 1)
      BY <2>4, <2>5, <2>6, <2>7 DEF r
    <2> QED BY <1>1, <2>8
  <1> HIDE DEF T
  <1>7. n \in T
    BY <1>1, <1>5, <1>6, Induction
  <1>8. Pushed(n)
    BY <1>7 DEF T
  <1> QED BY <1>3, <1>8 DEF n

-----------------------------------------------------------------------------
(* Fragment: its header, metadata and payload                              *)

IsHeader(h) ==
    h \in [version : {"old", "current"}, type : {h.type}, id : {h.id},
           word_count : Nat, metadata_word_count : Nat]

\* r is h but for the fields in a set.
SameHeader(r, h, but) ==
    /\ IsHeader(r)
    /\ "version" \notin but => r.version = h.version
    /\ "type" \notin but => r.type = h.type
    /\ "id" \notin but => r.id = h.id
    /\ "word_count" \notin but => r.word_count = h.word_count
    /\ "metadata_word_count" \notin but => r.metadata_word_count = h.metadata_word_count

\* The fragment of an array and an upgraded header, as a set.
Frags(vals, header) == [vals : {vals}, upgraded_header : {header}]

\* A fragment that was not moved from.
IsFrag(f) ==
    /\ f \in Frags(f.vals, f.upgraded_header)
    /\ IsVec(f.vals)
    /\ IsHeader(RawHeader(f))
    /\ \/ f.upgraded_header = NoHeader
       \/ /\ IsHeader(f.upgraded_header)
          /\ f.upgraded_header.version = "current"
          /\ RawHeader(f).version = "old"
    /\ DataBegin(f) <= f.vals.size

LEMMA HeaderChanged ==
  ASSUME NEW h, IsHeader(h), NEW x
  PROVE  /\ SameHeader(Upgrade(h), h, {"version"}) /\ Upgrade(h).version = "current"
         /\ SameHeader([h EXCEPT !.type = x], h, {"type"}) /\ [h EXCEPT !.type = x].type = x
         /\ SameHeader([h EXCEPT !.id = x], h, {"id"}) /\ [h EXCEPT !.id = x].id = x
  <1>1. SameHeader(Upgrade(h), h, {"version"}) /\ Upgrade(h).version = "current"
    BY DEF Upgrade, SameHeader, IsHeader
  <1>2. SameHeader([h EXCEPT !.type = x], h, {"type"}) /\ [h EXCEPT !.type = x].type = x
    BY DEF SameHeader, IsHeader
  <1>3. SameHeader([h EXCEPT !.id = x], h, {"id"}) /\ [h EXCEPT !.id = x].id = x
    BY DEF SameHeader, IsHeader
  <1> QED BY <1>1, <1>2, <1>3

LEMMA CountChanged ==
  ASSUME NEW h, IsHeader(h), NEW n \in Nat
  PROVE  /\ SameHeader([h EXCEPT !.word_count = n], h, {"word_count"})
         /\ [h EXCEPT !.word_count = n].word_count = n
         /\ SameHeader([h EXCEPT !.metadata_word_count = n], h, {"metadata_word_count"})
         /\ [h EXCEPT !.metadata_word_count = n].metadata_word_count = n
  <1>1. /\ SameHeader([h EXCEPT !.word_count = n], h, {"word_count"})
        /\ [h EXCEPT !.word_count = n].word_count = n
    BY DEF SameHeader, IsHeader
  <1>2. /\ SameHeader([h EXCEPT !.metadata_word_count = n], h, {"metadata_word_count"})
        /\ [h EXCEPT !.metadata_word_count = n].metadata_word_count = n
    BY DEF SameHeader, IsHeader
  <1> QED BY <1>1, <1>2

LEMMA HeaderMade ==
  ASSUME NEW version \in {"old", "current"}, NEW type, NEW id, NEW n \in Nat, NEW m \in Nat
  PROVE  LET h == HeaderOf(version, type, id, n, m)
         IN  /\ IsHeader(h) /\ h.version = version /\ h.type = type /\ h.id = id
             /\ h.word_count = n /\ h.metadata_word_count = m
  BY DEF HeaderOf, IsHeader

LEMMA NoHeaderIs == \A h : h.version \in {"old", "current"} => h # NoHeader
  BY DEF NoHeader

\* What there is to know of a fragment's places.
LEMMA FragHas ==
  ASSUME NEW f, IsFrag(f)
  PROVE  /\ IsVec(f.vals) /\ f.vals.size \in Nat /\ f.vals.capacity \in Nat
         /\ f.vals.size <= f.vals.capacity
         /\ IsHeader(Header(f)) /\ Header(f).version = "current"
         /\ Header(f).word_count \in Nat /\ Header(f).metadata_word_count \in Nat
         /\ HeaderSizeWords(f) \in {1, 2}
         /\ DataBegin(f) \in Nat /\ DataBegin(f) = HeaderSizeWords(f) + Header(f).metadata_word_count
         /\ DataBegin(f) <= f.vals.size
         /\ DataSize(f) \in Nat /\ DataSize(f) = f.vals.size - DataBegin(f)
  <1>1. IsVec(f.vals) /\ f.vals.size \in Nat /\ f.vals.capacity \in Nat /\ f.vals.size <= f.vals.capacity
    BY VecHas DEF IsFrag
  <1>2. IsHeader(Header(f)) /\ Header(f).version = "current"
    <2>1. IsHeader(RawHeader(f)) /\ RawHeader(f).version \in {"old", "current"}
      BY DEF IsFrag, IsHeader
    <2>2. IsHeader(Upgrade(RawHeader(f))) /\ Upgrade(RawHeader(f)).version = "current"
      BY <2>1, HeaderChanged DEF SameHeader
    <2>3. CASE f.upgraded_header # NoHeader
      <3>1. Header(f) = f.upgraded_header
        BY <2>3 DEF Header
      <3> QED BY <2>3, <3>1 DEF IsFrag
    <2>4. CASE f.upgraded_header = NoHeader
      <3>1. Header(f) = IF RawHeader(f).version = "current" THEN RawHeader(f) ELSE Upgrade(RawHeader(f))
        BY <2>4 DEF Header
      <3> QED BY <2>1, <2>2, <3>1
    <2> QED BY <2>3, <2>4
  <1>3. Header(f).word_count \in Nat /\ Header(f).metadata_word_count \in Nat
    BY <1>2 DEF IsHeader
  <1>4. HeaderSizeWords(f) \in {1, 2}
    BY DEF HeaderSizeWords, NumWords
  <1>5. DataBegin(f) <= f.vals.size
    BY DEF IsFrag
  <1> QED BY <1>1, <1>2, <1>3, <1>4, <1>5 DEF DataBegin, DataSize

LEMMA ValsSet ==
  ASSUME NEW f, f \in Frags(f.vals, f.upgraded_header), NEW u
  PROVE  [f EXCEPT !.vals = u] \in Frags(u, f.upgraded_header)
  BY DEF Frags

LEMMA HeaderSet ==
  ASSUME NEW f, f \in Frags(f.vals, f.upgraded_header), NEW h
  PROVE  [f EXCEPT !.upgraded_header = h] \in Frags(f.vals, h)
  BY DEF Frags

LEMMA FragsHas ==
  ASSUME NEW u, NEW h, NEW f \in Frags(u, h)
  PROVE  f.vals = u /\ f.upgraded_header = h /\ f \in Frags(f.vals, f.upgraded_header)
  BY DEF Frags

\* An array that keeps the first word, and room for header and metadata,
\* leaves the header as it is.
LEMMA ValsChanged ==
  ASSUME NEW f, IsFrag(f), NEW u, IsVec(u), u.mem[1] = f.vals.mem[1], DataBegin(f) <= u.size,
         NEW g \in Frags(u, f.upgraded_header)
  PROVE  /\ IsFrag(g) /\ g.vals = u
         /\ RawHeader(g) = RawHeader(f) /\ Header(g) = Header(f)
         /\ HeaderSizeWords(g) = HeaderSizeWords(f) /\ DataBegin(g) = DataBegin(f)
  <1>1. g.vals = u /\ g.upgraded_header = f.upgraded_header /\ g \in Frags(g.vals, g.upgraded_header)
    BY FragsHas
  <1>2. RawHeader(g) = RawHeader(f)
    BY <1>1 DEF RawHeader
  <1>3. Header(g) = Header(f)
    BY <1>1, <1>2 DEF Header
  <1>4. HeaderSizeWords(g) = HeaderSizeWords(f) /\ DataBegin(g) = DataBegin(f)
    BY <1>2, <1>3 DEF HeaderSizeWords, DataBegin
  <1>5. IsFrag(g)
    BY <1>1, <1>2, <1>4 DEF IsFrag
  <1> QED BY <1>1, <1>2, <1>3, <1>4, <1>5

\* The array of r has the places of v's.
SamePlaces(r, v) ==
    IsVec(r) /\ r.size = v.size /\ r.capacity = v.capacity /\ r.block = v.block

LEMMA WordSet ==
  ASSUME NEW v, IsVec(v), NEW m, m = [w \in 1 .. v.capacity |-> m[w]]
  PROVE  SamePlaces([v EXCEPT !.mem = m], v) /\ [v EXCEPT !.mem = m].mem = m
  <1>1. v.size \in Nat /\ v.capacity \in Nat /\ v.block \in Nat /\ v.size <= v.capacity
    BY VecHas
  <1>2. [v EXCEPT !.mem = m] \in Vecs(v.size, v.capacity, m, v.block)
    BY DEF IsVec, Vecs
  <1> DEFINE r == [v EXCEPT !.mem = m]
  <1>3. r.block = v.block
    BY <1>2 DEF Vecs
  <1> HIDE DEF r
  <1>4. r \in Vecs(v.size, v.capacity, m, v.block)
    BY <1>2 DEF r
  <1>5. IsVec(r) /\ r.size = v.size /\ r.capacity = v.capacity /\ r.mem = m
    BY <1>1, <1>4, MadeVec
  <1> QED BY <1>3, <1>5 DEF SamePlaces, r

\* A header that is set is the header from then on; no other word changes.
LEMMA SetHeaderHas ==
  ASSUME NEW f, IsFrag(f), NEW h, IsHeader(h), h.version = "current",
         HeaderSizeWords(f) + h.metadata_word_count <= f.vals.size
  PROVE  /\ IsFrag(SetHeader(f, h)) /\ Header(SetHeader(f, h)) = h
         /\ HeaderSizeWords(SetHeader(f, h)) = HeaderSizeWords(f)
         /\ SamePlaces(SetHeader(f, h).vals, f.vals)
         /\ \A w \in 2 .. f.vals.capacity : SetHeader(f, h).vals.mem[w] = f.vals.mem[w]
  <1> DEFINE g == SetHeader(f, h)
  <1>1. f \in Frags(f.vals, f.upgraded_header) /\ IsVec(f.vals) /\ IsHeader(RawHeader(f))
    BY DEF IsFrag
  <1>2. h # NoHeader
    BY NoHeaderIs
  <1>3. CASE f.upgraded_header = NoHeader /\ RawHeader(f).version = "current"
    <2> DEFINE m == [w \in 1 .. f.vals.capacity |-> IF w = 1 THEN h ELSE f.vals.mem[w]]
               u == [f.vals EXCEPT !.mem = m]
    <2>1. /\ f.vals.mem = [w \in 1 .. f.vals.capacity |-> f.vals.mem[w]]
          /\ f.vals.capacity \in Nat /\ 1 <= f.vals.capacity
      BY FragHas DEF IsFrag, IsVec
    <2>2. m = [w \in 1 .. f.vals.capacity |-> m[w]] /\ m[1] = h /\ \A w \in 2 .. f.vals.capacity : m[w] = f.vals.mem[w]
      BY <2>1
    <2>12. m = [f.vals.mem EXCEPT ![1] = h]
      BY <2>1, Zenon
    <2>3. g = [f EXCEPT !.vals = u]
      BY <1>3, <2>12 DEF SetHeader
    <2> HIDE DEF m
    <2>4. SamePlaces(u, f.vals) /\ u.mem = m
      BY <1>1, <2>2, WordSet
    <2> HIDE DEF u, g
    <2>5. g \in Frags(u, f.upgraded_header)
      BY <1>1, <2>3, ValsSet
    <2>6. g.vals = u /\ g.upgraded_header = NoHeader /\ g \in Frags(g.vals, g.upgraded_header)
      BY <1>3, <2>5, FragsHas
    <2>7. RawHeader(g) = h
      BY <2>2, <2>4, <2>6 DEF RawHeader
    <2>8. Header(g) = h
      BY <2>6, <2>7 DEF Header
    <2>9. HeaderSizeWords(g) = HeaderSizeWords(f)
      BY <1>3, <2>7 DEF HeaderSizeWords
    <2>10. DataBegin(g) <= g.vals.size
      BY <2>4, <2>6, <2>8, <2>9 DEF DataBegin, SamePlaces
    <2>11. IsFrag(g)
      BY <2>4, <2>6, <2>7, <2>10 DEF IsFrag, SamePlaces
    <2> QED BY <2>2, <2>4, <2>6, <2>8, <2>9, <2>11 DEF g
  <1>4. CASE ~(f.upgraded_header = NoHeader /\ RawHeader(f).version = "current")
    <2>1. g = [f EXCEPT !.upgraded_header = h]
      BY <1>4 DEF SetHeader
    <2> HIDE DEF g
    <2>2. g.vals = f.vals /\ g.upgraded_header = h /\ g \in Frags(g.vals, g.upgraded_header)
      BY <1>1, <2>1, HeaderSet, FragsHas
    <2>3. RawHeader(g) = RawHeader(f)
      BY <2>2 DEF RawHeader
    <2>4. Header(g) = h
      BY <1>2, <2>2 DEF Header
    <2>5. HeaderSizeWords(g) = HeaderSizeWords(f)
      BY <2>3 DEF HeaderSizeWords
    <2>6. DataBegin(g) <= g.vals.size
      BY <2>2, <2>4, <2>5 DEF DataBegin
    <2>7. RawHeader(f).version = "old"
      BY <1>4 DEF IsFrag, IsHeader
    <2>8. IsFrag(g)
      BY <1>1, <2>2, <2>3, <2>6, <2>7 DEF IsFrag
    <2> QED BY <1>1, <2>2, <2>4, <2>5, <2>8 DEF g, SamePlaces
  <1> QED BY <1>3, <1>4

\* Words that are written are there, the others as they were.
LEMMA WriteWordsHas ==
  ASSUME NEW f, f \in Frags(f.vals, f.upgraded_header), IsVec(f.vals), NEW at \in Nat, NEW words, IsSeq(words)
  PROVE  /\ WriteWords(f, at, words) \in Frags(WriteWords(f, at, words).vals, f.upgraded_header)
         /\ SamePlaces(WriteWords(f, at, words).vals, f.vals)
         /\ \A w \in 1 .. f.vals.capacity : WriteWords(f, at, words).vals.mem[w] =
               IF w \in at + 1 .. at + Len(words) THEN words[w - at] ELSE f.vals.mem[w]
  <1> DEFINE g == WriteWords(f, at, words)
             word(w) == IF w \in at + 1 .. at + Len(words) THEN words[w - at] ELSE f.vals.mem[w]
             m == [w \in DOMAIN f.vals.mem |-> word(w)]
             u == [f.vals EXCEPT !.mem = m]
  <1>1. DOMAIN f.vals.mem = 1 .. f.vals.capacity
    BY VecHas
  <1>2. m = [w \in 1 .. f.vals.capacity |-> m[w]] /\ \A w \in 1 .. f.vals.capacity : m[w] = word(w)
    BY <1>1
  <1>3. g = [f EXCEPT !.vals = u]
    BY DEF WriteWords
  <1> HIDE DEF m
  <1>4. SamePlaces(u, f.vals) /\ u.mem = m
    BY <1>2, WordSet
  <1> HIDE DEF u, g
  <1>5. g \in Frags(u, f.upgraded_header) /\ g.vals = u
    BY <1>3, ValsSet, FragsHas
  <1> QED BY <1>2, <1>4, <1>5 DEF g

\* Words that are written behind the header leave it as it is.
LEMMA WrittenFrag ==
  ASSUME NEW f, IsFrag(f), NEW at \in Nat, NEW words, IsSeq(words), 1 <= at
  PROVE  /\ IsFrag(WriteWords(f, at, words))
         /\ Header(WriteWords(f, at, words)) = Header(f)
         /\ HeaderSizeWords(WriteWords(f, at, words)) = HeaderSizeWords(f)
         /\ SamePlaces(WriteWords(f, at, words).vals, f.vals)
  <1> DEFINE g == WriteWords(f, at, words)
             u == g.vals
  <1>1. f \in Frags(f.vals, f.upgraded_header) /\ IsVec(f.vals)
    BY DEF IsFrag
  <1>2. /\ g \in Frags(g.vals, f.upgraded_header)
        /\ SamePlaces(g.vals, f.vals)
        /\ \A w \in 1 .. f.vals.capacity : g.vals.mem[w] =
              IF w \in at + 1 .. at + Len(words) THEN words[w - at] ELSE f.vals.mem[w]
    BY <1>1, WriteWordsHas
  <1> HIDE DEF g
  <1>3. 1 \in 1 .. f.vals.capacity /\ DataBegin(f) <= f.vals.size /\ Len(words) \in Nat
    BY FragHas, SeqHas
  <1>4. u.mem[1] = f.vals.mem[1]
    BY <1>2, <1>3
  <1>5. IsVec(u) /\ DataBegin(f) <= u.size
    BY <1>2, <1>3 DEF SamePlaces
  <1> HIDE DEF u
  <1>6. g \in Frags(u, f.upgraded_header)
    BY <1>2 DEF u
  <1>7. IsFrag(g) /\ Header(g) = Header(f) /\ HeaderSizeWords(g) = HeaderSizeWords(f)
    BY <1>4, <1>5, <1>6, ValsChanged
  <1> QED BY <1>2, <1>7 DEF g

LEMMA UpdateWCHas ==
  ASSUME NEW f, IsFrag(f)
  PROVE  /\ IsFrag(UpdateWC(f)) /\ SameHeader(Header(UpdateWC(f)), Header(f), {"word_count"})
         /\ Header(UpdateWC(f)).word_count = f.vals.size
         /\ HeaderSizeWords(UpdateWC(f)) = HeaderSizeWords(f)
         /\ SamePlaces(UpdateWC(f).vals, f.vals)
         /\ \A w \in 2 .. f.vals.capacity : UpdateWC(f).vals.mem[w] = f.vals.mem[w]
  <1> DEFINE h == [Header(f) EXCEPT !.word_count = f.vals.size]
  <1>1. /\ IsHeader(Header(f)) /\ Header(f).version = "current" /\ f.vals.size \in Nat
        /\ HeaderSizeWords(f) + Header(f).metadata_word_count <= f.vals.size
    BY FragHas
  <1>2. SameHeader(h, Header(f), {"word_count"}) /\ h.word_count = f.vals.size
    BY <1>1, CountChanged
  <1>3. UpdateWC(f) = SetHeader(f, h)
    BY DEF UpdateWC
  <1> HIDE DEF h
  <1>4. IsHeader(h) /\ h.version = "current" /\ HeaderSizeWords(f) + h.metadata_word_count <= f.vals.size
    BY <1>1, <1>2 DEF SameHeader
  <1> QED BY <1>2, <1>3, <1>4, SetHeaderHas

-----------------------------------------------------------------------------
(* What a fragment holds                                                   *)

\* The fragment f is whole and holds what v promises.
Keeps(f, v) ==
    /\ IsFrag(f)
    /\ Header(f).word_count = f.vals.size
    /\ v \in [type : {Header(f).type}, id : {Header(f).id}, metadata : {v.metadata}, payload : {v.payload}]
    /\ IsSeq(v.metadata) /\ Len(v.metadata) = Header(f).metadata_word_count
    /\ IsSeq(v.payload) /\ Len(v.payload) = DataSize(f)
    /\ \A k \in 1 .. Len(v.metadata) : f.vals.mem[HeaderSizeWords(f) + k] = v.metadata[k]
    /\ \A k \in 1 .. Len(v.payload) :
          v.payload[k] # Junk => f.vals.mem[DataBegin(f) + k] = v.payload[k]

LEMMA KeepsContents ==
  ASSUME NEW f, NEW v, Keeps(f, v)
  PROVE  WellFormed(f) /\ Agrees(Value(f), v)
  <1> DEFINE b == HeaderSizeWords(f)
             d == DataBegin(f)
             mem == f.vals.mem
             metadata == SubSeq(mem, b + 1, d)
             payload == SubSeq(mem, d + 1, f.vals.size)
  <1>1. IsFrag(f)
    BY DEF Keeps
  <1>2. /\ IsSeq(mem) /\ Len(mem) = f.vals.capacity /\ f.vals.size <= f.vals.capacity
        /\ f.vals.size \in Nat /\ f.vals.capacity \in Nat
        /\ b \in {1, 2} /\ d \in Nat /\ d <= f.vals.size /\ d = b + Header(f).metadata_word_count
        /\ Header(f).metadata_word_count \in Nat /\ DataSize(f) = f.vals.size - d
    BY <1>1, FragHas, VecHas
  <1>3. WellFormed(f)
    BY <1>2 DEF WellFormed, Keeps
  <1>4. /\ IsSeq(v.metadata) /\ Len(v.metadata) = d - b
        /\ IsSeq(v.payload) /\ Len(v.payload) = f.vals.size - d
        /\ \A k \in 1 .. Len(v.metadata) : mem[b + k] = v.metadata[k]
        /\ \A k \in 1 .. Len(v.payload) : v.payload[k] # Junk => mem[d + k] = v.payload[k]
        /\ v.type = Header(f).type /\ v.id = Header(f).id
    BY <1>2 DEF Keeps
  <1>5. Value(f) = [type |-> Header(f).type, id |-> Header(f).id, metadata |-> metadata, payload |-> payload]
    BY DEF Value
  <1> HIDE DEF b, d, mem
  <1>6. /\ IsSeq(metadata) /\ Len(metadata) = d - b
        /\ \A k \in 1 .. d - b : metadata[k] = mem[b + k]
    <2>1. d <= Len(mem) /\ b \in Nat /\ d \in Nat /\ b <= d /\ IsSeq(mem)
      BY <1>2
    <2> QED BY <2>1, PartHas
  <1>7. /\ Len(payload) = f.vals.size - d
        /\ \A k \in 1 .. f.vals.size - d : payload[k] = mem[d + k]
    <2>1. f.vals.size <= Len(mem) /\ d \in Nat /\ f.vals.size \in Nat /\ d <= f.vals.size /\ IsSeq(mem)
      BY <1>2
    <2> QED BY <2>1, PartHas
  <1> HIDE DEF metadata, payload
  <1>8. metadata = v.metadata
    BY <1>4, <1>6, SeqSame
  <1>9. DOMAIN v.payload = 1 .. f.vals.size - d
    BY <1>4, SeqHas
  <1>10. \A k \in DOMAIN v.payload : v.payload[k] # Junk => payload[k] = v.payload[k]
    BY <1>4, <1>7, <1>9
  <1> QED BY <1>3, <1>4, <1>5, <1>7, <1>8, <1>10 DEF Agrees

\* The places of what a fragment holds.
LEMMA KeepsHas ==
  ASSUME NEW f, NEW v, Keeps(f, v)
  PROVE  /\ IsFrag(f)
         /\ f.vals.size \in Nat /\ f.vals.capacity \in Nat /\ f.vals.size <= f.vals.capacity
         /\ HeaderSizeWords(f) \in {1, 2} /\ DataBegin(f) \in Nat
         /\ DataBegin(f) = HeaderSizeWords(f) + Len(v.metadata)
         /\ f.vals.size = DataBegin(f) + Len(v.payload)
         /\ Header(f).word_count = f.vals.size
         /\ Header(f).metadata_word_count = Len(v.metadata)
         /\ Len(v.metadata) \in Nat /\ Len(v.payload) \in Nat
  <1>1. IsFrag(f) /\ IsSeq(v.metadata) /\ IsSeq(v.payload)
    BY DEF Keeps
  <1>2. /\ f.vals.size \in Nat /\ f.vals.capacity \in Nat /\ f.vals.size <= f.vals.capacity
        /\ HeaderSizeWords(f) \in {1, 2} /\ DataBegin(f) \in Nat
        /\ DataBegin(f) = HeaderSizeWords(f) + Header(f).metadata_word_count
        /\ DataSize(f) = f.vals.size - DataBegin(f)
    BY <1>1, FragHas
  <1>3. Len(v.metadata) \in Nat /\ Len(v.payload) \in Nat
    BY <1>1, SeqHas
  <1>4. /\ Header(f).word_count = f.vals.size
        /\ Header(f).metadata_word_count = Len(v.metadata)
        /\ DataSize(f) = Len(v.payload)
    BY DEF Keeps
  <1> QED BY <1>1, <1>2, <1>3, <1>4

\* The places of m words of metadata and p of payload behind a header of b.
LEMMA Places ==
  ASSUME NEW b \in {1, 2}, NEW m \in Nat, NEW p \in Nat, NEW d \in Nat, NEW s \in Nat,
         d = b + m, s = d + p
  PROVE  /\ 1 \in 1 .. d /\ 1 \in 1 .. s /\ d <= s
         /\ \A k \in 1 .. m : b + k \in 2 .. d /\ b + k \in 2 .. s
         /\ \A k \in 1 .. p : d + k \in 2 .. s
  OBVIOUS

LEMMA KeepsPlaces ==
  ASSUME NEW f, NEW v, Keeps(f, v)
  PROVE  /\ 1 \in 1 .. DataBegin(f) /\ 1 \in 1 .. f.vals.size
         /\ \A k \in 1 .. Len(v.metadata) : HeaderSizeWords(f) + k \in 2 .. f.vals.size
         /\ \A k \in 1 .. Len(v.payload) : DataBegin(f) + k \in 2 .. f.vals.size
         /\ \A w \in 2 .. f.vals.size : w \in 2 .. f.vals.capacity
  <1> DEFINE b == HeaderSizeWords(f)
             d == DataBegin(f)
             m == Len(v.metadata)
             p == Len(v.payload)
             s == f.vals.size
             c == f.vals.capacity
  <1>1. /\ b \in {1, 2} /\ d \in Nat /\ m \in Nat /\ p \in Nat /\ s \in Nat /\ c \in Nat
        /\ d = b + m /\ s = d + p /\ s <= c
    BY KeepsHas
  <1> HIDE DEF b, d, m, p, s, c
  <1>2. /\ 1 \in 1 .. d /\ 1 \in 1 .. s
        /\ \A k \in 1 .. m : b + k \in 2 .. s
        /\ \A k \in 1 .. p : d + k \in 2 .. s
    BY <1>1, Places
  <1>3. \A w \in 2 .. s : w \in 2 .. c
    BY <1>1
  <1> QED BY <1>2, <1>3 DEF b, d, m, p, s, c

\* Of these, the words that a resize to n words of payload, and then a store
\* to the header, leave as they were.
LEMMA PlacesKept ==
  ASSUME NEW b \in {1, 2}, NEW m \in Nat, NEW p \in Nat, NEW d \in Nat, NEW s \in Nat,
         d = b + m, s = d + p, NEW n \in Nat, NEW c \in Nat, n + d <= c,
         NEW mem, NEW resized, NEW stored,
         \A w \in 1 .. s : w <= n + d => resized[w] = mem[w],
         \A w \in 2 .. c : stored[w] = resized[w]
  PROVE  /\ \A k \in 1 .. m : stored[b + k] = mem[b + k]
         /\ \A k \in 1 .. n : k <= p => stored[d + k] = mem[d + k]
  <1>1. ASSUME NEW k \in 1 .. m PROVE stored[b + k] = mem[b + k]
    <2>1. b + k \in 1 .. s /\ b + k <= n + d /\ b + k \in 2 .. c
      OBVIOUS
    <2> QED BY <2>1
  <1>2. ASSUME NEW k \in 1 .. n, k <= p PROVE stored[d + k] = mem[d + k]
    <2>1. d + k \in 1 .. s /\ d + k <= n + d /\ d + k \in 2 .. c
      BY <1>2
    <2> QED BY <2>1
  <1> QED BY <1>1, <1>2

\* A fragment with the same header and the same words behind it.
LEMMA SameKeeps ==
  ASSUME NEW f, NEW v, Keeps(f, v), NEW g, IsFrag(g), Header(g) = Header(f),
         HeaderSizeWords(g) = HeaderSizeWords(f), g.vals.size = f.vals.size,
         \A w \in 2 .. f.vals.size : g.vals.mem[w] = f.vals.mem[w]
  PROVE  Keeps(g, v)
  <1> DEFINE b == HeaderSizeWords(f)
             d == DataBegin(f)
  <1>1. /\ f.vals.size \in Nat /\ b \in {1, 2} /\ d \in Nat /\ d = b + Len(v.metadata)
        /\ f.vals.size = d + Len(v.payload) /\ Len(v.metadata) \in Nat /\ Len(v.payload) \in Nat
    BY KeepsHas
  <1>2. HeaderSizeWords(g) = b /\ DataBegin(g) = d /\ DataSize(g) = DataSize(f)
    BY DEF DataBegin, DataSize
  <1>3. /\ \A k \in 1 .. Len(v.metadata) : f.vals.mem[b + k] = v.metadata[k]
        /\ \A k \in 1 .. Len(v.payload) : v.payload[k] # Junk => f.vals.mem[d + k] = v.payload[k]
    BY DEF Keeps
  <1> HIDE DEF b, d
  <1>4. \A k \in 1 .. Len(v.metadata) : g.vals.mem[b + k] = v.metadata[k]
    <2> SUFFICES ASSUME NEW k \in 1 .. Len(v.metadata) PROVE g.vals.mem[b + k] = v.metadata[k]
      OBVIOUS
    <2>1. b + k \in 2 .. f.vals.size
      BY KeepsPlaces DEF b
    <2> QED BY <1>3, <2>1
  <1>5. \A k \in 1 .. Len(v.payload) : v.payload[k] # Junk => g.vals.mem[d + k] = v.payload[k]
    <2> SUFFICES ASSUME NEW k \in 1 .. Len(v.payload) PROVE g.vals.mem[d + k] = f.vals.mem[d + k]
      BY <1>3
    <2>1. d + k \in 2 .. f.vals.size
      BY KeepsPlaces DEF d
    <2> QED BY <2>1
  <1> QED BY <1>2, <1>4, <1>5 DEF Keeps

\* A fragment that has been looked at has the words and the header it had.
LEMMA AccessedHas ==
  ASSUME NEW f
  PROVE  /\ Accessed(f).vals = f.vals /\ RawHeader(Accessed(f)) = RawHeader(f)
         /\ Header(Accessed(f)) = Header(f) /\ HeaderSizeWords(Accessed(f)) = HeaderSizeWords(f)
         /\ DataBegin(Accessed(f)) = DataBegin(f) /\ DataSize(Accessed(f)) = DataSize(f)
  <1> DEFINE g == Accessed(f)
             h == Header(f)
  <1>1. /\ g = IF RawHeader(f).version = "old" THEN [vals |-> f.vals, upgraded_header |-> h] ELSE f
        /\ h = IF f.upgraded_header # NoHeader THEN f.upgraded_header
               ELSE IF RawHeader(f).version = "current" THEN RawHeader(f)
               ELSE Upgrade(RawHeader(f))
    BY DEF Accessed, Header
  <1> HIDE DEF g, h
  <1>2. g.vals = f.vals
    BY <1>1
  <1>3. RawHeader(g) = RawHeader(f)
    BY <1>2 DEF RawHeader
  <1>4. Header(g) = h
    <2>1. CASE RawHeader(f).version = "old"
      <3>1. g.upgraded_header = h
        BY <1>1, <2>1
      <3> QED BY <1>1, <1>3, <2>1, <3>1 DEF Header
    <2>2. CASE RawHeader(f).version # "old"
      BY <1>1, <2>2 DEF h
    <2> QED BY <2>1, <2>2
  <1>5. HeaderSizeWords(g) = HeaderSizeWords(f)
    BY <1>3 DEF HeaderSizeWords
  <1>6. DataBegin(g) = DataBegin(f)
    BY <1>4, <1>5 DEF DataBegin, h
  <1>7. DataSize(g) = DataSize(f)
    BY <1>2, <1>6 DEF DataSize
  <1> QED BY <1>2, <1>3, <1>4, <1>5, <1>6, <1>7 DEF g, h

LEMMA AccessedKeeps ==
  ASSUME NEW f, NEW v, Keeps(f, v)
  PROVE  Keeps(Accessed(f), v)
  <1> DEFINE g == Accessed(f)
             h == Header(f)
  <1>1. IsFrag(f) /\ IsVec(f.vals) /\ IsHeader(RawHeader(f)) /\ IsHeader(h) /\ h.version = "current"
    BY FragHas DEF Keeps, IsFrag
  <1>2. /\ g.vals = f.vals /\ RawHeader(g) = RawHeader(f) /\ Header(g) = h
        /\ HeaderSizeWords(g) = HeaderSizeWords(f) /\ DataBegin(g) = DataBegin(f)
    BY AccessedHas
  <1>3. g = IF RawHeader(f).version = "old" THEN [vals |-> f.vals, upgraded_header |-> h] ELSE f
    BY DEF Accessed
  <1> HIDE DEF g, h
  <1>4. IsFrag(g)
    <2>1. CASE RawHeader(f).version = "old"
      <3>1. g \in Frags(f.vals, h)
        BY <1>3, <2>1 DEF Frags
      <3>2. g \in Frags(g.vals, g.upgraded_header) /\ g.upgraded_header = h
        BY <3>1, FragsHas
      <3>3. DataBegin(g) <= g.vals.size
        BY <1>1, <1>2 DEF IsFrag
      <3> QED BY <1>1, <1>2, <2>1, <3>2, <3>3 DEF IsFrag
    <2>2. CASE RawHeader(f).version # "old"
      BY <1>1, <1>3, <2>2
    <2> QED BY <2>1, <2>2
  <1> QED BY <1>2, <1>4, SameKeeps DEF g, h

\* A fragment with another array, and its words counted anew, has the payload
\* that fits into it.
LEMMA ResizedKeeps ==
  ASSUME NEW f, NEW v, Keeps(f, v), NEW n \in Nat, NEW u, IsVec(u), u.size = n + DataBegin(f),
         \A w \in 1 .. f.vals.size : w <= u.size => u.mem[w] = f.vals.mem[w]
  PROVE  /\ Keeps(UpdateWC([f EXCEPT !.vals = u]), Resized(v, n))
         /\ DataBegin(UpdateWC([f EXCEPT !.vals = u])) = DataBegin(f)
         /\ HeaderSizeWords(UpdateWC([f EXCEPT !.vals = u])) = HeaderSizeWords(f)
         /\ SamePlaces(UpdateWC([f EXCEPT !.vals = u]).vals, u)
         /\ \A w \in 2 .. u.capacity : UpdateWC([f EXCEPT !.vals = u]).vals.mem[w] = u.mem[w]
  <1> DEFINE b == HeaderSizeWords(f)
             d == DataBegin(f)
             h == [f EXCEPT !.vals = u]
             g == UpdateWC(h)
             p == [k \in 1 .. n |-> IF k <= Len(v.payload) THEN v.payload[k] ELSE Junk]
             r == Resized(v, n)
  <1>1. /\ IsFrag(f) /\ f.vals.size \in Nat /\ b \in {1, 2} /\ d \in Nat /\ d = b + Len(v.metadata)
        /\ f.vals.size = d + Len(v.payload) /\ Len(v.metadata) \in Nat /\ Len(v.payload) \in Nat
        /\ u.size \in Nat /\ u.capacity \in Nat /\ u.size <= u.capacity /\ d <= u.size
    BY KeepsHas, VecHas
  <1>2. h \in Frags(u, f.upgraded_header)
    BY <1>1, ValsSet DEF IsFrag
  <1>3. u.mem[1] = f.vals.mem[1]
    <2>1. 1 \in 1 .. f.vals.size /\ 1 <= u.size
      <3>1. 1 \in 1 .. d /\ 1 \in 1 .. f.vals.size
        BY <1>1, Places
      <3> QED BY <1>1, <3>1
    <2> QED BY <2>1
  <1> HIDE DEF h
  <1>4. IsFrag(h) /\ h.vals = u /\ Header(h) = Header(f) /\ HeaderSizeWords(h) = b
    BY <1>1, <1>2, <1>3, ValsChanged
  <1>5. /\ IsFrag(g) /\ SameHeader(Header(g), Header(f), {"word_count"})
        /\ Header(g).word_count = u.size
        /\ HeaderSizeWords(g) = b
        /\ SamePlaces(g.vals, u)
        /\ \A w \in 2 .. u.capacity : g.vals.mem[w] = u.mem[w]
    BY <1>4, UpdateWCHas
  <1> HIDE DEF g
  <1>6. /\ Header(g).metadata_word_count = Header(f).metadata_word_count
        /\ Header(g).type = Header(f).type /\ Header(g).id = Header(f).id
        /\ g.vals.size = u.size
    BY <1>5 DEF SameHeader, SamePlaces
  <1>7. DataBegin(g) = d /\ DataSize(g) = n
    <2>1. DataBegin(g) = d
      BY <1>5, <1>6 DEF DataBegin
    <2> QED BY <1>1, <1>6, <2>1 DEF DataSize
  <1>8. r = [v EXCEPT !.payload = p]
    BY DEF Resized
  <1>9. IsSeq(p) /\ Len(p) = n
    BY FcnIsSeq
  <1>10. \A k \in 1 .. n : p[k] # Junk => k <= Len(v.payload) /\ p[k] = v.payload[k]
    OBVIOUS
  <1> HIDE DEF p, r
  <1>11. r \in [type : {Header(f).type}, id : {Header(f).id}, metadata : {v.metadata}, payload : {p}]
    BY <1>8 DEF Keeps
  <1>12. r.metadata = v.metadata /\ r.payload = p
    BY <1>11
  <1>13. /\ IsSeq(v.metadata) /\ Len(v.metadata) = Header(f).metadata_word_count
         /\ \A k \in 1 .. Len(v.metadata) : f.vals.mem[b + k] = v.metadata[k]
         /\ \A k \in 1 .. Len(v.payload) : v.payload[k] # Junk => f.vals.mem[d + k] = v.payload[k]
    BY DEF Keeps
  <1> HIDE DEF b, d
  <1>14. /\ \A k \in 1 .. Len(v.metadata) : g.vals.mem[b + k] = f.vals.mem[b + k]
         /\ \A k \in 1 .. n : k <= Len(v.payload) => g.vals.mem[d + k] = f.vals.mem[d + k]
    <2> DEFINE s == f.vals.size
               mem == f.vals.mem
               resized == u.mem
               stored == g.vals.mem
               c == u.capacity
               m == Len(v.metadata)
               l == Len(v.payload)
    <2>1. /\ b \in {1, 2} /\ m \in Nat /\ l \in Nat /\ d \in Nat /\ s \in Nat
          /\ d = b + m /\ s = d + l /\ c \in Nat
      BY <1>1
    <2>2. u.size = n + d
      BY DEF d
    <2>3. n + d <= c
      BY <1>1, <2>2
    <2>4. /\ \A w \in 1 .. s : w <= n + d => resized[w] = mem[w]
          /\ \A w \in 2 .. c : stored[w] = resized[w]
      BY <1>5, <2>2
    <2> HIDE DEF s, mem, resized, stored, c, m, l
    <2>5. /\ \A k \in 1 .. m : stored[b + k] = mem[b + k]
          /\ \A k \in 1 .. n : k <= l => stored[d + k] = mem[d + k]
      BY <2>1, <2>3, <2>4, PlacesKept
    <2> QED BY <2>5 DEF mem, stored, m, l
  <1>15. ASSUME NEW k \in 1 .. n, p[k] # Junk PROVE g.vals.mem[d + k] = p[k]
    <2>1. k \in 1 .. Len(v.payload) /\ p[k] = v.payload[k] /\ k <= Len(v.payload)
      BY <1>1, <1>10, <1>15
    <2> QED BY <1>13, <1>14, <1>15, <2>1
  <1>16. Header(g).word_count = g.vals.size
    BY <1>5, <1>6
  <1>17. r \in [type : {Header(g).type}, id : {Header(g).id}, metadata : {r.metadata}, payload : {r.payload}]
    BY <1>6, <1>11, <1>12
  <1>18. Keeps(g, r)
    BY <1>5, <1>6, <1>7, <1>9, <1>12, <1>13, <1>14, <1>15, <1>16, <1>17 DEF Keeps
  <1> QED BY <1>5, <1>7, <1>18 DEF r, g, h, d, b

-----------------------------------------------------------------------------
(* What each function of a fragment leaves in it                           *)

LEMMA ResizeKeeps ==
  ASSUME NEW f, NEW v, Keeps(f, v), NEW n \in Nat, NEW val
  PROVE  /\ Keeps(ResizeData(f, n), Resized(v, n))
         /\ Keeps(ResizeDataFilled(f, n, val), Resized(v, n))
         /\ Keeps(ResizeDataWithCushion(f, n), Resized(v, n))
  <1> DEFINE s == n + DataBegin(f)
  <1>1. IsVec(f.vals) /\ s \in Nat
    BY KeepsHas DEF IsFrag
  <1>2. ASSUME NEW u, ResizedTo(u, f.vals, s) PROVE Keeps(UpdateWC([f EXCEPT !.vals = u]), Resized(v, n))
    <2>1. IsVec(u) /\ u.size = n + DataBegin(f) /\ \A w \in 1 .. f.vals.size : w <= u.size => u.mem[w] = f.vals.mem[w]
      BY <1>2 DEF ResizedTo, SameWords
    <2> QED BY <2>1, ResizedKeeps
  <1>3. /\ ResizedTo(Resize(f.vals, s), f.vals, s)
        /\ ResizedTo(ResizeFilled(f.vals, s, val), f.vals, s)
        /\ ResizedTo(ResizeWithCushion(f.vals, s), f.vals, s)
    BY <1>1, ResizeHas, ResizeFilledHas, ResizeWithCushionHas
  <1>4. /\ ResizeData(f, n) = UpdateWC([f EXCEPT !.vals = Resize(f.vals, s)])
        /\ ResizeDataFilled(f, n, val) = UpdateWC([f EXCEPT !.vals = ResizeFilled(f.vals, s, val)])
        /\ ResizeDataWithCushion(f, n) = UpdateWC([f EXCEPT !.vals = ResizeWithCushion(f.vals, s)])
    BY DEF ResizeData, ResizeDataFilled, ResizeDataWithCushion
  <1> QED BY <1>2, <1>3, <1>4

LEMMA ClearKeeps ==
  ASSUME NEW f, NEW v, Keeps(f, v)
  PROVE  Keeps(ClearData(f), Resized(v, 0))
  <1> DEFINE u == Erase(f.vals, DataBegin(f), f.vals.size)
  <1>1. IsVec(f.vals) /\ DataBegin(f) \in 0 .. f.vals.size /\ DataBegin(f) \in Nat
    BY FragHas DEF Keeps
  <1>2. IsVec(u) /\ u.size = DataBegin(f) /\ SameWords(u, f.vals, DataBegin(f))
    BY <1>1, EraseHas
  <1>3. ClearData(f) = UpdateWC([f EXCEPT !.vals = u])
    BY DEF ClearData
  <1> HIDE DEF u
  <1>4. u.size = 0 + DataBegin(f) /\ \A w \in 1 .. f.vals.size : w <= u.size => u.mem[w] = f.vals.mem[w]
    BY <1>1, <1>2 DEF SameWords
  <1> QED BY <1>2, <1>3, <1>4, ResizedKeeps

LEMMA ReserveKeeps ==
  ASSUME NEW f, NEW v, Keeps(f, v), NEW n \in Nat
  PROVE  Keeps(ReserveData(f, n), v)
  <1> DEFINE u == Reserve(f.vals, n + DataBegin(f))
             g == ReserveData(f, n)
  <1>1. /\ IsFrag(f) /\ IsVec(f.vals) /\ n + DataBegin(f) \in Nat
        /\ f.vals.size \in Nat /\ DataBegin(f) <= f.vals.size
    BY FragHas DEF Keeps
  <1>2. IsVec(u) /\ u.size = f.vals.size /\ SameWords(u, f.vals, f.vals.size)
    BY <1>1, ReserveHas
  <1>3. g = [f EXCEPT !.vals = u]
    BY DEF ReserveData
  <1> HIDE DEF u, g
  <1>4. u.mem[1] = f.vals.mem[1]
    BY <1>2, KeepsPlaces DEF SameWords
  <1>5. g \in Frags(u, f.upgraded_header)
    BY <1>1, <1>3, ValsSet DEF IsFrag
  <1>6. IsFrag(g) /\ g.vals = u /\ Header(g) = Header(f) /\ HeaderSizeWords(g) = HeaderSizeWords(f)
    BY <1>1, <1>2, <1>4, <1>5, ValsChanged
  <1>7. \A w \in 2 .. f.vals.size : g.vals.mem[w] = f.vals.mem[w]
    BY <1>1, <1>2, <1>6 DEF SameWords
  <1> QED BY <1>2, <1>6, <1>7, SameKeeps DEF g

\* A header that is set, with the same counts.
LEMMA HeaderKeeps ==
  ASSUME NEW f, NEW v, Keeps(f, v), NEW h, IsHeader(h), h.version = "current",
         h.word_count = Header(f).word_count, h.metadata_word_count = Header(f).metadata_word_count,
         NEW r \in [type : {h.type}, id : {h.id}, metadata : {v.metadata}, payload : {v.payload}]
  PROVE  Keeps(SetHeader(f, h), r) /\ HeaderSizeWords(SetHeader(f, h)) = HeaderSizeWords(f)
  <1> DEFINE g == SetHeader(f, h)
             b == HeaderSizeWords(f)
             d == DataBegin(f)
  <1>1. /\ IsFrag(f) /\ b \in {1, 2} /\ d \in Nat /\ d = b + Len(v.metadata)
        /\ f.vals.size = d + Len(v.payload) /\ f.vals.size \in Nat /\ f.vals.capacity \in Nat
        /\ f.vals.size <= f.vals.capacity /\ Len(v.metadata) \in Nat /\ Len(v.payload) \in Nat
        /\ Header(f).metadata_word_count = Len(v.metadata)
    BY KeepsHas
  <1>2. HeaderSizeWords(f) + h.metadata_word_count <= f.vals.size
    BY <1>1
  <1>3. /\ IsFrag(g) /\ Header(g) = h /\ HeaderSizeWords(g) = b
        /\ SamePlaces(g.vals, f.vals)
        /\ \A w \in 2 .. f.vals.capacity : g.vals.mem[w] = f.vals.mem[w]
    BY <1>1, <1>2, SetHeaderHas
  <1> HIDE DEF g
  <1>4. DataBegin(g) = d /\ DataSize(g) = DataSize(f)
    BY <1>3 DEF DataBegin, DataSize, SamePlaces
  <1>5. /\ \A k \in 1 .. Len(v.metadata) : f.vals.mem[b + k] = v.metadata[k]
        /\ \A k \in 1 .. Len(v.payload) : v.payload[k] # Junk => f.vals.mem[d + k] = v.payload[k]
        /\ IsSeq(v.metadata) /\ Len(v.metadata) = Header(f).metadata_word_count
        /\ IsSeq(v.payload) /\ Len(v.payload) = DataSize(f) /\ Header(f).word_count = f.vals.size
    BY DEF Keeps
  <1>6. /\ \A k \in 1 .. Len(v.metadata) : b + k \in 2 .. f.vals.size
        /\ \A k \in 1 .. Len(v.payload) : d + k \in 2 .. f.vals.size
    BY KeepsPlaces
  <1>7. \A w \in 2 .. f.vals.size : g.vals.mem[w] = f.vals.mem[w]
    BY <1>3, KeepsPlaces
  <1> HIDE DEF b, d
  <1>8. r.type = h.type /\ r.id = h.id /\ r.metadata = v.metadata /\ r.payload = v.payload
    OBVIOUS
  <1>9. r \in [type : {Header(g).type}, id : {Header(g).id}, metadata : {r.metadata}, payload : {r.payload}]
    BY <1>3, <1>8
  <1>10. Header(g).word_count = g.vals.size
    BY <1>3, <1>5 DEF SamePlaces
  <1>11. Keeps(g, r)
    BY <1>3, <1>4, <1>5, <1>6, <1>7, <1>8, <1>9, <1>10 DEF Keeps
  <1> QED BY <1>3, <1>11 DEF g, b

LEMMA SetTypeKeeps ==
  ASSUME NEW f, NEW v, Keeps(f, v), NEW x
  PROVE  /\ Keeps(SetType(f, x), [v EXCEPT !.type = x])
         /\ Keeps(SetId(f, x), [v EXCEPT !.id = x])
         /\ HeaderSizeWords(SetType(f, x)) = HeaderSizeWords(f)
         /\ HeaderSizeWords(SetId(f, x)) = HeaderSizeWords(f)
  <1> DEFINE h == Header(f)
             ht == [h EXCEPT !.type = x]
             hi == [h EXCEPT !.id = x]
  <1>1. IsHeader(h) /\ h.version = "current"
    BY FragHas DEF Keeps
  <1>2. v \in [type : {h.type}, id : {h.id}, metadata : {v.metadata}, payload : {v.payload}]
    BY DEF Keeps
  <1>3. SetType(f, x) = SetHeader(f, ht) /\ SetId(f, x) = SetHeader(f, hi)
    BY DEF SetType, SetId
  <1> HIDE DEF h
  <1>4. /\ SameHeader(ht, h, {"type"}) /\ ht.type = x
        /\ SameHeader(hi, h, {"id"}) /\ hi.id = x
    BY <1>1, HeaderChanged
  <1> HIDE DEF ht, hi
  <1>5. /\ IsHeader(ht) /\ ht.version = "current" /\ ht.word_count = h.word_count
        /\ ht.metadata_word_count = h.metadata_word_count /\ ht.id = h.id
        /\ IsHeader(hi) /\ hi.version = "current" /\ hi.word_count = h.word_count
        /\ hi.metadata_word_count = h.metadata_word_count /\ hi.type = h.type
    BY <1>1, <1>4 DEF SameHeader
  <1>6. [v EXCEPT !.type = x] \in [type : {ht.type}, id : {ht.id}, metadata : {v.metadata}, payload : {v.payload}]
    BY <1>2, <1>4, <1>5
  <1>7. [v EXCEPT !.id = x] \in [type : {hi.type}, id : {hi.id}, metadata : {v.metadata}, payload : {v.payload}]
    BY <1>2, <1>4, <1>5
  <1>8. Keeps(SetHeader(f, ht), [v EXCEPT !.type = x]) /\ HeaderSizeWords(SetHeader(f, ht)) = HeaderSizeWords(f)
    BY <1>5, <1>6, HeaderKeeps DEF h
  <1>9. Keeps(SetHeader(f, hi), [v EXCEPT !.id = x]) /\ HeaderSizeWords(SetHeader(f, hi)) = HeaderSizeWords(f)
    BY <1>5, <1>7, HeaderKeeps DEF h
  <1> QED BY <1>3, <1>8, <1>9

\* What is in the place of the words old, that follow the first from, when
\* words have been written behind the first at.
Overwritten(new, old, from, at, words) ==
    \A k \in 1 .. Len(old) : new[k] =
        IF from + k \in at + 1 .. at + Len(words) THEN words[from + k - at] ELSE old[k]

LEMMA OverwrittenAt ==
  ASSUME NEW new, NEW old, NEW from \in Nat, NEW at \in Nat, NEW words, Overwritten(new, old, from, at, words),
         NEW k \in 1 .. Len(old)
  PROVE  new[k] = IF from + k \in at + 1 .. at + Len(words) THEN words[from + k - at] ELSE old[k]
  BY DEF Overwritten

\* Words written behind the header, into metadata or payload.
LEMMA WrittenKeeps ==
  ASSUME NEW f, NEW v, Keeps(f, v), NEW at \in Nat, 1 <= at, NEW words, IsSeq(words),
         NEW r, r \in [type : {v.type}, id : {v.id}, metadata : {r.metadata}, payload : {r.payload}],
         IsSeq(r.metadata), Len(r.metadata) = Len(v.metadata),
         IsSeq(r.payload), Len(r.payload) = Len(v.payload),
         Overwritten(r.metadata, v.metadata, HeaderSizeWords(f), at, words),
         Overwritten(r.payload, v.payload, DataBegin(f), at, words)
  PROVE  Keeps(WriteWords(f, at, words), r)
  <1> DEFINE g == WriteWords(f, at, words)
             b == HeaderSizeWords(f)
             d == DataBegin(f)
  <1>1. /\ IsFrag(f) /\ f \in Frags(f.vals, f.upgraded_header) /\ IsVec(f.vals)
        /\ Header(f).word_count = f.vals.size
        /\ v.type = Header(f).type /\ v.id = Header(f).id
        /\ Len(v.metadata) = Header(f).metadata_word_count /\ Len(v.payload) = DataSize(f)
        /\ \A k \in 1 .. Len(v.metadata) : f.vals.mem[b + k] = v.metadata[k]
        /\ \A k \in 1 .. Len(v.payload) : v.payload[k] # Junk => f.vals.mem[d + k] = v.payload[k]
    BY DEF Keeps, IsFrag
  <1>2. IsFrag(g) /\ Header(g) = Header(f) /\ HeaderSizeWords(g) = b /\ SamePlaces(g.vals, f.vals)
    BY <1>1, WrittenFrag
  <1>3. \A w \in 1 .. f.vals.capacity : g.vals.mem[w] =
           IF w \in at + 1 .. at + Len(words) THEN words[w - at] ELSE f.vals.mem[w]
    BY <1>1, WriteWordsHas
  <1> HIDE DEF g
  <1>4. DataBegin(g) = d /\ DataSize(g) = DataSize(f)
    BY <1>2 DEF DataBegin, DataSize, SamePlaces
  <1>5. /\ \A k \in 1 .. Len(v.metadata) : b + k \in 1 .. f.vals.capacity
        /\ \A k \in 1 .. Len(v.payload) : d + k \in 1 .. f.vals.capacity
    <2>1. \A w \in 2 .. f.vals.size : w \in 1 .. f.vals.capacity
      BY KeepsPlaces
    <2> QED BY <2>1, KeepsPlaces
  <1>10. b \in Nat /\ d \in Nat
    BY KeepsHas
  <1>11. Overwritten(r.metadata, v.metadata, b, at, words) /\ Overwritten(r.payload, v.payload, d, at, words)
    OBVIOUS
  <1> HIDE DEF b, d
  <1>6. ASSUME NEW k \in 1 .. Len(v.metadata) PROVE g.vals.mem[b + k] = r.metadata[k]
    <2> DEFINE w == b + k
    <2>1. w \in 1 .. f.vals.capacity
      BY <1>5
    <2>2. r.metadata[k] = IF w \in at + 1 .. at + Len(words) THEN words[w - at] ELSE v.metadata[k]
      BY <1>10, <1>11, OverwrittenAt
    <2>3. f.vals.mem[w] = v.metadata[k]
      BY <1>1
    <2> HIDE DEF w
    <2>4. g.vals.mem[w] = r.metadata[k]
      BY <1>3, <2>1, <2>2, <2>3
    <2> QED BY <2>4 DEF w
  <1>7. ASSUME NEW k \in 1 .. Len(v.payload), r.payload[k] # Junk PROVE g.vals.mem[d + k] = r.payload[k]
    <2> DEFINE w == d + k
    <2>1. w \in 1 .. f.vals.capacity
      BY <1>5
    <2>2. r.payload[k] = IF w \in at + 1 .. at + Len(words) THEN words[w - at] ELSE v.payload[k]
      BY <1>10, <1>11, OverwrittenAt
    <2>3. v.payload[k] # Junk => f.vals.mem[w] = v.payload[k]
      BY <1>1
    <2> HIDE DEF w
    <2>4. g.vals.mem[w] = r.payload[k]
      BY <1>3, <1>7, <2>1, <2>2, <2>3
    <2> QED BY <2>4 DEF w
  <1>8. r \in [type : {Header(g).type}, id : {Header(g).id}, metadata : {r.metadata}, payload : {r.payload}]
    BY <1>1, <1>2
  <1>9. Header(g).word_count = g.vals.size
    BY <1>1, <1>2 DEF SamePlaces
  <1> QED BY <1>1, <1>2, <1>4, <1>6, <1>7, <1>8, <1>9 DEF Keeps, g

\* One word of the payload.
LEMMA WritePayloadKeeps ==
  ASSUME NEW f, NEW v, Keeps(f, v), NEW k \in 1 .. Len(v.payload), NEW x
  PROVE  Keeps(WriteWords(f, DataBegin(f) + k - 1, <<x>>), [v EXCEPT !.payload[k] = x])
  <1> DEFINE d == DataBegin(f)
             b == HeaderSizeWords(f)
             at == d + k - 1
             p == [j \in 1 .. Len(v.payload) |-> IF j = k THEN x ELSE v.payload[j]]
             r == [v EXCEPT !.payload[k] = x]
  <1>1. /\ b \in {1, 2} /\ d \in Nat /\ d = b + Len(v.metadata) /\ Len(v.metadata) \in Nat
        /\ Len(v.payload) \in Nat
    BY KeepsHas
  <1>2. IsSeq(v.metadata) /\ IsSeq(v.payload)
    BY DEF Keeps
  <1>3. p = [v.payload EXCEPT ![k] = x]
    <2>1. v.payload = [j \in 1 .. Len(v.payload) |-> v.payload[j]]
      BY <1>2, SeqHas
    <2> QED BY <2>1, Zenon
  <1>4. IsSeq(p) /\ Len(p) = Len(v.payload)
    BY <1>1, FcnIsSeq
  <1>5. r = [v EXCEPT !.payload = p]
    BY <1>3
  <1>6. \A j \in 1 .. Len(v.payload) : p[j] = IF j = k THEN x ELSE v.payload[j]
    OBVIOUS
  <1> HIDE DEF p, r, b, d
  <1>7. r \in [type : {v.type}, id : {v.id}, metadata : {v.metadata}, payload : {p}]
    BY <1>5 DEF Keeps
  <1>8. r.metadata = v.metadata /\ r.payload = p
    BY <1>7
  <1>9. IsSeq(<<x>>) /\ Len(<<x>>) = 1 /\ <<x>>[1] = x
    BY OneWord
  <1>10. at \in Nat /\ 1 <= at
    BY <1>1
  <1>11. \A j \in 1 .. Len(v.metadata) : b + j \notin at + 1 .. at + 1
    BY <1>1
  <1>12. \A j \in 1 .. Len(v.payload) :
            /\ j = k => d + j \in at + 1 .. at + 1 /\ d + j - at = 1
            /\ j # k => d + j \notin at + 1 .. at + 1
    <2> SUFFICES ASSUME NEW j \in 1 .. Len(v.payload)
                 PROVE  /\ j = k => d + j \in at + 1 .. at + 1 /\ d + j - at = 1
                        /\ j # k => d + j \notin at + 1 .. at + 1
      OBVIOUS
    <2>1. j \in Int /\ k \in Int /\ d \in Int
      BY <1>1
    <2> QED BY <2>1
  <1> DEFINE words == <<x>>
  <1>13. Overwritten(p, v.payload, d, at, words)
    BY <1>6, <1>9, <1>12 DEF Overwritten
  <1>14. Overwritten(v.metadata, v.metadata, b, at, words)
    BY <1>9, <1>11 DEF Overwritten
  <1>15. IsSeq(words)
    BY <1>9
  <1> HIDE DEF at, words
  <1>16. r \in [type : {v.type}, id : {v.id}, metadata : {r.metadata}, payload : {r.payload}]
    BY <1>7, <1>8
  <1>17. /\ IsSeq(r.metadata) /\ Len(r.metadata) = Len(v.metadata)
         /\ IsSeq(r.payload) /\ Len(r.payload) = Len(v.payload)
    BY <1>2, <1>4, <1>8
  <1>18. Keeps(WriteWords(f, at, words), r)
    BY <1>8, <1>10, <1>13, <1>14, <1>15, <1>16, <1>17, WrittenKeeps DEF b, d
  <1> QED BY <1>18 DEF at, r, d, words

\* All of the metadata.
LEMMA UpdateMetadataKeeps ==
  ASSUME NEW f, NEW v, Keeps(f, v), NEW m, IsSeq(m), Len(m) = Len(v.metadata)
  PROVE  Keeps(UpdateMetadata(f, m), [v EXCEPT !.metadata = m])
  <1> DEFINE d == DataBegin(f)
             at == HeaderSizeWords(f)
             r == [v EXCEPT !.metadata = m]
  <1>1. /\ at \in {1, 2} /\ d \in Nat /\ d = at + Len(m) /\ Len(m) \in Nat
        /\ Len(v.payload) \in Nat
    BY KeepsHas
  <1>2. IsSeq(v.payload)
    BY DEF Keeps
  <1>3. r \in [type : {v.type}, id : {v.id}, metadata : {m}, payload : {v.payload}]
    BY DEF Keeps
  <1> HIDE DEF r, at, d
  <1>4. r.metadata = m /\ r.payload = v.payload
    BY <1>3
  <1>5. at \in Nat /\ 1 <= at
    BY <1>1
  <1>6. \A j \in 1 .. Len(m) : at + j \in at + 1 .. at + Len(m) /\ at + j - at = j
    BY <1>1
  <1>7. \A j \in 1 .. Len(v.payload) : d + j \notin at + 1 .. at + Len(m)
    BY <1>1
  <1>8. Overwritten(m, v.metadata, at, at, m)
    BY <1>6 DEF Overwritten
  <1>9. Overwritten(v.payload, v.payload, d, at, m)
    BY <1>7 DEF Overwritten
  <1>10. r \in [type : {v.type}, id : {v.id}, metadata : {r.metadata}, payload : {r.payload}]
    BY <1>3, <1>4
  <1>11. Keeps(WriteWords(f, at, m), r)
    BY <1>2, <1>4, <1>5, <1>8, <1>9, <1>10, WrittenKeeps DEF at, d
  <1> QED BY <1>11 DEF at, r, UpdateMetadata

\* What an insertion, a store to the header, and one to the metadata do.
MovedUp(new, old, from, to, n) == \A w \in from .. to : new[w + n] = old[w]
KeptBut1(new, old, c) == \A w \in 2 .. c : new[w] = old[w]
Put(new, old, c, at, words, n) ==
    \A w \in 1 .. c : new[w] = IF w \in at + 1 .. at + n THEN words[w - at] ELSE old[w]

\* The words of a fragment after metadata of n words was inserted, and the
\* header stored, and the metadata written.
LEMMA PlacesInserted ==
  ASSUME NEW b \in {1, 2}, NEW p \in Nat, NEW n \in Nat, NEW s \in Nat, s = b + p,
         NEW c \in Nat, s + n <= c, NEW m, NEW mem, NEW inserted, NEW stored, NEW written,
         MovedUp(inserted, mem, b + 1, s, n), KeptBut1(stored, inserted, c), Put(written, stored, c, b, m, n)
  PROVE  /\ \A k \in 1 .. n : written[b + k] = m[k]
         /\ \A k \in 1 .. p : written[b + n + k] = mem[b + k]
  <1>1. ASSUME NEW k \in 1 .. n PROVE written[b + k] = m[k]
    <2>1. b + k \in 1 .. c /\ b + k \in b + 1 .. b + n /\ b + k - b = k
      OBVIOUS
    <2> QED BY <2>1 DEF Put
  <1>2. ASSUME NEW k \in 1 .. p PROVE written[b + n + k] = mem[b + k]
    <2>1. /\ b + n + k \in 2 .. c /\ b + n + k \in 1 .. c /\ b + n + k \notin b + 1 .. b + n
          /\ b + k \in b + 1 .. s /\ b + n + k = (b + k) + n
      OBVIOUS
    <2>2. written[b + n + k] = stored[b + n + k] /\ stored[b + n + k] = inserted[b + n + k]
      BY <2>1 DEF Put, KeptBut1
    <2> QED BY <2>1, <2>2 DEF MovedUp
  <1> QED BY <1>1, <1>2

\* Metadata are put before the payload, which moves up and is kept.
LEMMA SetMetadataKeeps ==
  ASSUME NEW f, NEW v, Keeps(f, v), ~HasMetadata(f), NEW m, IsSeq(m)
  PROVE  Keeps(SetMetadata(f, m), [v EXCEPT !.metadata = m])
  <1> DEFINE n == Len(m)
             b == HeaderSizeWords(f)
             s == f.vals.size
             u == Insert(f.vals, b, n, 0)
             f1 == [f EXCEPT !.vals = u]
             f2 == UpdateWC(f1)
             h == [Header(f2) EXCEPT !.metadata_word_count = n]
             f3 == SetHeader(f2, h)
             g == WriteWords(f3, b, m)
             r == [v EXCEPT !.metadata = m]
  <1>1. /\ IsFrag(f) /\ s \in Nat /\ b \in {1, 2} /\ n \in Nat /\ Len(v.payload) \in Nat
        /\ Header(f).metadata_word_count = 0 /\ DataBegin(f) = b /\ s = b + Len(v.payload)
    <2>1. Header(f).metadata_word_count = 0 /\ Len(m) \in Nat
      BY SeqHas DEF HasMetadata
    <2> QED BY <2>1, KeepsHas
  <1>2. /\ f \in Frags(f.vals, f.upgraded_header) /\ IsVec(f.vals)
        /\ v.type = Header(f).type /\ v.id = Header(f).id
        /\ v \in [type : {Header(f).type}, id : {Header(f).id}, metadata : {v.metadata}, payload : {v.payload}]
        /\ IsSeq(v.payload)
        /\ \A k \in 1 .. Len(v.payload) : v.payload[k] # Junk => f.vals.mem[DataBegin(f) + k] = v.payload[k]
    BY DEF Keeps, IsFrag
  <1>3. SetMetadata(f, m) = g
    BY <1>1 DEF SetMetadata
  <1> HIDE DEF n, s, b
  <1>4. /\ IsVec(u) /\ u.size = s + n /\ u.mem[1] = f.vals.mem[1]
        /\ \A w \in b + 1 .. s : u.mem[w + n] = f.vals.mem[w]
    <2>1. b \in 0 .. f.vals.size /\ 1 \in 1 .. b
      BY <1>1 DEF s
    <2>2. IsVec(u) /\ u.size = f.vals.size + n /\ Inserted(u.mem, f.vals, b, n)
      BY <1>1, <1>2, <2>1, InsertHas
    <2> HIDE DEF u
    <2> QED BY <2>1, <2>2 DEF Inserted, s
  <1> HIDE DEF u
  <1>5. f1 \in Frags(u, f.upgraded_header) /\ DataBegin(f) <= u.size
    BY <1>1, <1>2, <1>4, ValsSet
  <1> HIDE DEF f1
  <1>6. IsFrag(f1) /\ f1.vals = u /\ Header(f1) = Header(f) /\ HeaderSizeWords(f1) = b
    BY <1>1, <1>4, <1>5, ValsChanged DEF b
  <1>7. /\ IsFrag(f2) /\ SameHeader(Header(f2), Header(f), {"word_count"})
        /\ Header(f2).word_count = s + n
        /\ HeaderSizeWords(f2) = b
        /\ SamePlaces(f2.vals, u)
        /\ \A w \in 2 .. u.capacity : f2.vals.mem[w] = u.mem[w]
    BY <1>4, <1>6, UpdateWCHas
  <1> HIDE DEF f2
  <1>8. IsHeader(Header(f2)) /\ Header(f2).version = "current"
    BY <1>7, FragHas
  <1>9. /\ SameHeader(h, Header(f2), {"metadata_word_count"}) /\ h.metadata_word_count = n
    BY <1>1, <1>8, CountChanged
  <1> HIDE DEF h
  <1>10. /\ IsHeader(h) /\ h.version = "current" /\ h.word_count = s + n
         /\ h.type = Header(f).type /\ h.id = Header(f).id
    BY <1>7, <1>8, <1>9 DEF SameHeader
  <1>11. /\ u.capacity \in Nat /\ s + n <= u.capacity /\ f2.vals.size = s + n /\ f2.vals.capacity = u.capacity
    BY <1>4, <1>7, VecHas DEF SamePlaces
  <1>12. HeaderSizeWords(f2) + h.metadata_word_count <= f2.vals.size
    BY <1>1, <1>7, <1>9, <1>11
  <1>13. /\ IsFrag(f3) /\ Header(f3) = h /\ HeaderSizeWords(f3) = b
         /\ SamePlaces(f3.vals, f2.vals)
         /\ \A w \in 2 .. f2.vals.capacity : f3.vals.mem[w] = f2.vals.mem[w]
    BY <1>7, <1>10, <1>12, SetHeaderHas
  <1> HIDE DEF f3
  <1>14. b \in Nat /\ 1 <= b
    BY <1>1
  <1>15. IsFrag(g) /\ Header(g) = h /\ HeaderSizeWords(g) = b /\ SamePlaces(g.vals, f3.vals)
    BY <1>13, <1>14, WrittenFrag
  <1>16. f3 \in Frags(f3.vals, f3.upgraded_header) /\ IsVec(f3.vals)
    BY <1>13 DEF IsFrag
  <1>17. \A w \in 1 .. f3.vals.capacity : g.vals.mem[w] =
            IF w \in b + 1 .. b + n THEN m[w - b] ELSE f3.vals.mem[w]
    BY <1>14, <1>16, WriteWordsHas DEF n
  <1> HIDE DEF g
  <1>18. /\ \A k \in 1 .. n : g.vals.mem[b + k] = m[k]
         /\ \A k \in 1 .. Len(v.payload) : g.vals.mem[b + n + k] = f.vals.mem[b + k]
    <2> DEFINE c == u.capacity
               p == Len(v.payload)
               mem == f.vals.mem
               inserted == u.mem
               stored == f3.vals.mem
               written == g.vals.mem
    <2>1. b \in {1, 2} /\ p \in Nat /\ n \in Nat /\ s \in Nat /\ s = b + p /\ c \in Nat /\ s + n <= c
      BY <1>1, <1>11
    <2>2. /\ MovedUp(inserted, mem, b + 1, s, n)
          /\ KeptBut1(stored, inserted, c)
          /\ Put(written, stored, c, b, m, n)
      BY <1>4, <1>7, <1>11, <1>13, <1>17 DEF SamePlaces, MovedUp, KeptBut1, Put
    <2> HIDE DEF c, p, mem, inserted, stored, written
    <2>3. /\ \A k \in 1 .. n : written[b + k] = m[k]
          /\ \A k \in 1 .. p : written[b + n + k] = mem[b + k]
      BY <2>1, <2>2, PlacesInserted
    <2> QED BY <2>3 DEF written, p, mem
  <1>19. g.vals.size = s + n
    BY <1>11, <1>13, <1>15 DEF SamePlaces
  <1>20. DataBegin(g) = b + n /\ DataSize(g) = Len(v.payload)
    <2>1. DataBegin(g) = b + n
      BY <1>9, <1>15 DEF DataBegin
    <2> QED BY <1>1, <1>19, <2>1 DEF DataSize
  <1>21. r \in [type : {Header(g).type}, id : {Header(g).id}, metadata : {m}, payload : {v.payload}]
    BY <1>2, <1>10, <1>15
  <1> HIDE DEF r
  <1>22. r.metadata = m /\ r.payload = v.payload
    BY <1>21
  <1>23. Header(g).word_count = g.vals.size /\ Header(g).metadata_word_count = Len(m)
    BY <1>9, <1>10, <1>15, <1>19 DEF n
  <1>24. \A k \in 1 .. Len(v.payload) : v.payload[k] # Junk => g.vals.mem[DataBegin(g) + k] = v.payload[k]
    BY <1>1, <1>2, <1>18, <1>20
  <1>25. \A k \in 1 .. Len(m) : g.vals.mem[HeaderSizeWords(g) + k] = m[k]
    BY <1>15, <1>18 DEF n
  <1>26. Keeps(g, r)
    BY <1>2, <1>15, <1>20, <1>21, <1>22, <1>23, <1>24, <1>25 DEF Keeps
  <1> QED BY <1>3, <1>26 DEF r

-----------------------------------------------------------------------------
(* Where fragments come from                                               *)

LEMMA HeaderWordsHas ==
  ASSUME NEW h, IsHeader(h)
  PROVE  IsSeq(HeaderWords(h)) /\ Len(HeaderWords(h)) = NumWords(h.version) /\ HeaderWords(h)[1] = h
  <1> DEFINE n == NumWords(h.version) - 1
             stamps == [w \in 1 .. n |-> Stamp]
  <1>1. n \in Nat /\ NumWords(h.version) = n + 1
    BY DEF NumWords
  <1>2. HeaderWords(h) = <<h>> \o stamps
    BY DEF HeaderWords
  <1> HIDE DEF n
  <1>3. IsSeq(stamps) /\ Len(stamps) = n
    BY <1>1, FcnIsSeq
  <1> HIDE DEF stamps
  <1>4. IsSeq(<<h>>) /\ Len(<<h>>) = 1 /\ <<h>>[1] = h
    BY OneWord
  <1> DEFINE one == <<h>>
  <1>5. IsSeq(one) /\ Len(one) = 1 /\ one[1] = h
    BY <1>4
  <1> HIDE DEF one
  <1>6. /\ IsSeq(one \o stamps) /\ Len(one \o stamps) = Len(one) + Len(stamps)
        /\ \A k \in 1 .. Len(one) + Len(stamps) :
              (one \o stamps)[k] = IF k <= Len(one) THEN one[k] ELSE stamps[k - Len(one)]
    BY <1>3, <1>5, ConcatHas
  <1>7. 1 \in 1 .. Len(one) + Len(stamps) /\ 1 <= Len(one)
    BY <1>1, <1>3, <1>5
  <1>8. (one \o stamps)[1] = h
    BY <1>5, <1>6, <1>7
  <1> QED BY <1>1, <1>2, <1>3, <1>5, <1>6, <1>8 DEF one

\* A fragment whose words begin with a header.
LEMMA MadeFrag ==
  ASSUME NEW g, g \in Frags(g.vals, NoHeader), IsVec(g.vals), NEW h, IsHeader(h), g.vals.mem[1] = h,
         NumWords(h.version) + h.metadata_word_count <= g.vals.size
  PROVE  /\ IsFrag(g) /\ g.upgraded_header = NoHeader
         /\ HeaderSizeWords(g) = NumWords(h.version)
         /\ SameHeader(Header(g), h, {"version"})
  <1>1. g.upgraded_header = NoHeader /\ RawHeader(g) = h
    BY FragsHas DEF RawHeader
  <1>2. Header(g) = IF h.version = "current" THEN h ELSE Upgrade(h)
    BY <1>1 DEF Header
  <1>3. SameHeader(h, h, {"version"}) /\ SameHeader(Upgrade(h), h, {"version"})
    BY HeaderChanged DEF SameHeader
  <1>4. SameHeader(Header(g), h, {"version"})
    BY <1>2, <1>3
  <1>5. HeaderSizeWords(g) = NumWords(h.version)
    BY <1>1 DEF HeaderSizeWords
  <1>6. DataBegin(g) <= g.vals.size
    BY <1>4, <1>5 DEF DataBegin, SameHeader
  <1>7. IsFrag(g)
    BY <1>1, <1>6 DEF IsFrag
  <1> QED BY <1>1, <1>4, <1>5, <1>7

\* New words, of which the first are a header and what follows it.
LEMMA WrittenNew ==
  ASSUME NEW n \in Nat, NEW h, IsHeader(h), NEW words, IsSeq(words), 1 <= Len(words), words[1] = h,
         Len(words) <= n, NumWords(h.version) + h.metadata_word_count <= n,
         NEW f, f \in Frags(f.vals, NoHeader), IsVec(f.vals), f.vals.size = n
  PROVE  LET g == WriteWords(f, 0, words)
         IN  /\ IsFrag(g) /\ g.upgraded_header = NoHeader /\ g.vals.size = n
             /\ HeaderSizeWords(g) = NumWords(h.version)
             /\ SameHeader(Header(g), h, {"version"})
             /\ \A w \in 1 .. n : g.vals.mem[w] = IF w <= Len(words) THEN words[w] ELSE f.vals.mem[w]
  <1> DEFINE g == WriteWords(f, 0, words)
  <1>1. f.upgraded_header = NoHeader /\ f \in Frags(f.vals, f.upgraded_header)
    BY FragsHas
  <1>2. f.vals.capacity \in Nat /\ n <= f.vals.capacity /\ Len(words) \in Nat
    BY VecHas, SeqHas
  <1>3. /\ g \in Frags(g.vals, f.upgraded_header) /\ SamePlaces(g.vals, f.vals)
        /\ \A w \in 1 .. f.vals.capacity : g.vals.mem[w] =
              IF w \in 0 + 1 .. 0 + Len(words) THEN words[w - 0] ELSE f.vals.mem[w]
    BY <1>1, WriteWordsHas
  <1> HIDE DEF g
  <1>4. ASSUME NEW w \in 1 .. n PROVE g.vals.mem[w] = IF w <= Len(words) THEN words[w] ELSE f.vals.mem[w]
    <2>1. w \in 1 .. f.vals.capacity /\ w - 0 = w /\ (w \in 0 + 1 .. 0 + Len(words) <=> w <= Len(words))
      BY <1>2
    <2> QED BY <1>3, <2>1
  <1>5. g.vals.mem[1] = h
    <2>1. 1 \in 1 .. n
      BY <1>2
    <2> QED BY <1>4, <2>1
  <1>6. g \in Frags(g.vals, NoHeader) /\ IsVec(g.vals) /\ g.vals.size = n
    BY <1>1, <1>3 DEF SamePlaces
  <1>7. /\ IsFrag(g) /\ g.upgraded_header = NoHeader
        /\ HeaderSizeWords(g) = NumWords(h.version)
        /\ SameHeader(Header(g), h, {"version"})
    BY <1>5, <1>6, MadeFrag
  <1> QED BY <1>4, <1>6, <1>7 DEF g

AllJunk(n) == [k \in 1 .. n |-> Junk]

LEMMA NewWithMetadataKeeps ==
  ASSUME NEW n \in Nat, NEW id, NEW type, NEW m, IsSeq(m)
  PROVE  /\ Keeps(NewWithMetadata(n, id, type, m),
                  [type |-> type, id |-> id, metadata |-> m, payload |-> AllJunk(n)])
         /\ HeaderSizeWords(NewWithMetadata(n, id, type, m)) = 2
  <1> DEFINE k == Len(m)
             size == 2 + k + n
             vec == NewVec(size)
             h == HeaderOf("current", type, id, size, k)
             words == HeaderWords(h) \o m
             f == [vals |-> vec, upgraded_header |-> NoHeader]
             g == WriteWords(f, 0, words)
             v == [type |-> type, id |-> id, metadata |-> m, payload |-> AllJunk(n)]
  <1>1. k \in Nat /\ size \in Nat /\ NumWords("current") = 2 /\ size - (2 + n) = k
    BY SeqHas DEF NumWords
  <1>2. IsVec(vec) /\ vec.size = size
    BY <1>1, NewVecHas
  <1>3. NewWithMetadata(n, id, type, m) = g
    BY <1>1, <1>2 DEF NewWithMetadata
  <1> HIDE DEF k
  <1>4. /\ IsHeader(h) /\ h.version = "current" /\ h.type = type /\ h.id = id
        /\ h.word_count = size /\ h.metadata_word_count = k
    BY <1>1, HeaderMade
  <1> HIDE DEF h, size, vec
  <1>5. IsSeq(HeaderWords(h)) /\ Len(HeaderWords(h)) = 2 /\ HeaderWords(h)[1] = h
    BY <1>1, <1>4, HeaderWordsHas
  <1>6. IsSeq(words) /\ Len(words) = 2 + k /\ words[1] = h /\ \A j \in 1 .. k : words[2 + j] = m[j]
    <2> DEFINE a == HeaderWords(h)
    <2>1. IsSeq(a) /\ Len(a) = 2 /\ a[1] = h
      BY <1>5
    <2> HIDE DEF a
    <2>2. /\ IsSeq(a \o m) /\ Len(a \o m) = Len(a) + Len(m)
          /\ \A j \in 1 .. Len(a) + Len(m) : (a \o m)[j] = IF j <= Len(a) THEN a[j] ELSE m[j - Len(a)]
      BY <2>1, ConcatHas
    <2>3. Len(a) + Len(m) = 2 + k /\ k \in Nat
      BY <1>1, <2>1 DEF k
    <2>4. (a \o m)[1] = h
      <3>1. 1 \in 1 .. Len(a) + Len(m) /\ 1 <= Len(a)
        BY <2>1, <2>3
      <3> QED BY <2>1, <2>2, <3>1
    <2>5. ASSUME NEW j \in 1 .. k PROVE (a \o m)[2 + j] = m[j]
      <3>1. 2 + j \in 1 .. Len(a) + Len(m) /\ ~(2 + j <= Len(a)) /\ 2 + j - Len(a) = j
        BY <2>1, <2>3
      <3> QED BY <2>2, <3>1
    <2> QED BY <2>2, <2>3, <2>4, <2>5 DEF a
  <1> HIDE DEF words
  <1>7. f.vals = vec /\ f \in Frags(f.vals, NoHeader)
    BY DEF Frags
  <1> HIDE DEF f
  <1>8. 1 <= Len(words) /\ Len(words) <= size /\ NumWords(h.version) + h.metadata_word_count <= size
    BY <1>1, <1>4, <1>6 DEF size
  <1>9. /\ IsFrag(g) /\ g.vals.size = size /\ HeaderSizeWords(g) = 2
        /\ SameHeader(Header(g), h, {"version"})
        /\ \A w \in 1 .. size : g.vals.mem[w] = IF w <= Len(words) THEN words[w] ELSE f.vals.mem[w]
    BY <1>1, <1>2, <1>4, <1>6, <1>7, <1>8, WrittenNew
  <1> HIDE DEF g
  <1>10. /\ Header(g).type = type /\ Header(g).id = id /\ Header(g).word_count = size
         /\ Header(g).metadata_word_count = k
    BY <1>4, <1>9 DEF SameHeader
  <1>11. DataBegin(g) = 2 + k /\ DataSize(g) = n
    <2>1. DataBegin(g) = 2 + k
      BY <1>9, <1>10 DEF DataBegin
    <2> QED BY <1>1, <1>9, <2>1 DEF DataSize, size
  <1>12. IsSeq(AllJunk(n)) /\ Len(AllJunk(n)) = n /\ \A j \in 1 .. n : AllJunk(n)[j] = Junk
    BY FcnIsSeq DEF AllJunk
  <1>13. ASSUME NEW j \in 1 .. k PROVE g.vals.mem[2 + j] = m[j]
    <2>1. 2 + j \in 1 .. size /\ 2 + j <= Len(words)
      BY <1>1, <1>6 DEF size
    <2> QED BY <1>6, <1>9, <2>1
  <1>14. /\ v \in [type : {type}, id : {id}, metadata : {m}, payload : {AllJunk(n)}]
         /\ v.metadata = m /\ v.payload = AllJunk(n)
    OBVIOUS
  <1> HIDE DEF v
  <1>15. Keeps(g, v)
    BY <1>9, <1>10, <1>11, <1>12, <1>13, <1>14 DEF Keeps, k
  <1> QED BY <1>3, <1>9, <1>15 DEF v

\* The fragments MakeFragment makes.
LEMMA MadeKeeps ==
  ASSUME NEW id, NEW type, NEW x
  PROVE  Keeps(WriteWords(NewWithMetadata(1, id, type, <<x>>), NumWords("current") + 1, <<x>>),
               [type |-> type, id |-> id, metadata |-> <<x>>, payload |-> <<x>>])
  <1> DEFINE m == <<x>>
             f == NewWithMetadata(1, id, type, m)
             v == [type |-> type, id |-> id, metadata |-> m, payload |-> AllJunk(1)]
             r == [type |-> type, id |-> id, metadata |-> m, payload |-> m]
  <1>1. IsSeq(m) /\ Len(m) = 1 /\ m[1] = x
    BY OneWord
  <1>2. Keeps(f, v)
    BY <1>1, NewWithMetadataKeeps
  <1>3. v.metadata = m /\ v.payload = AllJunk(1) /\ v.type = type /\ v.id = id
    OBVIOUS
  <1>4. IsSeq(AllJunk(1)) /\ Len(AllJunk(1)) = 1
    BY FcnIsSeq DEF AllJunk
  <1>5. NumWords("current") + 1 = 3
    BY DEF NumWords
  <1>6. r.metadata = m /\ r.payload = m /\ r \in [type : {type}, id : {id}, metadata : {m}, payload : {m}]
    OBVIOUS
  <1> HIDE DEF f, v, r, m
  <1>7. HeaderSizeWords(f) = 2 /\ DataBegin(f) = 3
    <2>1. HeaderSizeWords(f) = 2
      BY <1>1, NewWithMetadataKeeps DEF f
    <2>2. DataBegin(f) = HeaderSizeWords(f) + Len(v.metadata)
      BY <1>2, KeepsHas
    <2> QED BY <1>1, <1>3, <2>1, <2>2
  <1>8. Overwritten(m, m, 2, 3, m)
    <2>1. \A k \in 1 .. 1 : 2 + k \notin 3 + 1 .. 3 + 1
      OBVIOUS
    <2> QED BY <1>1, <2>1 DEF Overwritten
  <1>9. Overwritten(m, AllJunk(1), 3, 3, m)
    <2>1. \A k \in 1 .. 1 : 3 + k \in 3 + 1 .. 3 + 1 /\ 3 + k - 3 = k
      OBVIOUS
    <2> QED BY <1>1, <1>4, <2>1 DEF Overwritten
  <1>10. r \in [type : {v.type}, id : {v.id}, metadata : {r.metadata}, payload : {r.payload}]
    BY <1>3, <1>6
  <1>11. /\ Overwritten(r.metadata, v.metadata, HeaderSizeWords(f), 3, m)
         /\ Overwritten(r.payload, v.payload, DataBegin(f), 3, m)
         /\ IsSeq(r.metadata) /\ Len(r.metadata) = Len(v.metadata)
         /\ IsSeq(r.payload) /\ Len(r.payload) = Len(v.payload)
    BY <1>1, <1>3, <1>4, <1>6, <1>7, <1>8, <1>9
  <1> DEFINE at == 3
  <1>12. at \in Nat /\ 1 <= at
    OBVIOUS
  <1> HIDE DEF at
  <1>13. Keeps(WriteWords(f, at, m), r)
    BY <1>1, <1>2, <1>10, <1>11, <1>12, WrittenKeeps DEF at
  <1> QED BY <1>5, <1>13 DEF f, m, r, at

LEMMA NewKeeps ==
  ASSUME NEW n \in Nat
  PROVE  /\ Keeps(NewFragment(n), [type |-> "Invalid", id |-> 0, metadata |-> <<>>, payload |-> AllJunk(n)])
         /\ HeaderSizeWords(NewFragment(n)) = 2
         /\ NewFragment(n) \in Frags(NewFragment(n).vals, NoHeader)
  <1> DEFINE vec == NewVec(n + NumWords("current"))
             h == HeaderOf("current", "Invalid", 0, vec.size, 0)
  <1>1. /\ NumWords("current") = 2 /\ Len(<<>>) = 0 /\ IsSeq(<<>>)
        /\ NumWords("current") + Len(<<>>) + n = n + NumWords("current")
    BY NoWords DEF NumWords
  <1>2. IsVec(vec) /\ vec.size = n + 2
    BY <1>1, NewVecHas
  <1>3. vec.size - (NumWords("current") + n) = 0 /\ vec.size \in Nat
    BY <1>1, <1>2
  <1>4. HeaderWords(h) \o <<>> = HeaderWords(h)
    <2>1. IsHeader(h)
      BY <1>3, HeaderMade
    <2> HIDE DEF h
    <2>2. HeaderWords(h) \in Seq(Range(HeaderWords(h)))
      BY <2>1, HeaderWordsHas DEF IsSeq
    <2> QED BY <2>2, ConcatEmptySeq
  <1>5. NewWithMetadata(n, 0, "Invalid", <<>>) =
          WriteWords([vals |-> vec, upgraded_header |-> NoHeader], 0, HeaderWords(h) \o <<>>)
    BY <1>1, <1>3 DEF NewWithMetadata
  <1>6. NewFragment(n) = WriteWords([vals |-> vec, upgraded_header |-> NoHeader], 0, HeaderWords(h))
    BY DEF NewFragment
  <1>7. NewFragment(n) = NewWithMetadata(n, 0, "Invalid", <<>>)
    BY <1>4, <1>5, <1>6
  <1>8. NewFragment(n) \in Frags(NewFragment(n).vals, NoHeader)
    <2> DEFINE f == [vals |-> vec, upgraded_header |-> NoHeader]
               words == HeaderWords(h)
    <2>1. f \in Frags(f.vals, f.upgraded_header) /\ f.vals = vec /\ f.upgraded_header = NoHeader
      BY DEF Frags
    <2>2. IsHeader(h)
      BY <1>3, HeaderMade
    <2>3. NewFragment(n) = WriteWords(f, 0, words)
      BY <1>6
    <2> HIDE DEF f, vec, h
    <2>4. IsSeq(words)
      BY <2>2, HeaderWordsHas
    <2> HIDE DEF words
    <2>5. IsVec(f.vals) /\ f \in Frags(f.vals, f.upgraded_header)
      BY <1>2, <2>1
    <2>6. WriteWords(f, 0, words) \in Frags(WriteWords(f, 0, words).vals, f.upgraded_header)
      BY <2>4, <2>5, WriteWordsHas
    <2> QED BY <2>1, <2>3, <2>6
  <1> QED BY <1>1, <1>7, <1>8, NewWithMetadataKeeps

\* What the payload's words are, where nothing more was promised of them.
LEMMA FilledKeeps ==
  ASSUME NEW f, NEW v, Keeps(f, v), NEW r,
         r \in [type : {v.type}, id : {v.id}, metadata : {v.metadata}, payload : {r.payload}],
         IsSeq(r.payload), Len(r.payload) = Len(v.payload),
         \A k \in 1 .. Len(r.payload) : f.vals.mem[DataBegin(f) + k] = r.payload[k]
  PROVE  Keeps(f, r)
  <1>1. v.type = Header(f).type /\ v.id = Header(f).id
    BY DEF Keeps
  <1>2. r.metadata = v.metadata
    OBVIOUS
  <1>3. r \in [type : {Header(f).type}, id : {Header(f).id}, metadata : {r.metadata}, payload : {r.payload}]
    BY <1>1, <1>2
  <1> QED BY <1>2, <1>3 DEF Keeps

\* dataFrag and setUserType.
LEMMA DataFragKeeps ==
  ASSUME NEW type, NEW id, NEW words, IsSeq(words)
  PROVE  /\ Keeps(DataFrag(type, id, words), [type |-> type, id |-> id, metadata |-> <<>>, payload |-> words])
         /\ HeaderSizeWords(DataFrag(type, id, words)) = 2
  <1> DEFINE n == Len(words)
             f == NewFragment(0)
             v == [type |-> "Invalid", id |-> 0, metadata |-> <<>>, payload |-> AllJunk(0)]
             e == SetId(f, id)
             ve == [v EXCEPT !.id = id]
             vec == Reserve(e.vals, n + NumWords("current"))
             u == PushAll(vec, words)
             g == UpdateWC([e EXCEPT !.vals = u])
             vg == Resized(ve, n)
             r == [type |-> "Invalid", id |-> id, metadata |-> <<>>, payload |-> words]
             rt == [r EXCEPT !.type = type]
  <1>1. n \in Nat /\ n + NumWords("current") \in Nat
    BY SeqHas DEF NumWords
  <1>2. Keeps(f, v) /\ HeaderSizeWords(f) = 2
    BY NewKeeps
  <1>3. Keeps(e, ve) /\ HeaderSizeWords(e) = 2
    BY <1>2, SetTypeKeeps
  <1>4. /\ ve \in [type : {"Invalid"}, id : {id}, metadata : {<<>>}, payload : {AllJunk(0)}]
    OBVIOUS
  <1>5. DataFrag(type, id, words) = SetType(g, type)
    BY DEF DataFrag
  <1> HIDE DEF f, v, e, ve, n
  <1>6. ve.type = "Invalid" /\ ve.id = id /\ ve.metadata = <<>> /\ Len(ve.payload) = 0
    <2>1. Len(AllJunk(0)) = 0
      BY FcnIsSeq DEF AllJunk
    <2> QED BY <1>4, <2>1
  <1>7. IsVec(e.vals) /\ e.vals.size \in Nat /\ DataBegin(e) \in Nat /\ e.vals.size = DataBegin(e)
    <2>1. IsFrag(e) /\ e.vals.size \in Nat /\ DataBegin(e) \in Nat /\ e.vals.size = DataBegin(e) + Len(ve.payload)
      BY <1>3, KeepsHas
    <2> QED BY <1>6, <2>1 DEF IsFrag
  <1>8. IsVec(vec) /\ vec.size = e.vals.size /\ SameWords(vec, e.vals, e.vals.size)
    BY <1>1, <1>7, ReserveHas
  <1> HIDE DEF vec
  <1>9. /\ IsVec(u) /\ u.size = e.vals.size + n /\ SameWords(u, vec, vec.size)
        /\ \A k \in 1 .. n : u.mem[vec.size + k] = words[k]
    BY <1>8, PushAllHas DEF n
  <1> HIDE DEF u
  <1>10. u.size = n + DataBegin(e) /\ \A w \in 1 .. e.vals.size : w <= u.size => u.mem[w] = e.vals.mem[w]
    BY <1>1, <1>7, <1>8, <1>9 DEF SameWords
  <1>11. /\ Keeps(g, vg) /\ DataBegin(g) = DataBegin(e) /\ HeaderSizeWords(g) = 2
         /\ \A w \in 2 .. u.capacity : g.vals.mem[w] = u.mem[w]
    BY <1>1, <1>3, <1>9, <1>10, ResizedKeeps
  <1> HIDE DEF g
  <1>12. /\ vg \in [type : {"Invalid"}, id : {id}, metadata : {<<>>}, payload : {vg.payload}]
         /\ Len(vg.payload) = n
    <2> DEFINE p == [k \in 1 .. n |-> IF k <= Len(ve.payload) THEN ve.payload[k] ELSE Junk]
    <2>1. vg = [ve EXCEPT !.payload = p]
      BY DEF Resized
    <2>2. Len(p) = n
      BY <1>1, FcnIsSeq
    <2> HIDE DEF p, vg
    <2>3. vg \in [type : {"Invalid"}, id : {id}, metadata : {<<>>}, payload : {p}]
      BY <1>4, <2>1
    <2> QED BY <2>2, <2>3
  <1> HIDE DEF vg
  <1>13. ASSUME NEW k \in 1 .. n PROVE g.vals.mem[DataBegin(g) + k] = words[k]
    <2>1. u.capacity \in Nat /\ u.size <= u.capacity /\ 1 <= DataBegin(e)
      BY <1>3, <1>9, VecHas, KeepsPlaces
    <2>2. DataBegin(e) + k \in 2 .. u.capacity
      BY <1>1, <1>7, <1>10, <2>1
    <2> QED BY <1>7, <1>8, <1>9, <1>11, <2>2
  <1>14. r.payload = words /\ r \in [type : {vg.type}, id : {vg.id}, metadata : {vg.metadata}, payload : {r.payload}]
    BY <1>12
  <1> HIDE DEF r
  <1>15. Keeps(g, r)
    <2>1. IsSeq(r.payload) /\ Len(r.payload) = Len(vg.payload)
      BY <1>12, <1>14 DEF n
    <2>2. \A k \in 1 .. Len(r.payload) : g.vals.mem[DataBegin(g) + k] = r.payload[k]
      BY <1>13, <1>14 DEF n
    <2> QED BY <1>11, <1>14, <2>1, <2>2, FilledKeeps
  <1>16. Keeps(SetType(g, type), rt) /\ HeaderSizeWords(SetType(g, type)) = 2
    BY <1>11, <1>15, SetTypeKeeps
  <1>17. rt = [type |-> type, id |-> id, metadata |-> <<>>, payload |-> words]
    <2>1. rt \in [type : {type}, id : {id}, metadata : {<<>>}, payload : {words}]
      BY DEF r
    <2> HIDE DEF rt
    <2> QED BY <2>1
  <1> QED BY <1>5, <1>16, <1>17

\* New words of the size, and a message written over them.
LEMMA WrittenWhole ==
  ASSUME NEW h, IsHeader(h), NEW words, IsSeq(words), 2 <= Len(words), words[1] = h,
         NumWords(h.version) + h.metadata_word_count <= Len(words)
  PROVE  LET g == WriteWords(NewFragment(Len(words) - NumWords("current")), 0, words)
         IN  /\ IsFrag(g) /\ g.upgraded_header = NoHeader
             /\ g.vals.size = Len(words) /\ HeaderSizeWords(g) = NumWords(h.version)
             /\ SameHeader(Header(g), h, {"version"})
             /\ \A w \in 1 .. Len(words) : g.vals.mem[w] = words[w]
  <1> DEFINE n == Len(words)
             f == NewFragment(n - NumWords("current"))
             g == WriteWords(f, 0, words)
  <1>1. n \in Nat /\ NumWords("current") = 2 /\ n - 2 \in Nat /\ n - 2 + 2 = n
    BY SeqHas DEF NumWords
  <1>2. Len(AllJunk(n - 2)) = n - 2
    BY <1>1, FcnIsSeq DEF AllJunk
  <1>3. IsVec(f.vals) /\ f.vals.size = n /\ f \in Frags(f.vals, NoHeader)
    <2> DEFINE w == [type |-> "Invalid", id |-> 0, metadata |-> <<>>, payload |-> AllJunk(n - 2)]
    <2>1. Keeps(f, w) /\ HeaderSizeWords(f) = 2 /\ f \in Frags(f.vals, NoHeader)
      BY <1>1, NewKeeps
    <2>2. Len(w.metadata) = 0 /\ Len(w.payload) = n - 2
      BY <1>2, NoWords
    <2> HIDE DEF f, w, n
    <2>3. IsFrag(f) /\ DataBegin(f) = HeaderSizeWords(f) + Len(w.metadata) /\ f.vals.size = DataBegin(f) + Len(w.payload)
      BY <2>1, KeepsHas
    <2> QED BY <1>1, <2>1, <2>2, <2>3 DEF IsFrag
  <1> HIDE DEF f
  <1>4. 1 <= Len(words) /\ Len(words) <= n /\ NumWords(h.version) + h.metadata_word_count <= n
    BY <1>1
  <1>5. /\ IsFrag(g) /\ g.upgraded_header = NoHeader
        /\ g.vals.size = n /\ HeaderSizeWords(g) = NumWords(h.version)
        /\ SameHeader(Header(g), h, {"version"})
        /\ \A w \in 1 .. n : g.vals.mem[w] = IF w <= Len(words) THEN words[w] ELSE f.vals.mem[w]
    BY <1>1, <1>3, <1>4, WrittenNew
  <1> HIDE DEF g
  <1>6. \A w \in 1 .. n : w <= Len(words)
    BY <1>1
  <1> QED BY <1>5, <1>6 DEF f, g

\* Words that begin with header h, whose payload follows the first d of them,
\* are what v holds.
Describes(h, words, d, v) ==
    /\ IsSeq(words) /\ 2 <= Len(words) /\ words[1] = h
    /\ IsHeader(h) /\ h.word_count = Len(words)
    /\ d \in Nat /\ d = NumWords(h.version) + h.metadata_word_count /\ d <= Len(words)
    /\ v \in [type : {h.type}, id : {h.id}, metadata : {v.metadata}, payload : {v.payload}]
    /\ IsSeq(v.metadata) /\ Len(v.metadata) = h.metadata_word_count
    /\ IsSeq(v.payload) /\ Len(v.payload) = Len(words) - d
    /\ \A k \in 1 .. Len(v.metadata) : words[NumWords(h.version) + k] = v.metadata[k]
    /\ \A k \in 1 .. Len(v.payload) : words[d + k] = v.payload[k]

\* Words that come from a buffer or a file are what their header says.
LEMMA ReceivedKeeps ==
  ASSUME NEW h, NEW words, NEW d, NEW v, Describes(h, words, d, v)
  PROVE  Keeps(Received(words), v)
  <1> DEFINE n == Len(words)
             l == n - d
             g == WriteWords(NewFragment(n - NumWords("current")), 0, words)
             b == NumWords(h.version)
             m == h.metadata_word_count
  <1> USE DEF Describes
  <1>1. n \in Nat /\ b \in {1, 2} /\ l \in Nat /\ l + d = n /\ n = d + l /\ m \in Nat
    BY SeqHas DEF NumWords, IsHeader
  <1>2. /\ IsFrag(g) /\ g.vals.size = n /\ HeaderSizeWords(g) = b
        /\ SameHeader(Header(g), h, {"version"})
        /\ \A w \in 1 .. n : g.vals.mem[w] = words[w]
    BY WrittenWhole
  <1>3. Received(words) = AutoResize(g)
    BY DEF Received
  <1> HIDE DEF g
  <1>4. /\ \A k \in 1 .. m : b + k \in 1 .. n
        /\ \A k \in 1 .. l : d + k \in 1 .. n
    <2> HIDE DEF n, l
    <2>1. d = b + m /\ n = d + l
      BY <1>1
    <2> HIDE DEF b, m
    <2>2. /\ \A k \in 1 .. m : b + k \in 2 .. n
          /\ \A k \in 1 .. l : d + k \in 2 .. n
      BY <1>1, <2>1, Places
    <2>3. \A w \in 2 .. n : w \in 1 .. n
      BY <1>1
    <2> QED BY <2>2, <2>3
  <1>6. /\ Header(g).type = h.type /\ Header(g).id = h.id /\ Header(g).word_count = n
        /\ Header(g).metadata_word_count = h.metadata_word_count
    BY <1>2 DEF SameHeader
  <1>7. DataBegin(g) = d /\ DataSize(g) = l
    BY <1>2, <1>6 DEF DataBegin, DataSize
  <1>8. \A k \in 1 .. Len(v.metadata) : g.vals.mem[b + k] = v.metadata[k]
    BY <1>2, <1>4
  <1>9. \A k \in 1 .. Len(v.payload) : g.vals.mem[d + k] = v.payload[k]
    BY <1>2, <1>4
  <1>10. v \in [type : {Header(g).type}, id : {Header(g).id}, metadata : {v.metadata}, payload : {v.payload}]
    BY <1>6
  <1>11. Keeps(g, v)
    BY <1>2, <1>6, <1>7, <1>8, <1>9, <1>10 DEF Keeps
  <1>12. AutoResize(g) = ResizeData(g, l)
    BY <1>1, <1>6, <1>7 DEF AutoResize, ResizeData
  <1>13. Keeps(ResizeData(g, l), Resized(v, l))
    BY <1>1, <1>11, ResizeKeeps
  <1>14. Resized(v, l) = v
    <2> DEFINE p == [k \in 1 .. l |-> IF k <= Len(v.payload) THEN v.payload[k] ELSE Junk]
    <2>1. p = v.payload
      <3>1. v.payload = [k \in 1 .. l |-> v.payload[k]]
        BY SeqHas
      <3> QED BY <1>1, <3>1
    <2>2. Resized(v, l) = [v EXCEPT !.payload = v.payload]
      BY <2>1 DEF Resized
    <2> QED BY <2>2
  <1> QED BY <1>3, <1>12, <1>13, <1>14

\* A fragment with a current header has no other.
LEMMA CurrentStored == ASSUME NEW f, IsFrag(f), HeaderSizeWords(f) = 2 PROVE HeaderStored(f)
  <1>1. RawHeader(f).version # "old"
    BY DEF HeaderSizeWords, NumWords
  <1> QED BY <1>1 DEF IsFrag, HeaderStored

\* The upgraded header of words that were received is the one they have.
LEMMA ReceivedStored ==
  ASSUME NEW h, NEW words, NEW d, NEW v, Describes(h, words, d, v)
  PROVE  HeaderStored(Received(words))
  <1> DEFINE n == Len(words)
             g == WriteWords(NewFragment(n - NumWords("current")), 0, words)
             u == Resize(g.vals, n)
             x == [g EXCEPT !.vals = u]
             hh == [Header(x) EXCEPT !.word_count = n]
  <1>1. n \in Nat /\ 1 <= n /\ 1 \in 1 .. n
    BY SeqHas DEF Describes
  <1>2. IsHeader(h) /\ h.word_count = n /\ words[1] = h
    BY DEF Describes
  <1>3. /\ IsFrag(g) /\ g.upgraded_header = NoHeader /\ g.vals.size = n
        /\ SameHeader(Header(g), h, {"version"})
        /\ \A w \in 1 .. n : g.vals.mem[w] = words[w]
    BY WrittenWhole DEF Describes
  <1>4. Received(words) = AutoResize(g)
    BY DEF Received
  <1> HIDE DEF g
  <1>5. AutoResize(g) = UpdateWC(x)
    BY <1>2, <1>3 DEF AutoResize, SameHeader
  <1>6. IsVec(u) /\ u.size = n /\ u.mem[1] = h
    <2>1. IsVec(g.vals)
      BY <1>3 DEF IsFrag
    <2>2. ResizedTo(u, g.vals, n)
      BY <1>1, <2>1, ResizeHas
    <2> QED BY <1>1, <1>2, <1>3, <2>2 DEF ResizedTo, SameWords
  <1> HIDE DEF u
  <1>7. x \in Frags(u, NoHeader)
    BY <1>3, ValsSet DEF IsFrag
  <1> HIDE DEF x
  <1>8. /\ x.vals = u /\ x.upgraded_header = NoHeader /\ RawHeader(x) = h
        /\ x \in Frags(x.vals, x.upgraded_header)
    BY <1>6, <1>7, FragsHas DEF RawHeader
  <1>9. UpdateWC(x) = SetHeader(x, hh)
    BY <1>6, <1>8 DEF UpdateWC
  <1>10. CASE h.version = "current"
    <2> HIDE DEF hh
    <2>1. SetHeader(x, hh) = [x EXCEPT !.vals = [x.vals EXCEPT !.mem[1] = hh]]
      BY <1>8, <1>10 DEF SetHeader, Frags
    <2>2. SetHeader(x, hh).upgraded_header = NoHeader
      BY <1>8, <2>1, ValsSet, FragsHas
    <2> QED BY <1>4, <1>5, <1>9, <2>2 DEF HeaderStored
  <1>11. CASE h.version # "current"
    <2>1. Header(x) = Upgrade(h)
      BY <1>8, <1>11 DEF Header
    <2>2. hh = Upgrade(h)
      <3>1. Upgrade(h) \in [version : {"current"}, type : {h.type}, id : {h.id}, word_count : {n},
                            metadata_word_count : Nat]
        BY <1>2 DEF Upgrade, IsHeader
      <3> DEFINE y == Upgrade(h)
      <3> HIDE DEF y
      <3>2. [y EXCEPT !.word_count = n] = y
        BY <3>1 DEF y
      <3> QED BY <2>1, <3>2 DEF y
    <2> HIDE DEF hh
    <2>3. SetHeader(x, hh) = [x EXCEPT !.upgraded_header = hh]
      BY <1>8, <1>11 DEF SetHeader
    <2>4. SetHeader(x, hh) \in Frags(x.vals, hh)
      BY <1>8, <2>3, HeaderSet
    <2>5. SetHeader(x, hh).upgraded_header = hh /\ SetHeader(x, hh).vals = x.vals
      BY <2>4, FragsHas
    <2>6. RawHeader(SetHeader(x, hh)) = h
      BY <1>8, <2>5 DEF RawHeader
    <2> QED BY <1>4, <1>5, <1>9, <2>2, <2>5, <2>6 DEF HeaderStored
  <1> QED BY <1>10, <1>11

-----------------------------------------------------------------------------
(* Copies                                                                  *)

\* The words alone are a copy where the header's words say what it says.
LEMMA StoredKeeps ==
  ASSUME NEW f, NEW v, Keeps(f, v), HeaderStored(f), NEW u, IsVec(u), u.size = f.vals.size,
         SameWords(u, f.vals, f.vals.size), NEW g \in Frags(u, NoHeader)
  PROVE  Keeps(g, v)
  <1>1. g.vals = u /\ g.upgraded_header = NoHeader /\ g \in Frags(g.vals, g.upgraded_header)
    BY FragsHas
  <1>2. u.mem[1] = f.vals.mem[1]
    BY KeepsPlaces DEF SameWords
  <1>3. RawHeader(g) = RawHeader(f) /\ HeaderSizeWords(g) = HeaderSizeWords(f)
    BY <1>1, <1>2 DEF RawHeader, HeaderSizeWords
  <1>4. IsFrag(f) /\ IsHeader(RawHeader(f)) /\ DataBegin(f) <= f.vals.size
    BY DEF Keeps, IsFrag
  <1>5. Header(g) = Header(f)
    <2>1. CASE f.upgraded_header = NoHeader
      BY <1>1, <1>3, <2>1 DEF Header
    <2>2. CASE f.upgraded_header # NoHeader
      <3>1. Header(f) = Upgrade(RawHeader(f)) /\ RawHeader(f).version = "old"
        BY <1>4, <2>2 DEF Header, HeaderStored, IsFrag
      <3> QED BY <1>1, <1>3, <3>1 DEF Header
    <2> QED BY <2>1, <2>2
  <1>6. DataBegin(g) = DataBegin(f)
    BY <1>3, <1>5 DEF DataBegin
  <1>7. IsFrag(g)
    BY <1>1, <1>3, <1>4, <1>6 DEF IsFrag
  <1>8. \A w \in 2 .. f.vals.size : g.vals.mem[w] = f.vals.mem[w]
    <2>1. \A w \in 2 .. f.vals.size : w \in 1 .. f.vals.size
      BY KeepsHas
    <2> QED BY <1>1, <2>1 DEF SameWords
  <1> QED BY <1>1, <1>3, <1>5, <1>7, <1>8, SameKeeps

LEMMA CopyKeeps ==
  ASSUME NEW f, NEW v, Keeps(f, v), HeaderStored(f)
  PROVE  /\ Keeps(CopyOf(f), v)
         /\ \A g : IsVec(g.vals) => Keeps(AssignedTo(g, f), v)
  <1>1. IsVec(f.vals)
    BY DEF Keeps, IsFrag
  <1>2. Keeps(CopyOf(f), v)
    <2>1. IsVec(CopyVec(f.vals)) /\ CopyVec(f.vals).size = f.vals.size /\ SameWords(CopyVec(f.vals), f.vals, f.vals.size)
      BY <1>1, CopyVecHas
    <2>2. CopyOf(f) \in Frags(CopyVec(f.vals), NoHeader)
      BY DEF CopyOf, Frags
    <2> QED BY <2>1, <2>2, StoredKeeps
  <1>3. ASSUME NEW g, IsVec(g.vals) PROVE Keeps(AssignedTo(g, f), v)
    <2> DEFINE u == AssignVec(g.vals, f.vals)
    <2>1. IsVec(u) /\ u.size = f.vals.size /\ SameWords(u, f.vals, f.vals.size)
      BY <1>1, <1>3, AssignVecHas
    <2>2. AssignedTo(g, f) \in Frags(u, NoHeader)
      BY DEF AssignedTo, Frags
    <2> HIDE DEF u
    <2> QED BY <2>1, <2>2, StoredKeeps
  <1> QED BY <1>2, <1>3

-----------------------------------------------------------------------------
(* The program keeps what it gave its fragments                            *)

\* A fragment that was written with an old header.
LEMMA OldReceivedKeeps ==
  ASSUME NEW type, NEW id, NEW words, IsSeq(words), 1 <= Len(words)
  PROVE  /\ Keeps(Received(OldWords(type, id, words)),
                  [type |-> type, id |-> id, metadata |-> <<>>, payload |-> words])
         /\ HeaderStored(Received(OldWords(type, id, words)))
  <1> DEFINE n == Len(words)
             h == HeaderOf("old", type, id, 1 + n, 0)
             head == HeaderWords(h)
             all == head \o words
             d == 1
             v == [type |-> type, id |-> id, metadata |-> <<>>, payload |-> words]
  <1>1. n \in Nat /\ 1 + n \in Nat /\ 2 <= 1 + n /\ 1 <= 1 + n /\ NumWords("old") = 1 /\ (1 + n) - 1 = n
    BY SeqHas DEF NumWords
  <1>2. OldWords(type, id, words) = all
    BY <1>1 DEF OldWords
  <1>3. v \in [type : {type}, id : {id}, metadata : {v.metadata}, payload : {v.payload}]
           /\ v.metadata = <<>> /\ v.payload = words
    OBVIOUS
  <1> HIDE DEF v
  <1>4. /\ IsHeader(h) /\ h.version = "old" /\ h.type = type /\ h.id = id
        /\ h.word_count = 1 + n /\ h.metadata_word_count = 0
    <2> HIDE DEF n
    <2> QED BY <1>1, HeaderMade
  <1> HIDE DEF h
  <1>5. IsSeq(head) /\ Len(head) = 1 /\ head[1] = h
    BY <1>1, <1>4, HeaderWordsHas
  <1> HIDE DEF head
  <1>6. /\ IsSeq(all) /\ Len(all) = 1 + n
        /\ \A k \in 1 .. 1 + n : all[k] = IF k <= 1 THEN head[k] ELSE words[k - 1]
    <2>1. /\ IsSeq(all) /\ Len(all) = Len(head) + Len(words)
          /\ \A k \in 1 .. Len(head) + Len(words) :
                all[k] = IF k <= Len(head) THEN head[k] ELSE words[k - Len(head)]
      BY <1>5, ConcatHas
    <2> HIDE DEF all
    <2> QED BY <1>5, <2>1
  <1> HIDE DEF all
  <1>7. all[1] = h
    <2>1. 1 \in 1 .. 1 + n
      BY <1>1
    <2> QED BY <1>5, <1>6, <2>1
  <1>8. ASSUME NEW k \in 1 .. n PROVE all[1 + k] = words[k]
    <2>1. 1 + k \in 1 .. 1 + n /\ ~(1 + k <= 1) /\ (1 + k) - 1 = k
      BY <1>1
    <2> QED BY <1>6, <2>1
  <1>9. Keeps(Received(all), v) /\ HeaderStored(Received(all))
    <2>1. d \in Nat /\ d = NumWords(h.version) + h.metadata_word_count /\ d <= Len(all) /\ 2 <= Len(all)
      BY <1>1, <1>4, <1>6
    <2>2. IsSeq(v.metadata) /\ Len(v.metadata) = 0 /\ IsSeq(v.payload) /\ Len(v.payload) = Len(all) - d
      BY <1>1, <1>3, <1>6, NoWords
    <2>3. \A k \in 1 .. Len(v.metadata) : all[NumWords(h.version) + k] = v.metadata[k]
      BY <2>2
    <2>4. \A k \in 1 .. Len(v.payload) : all[d + k] = v.payload[k]
      BY <1>3, <1>8
    <2>5. v \in [type : {h.type}, id : {h.id}, metadata : {v.metadata}, payload : {v.payload}]
      BY <1>3, <1>4
    <2>6. h.word_count = Len(all) /\ Len(v.metadata) = h.metadata_word_count
      BY <1>4, <1>6, <2>2
    <2> HIDE DEF d, n
    <2>7. Describes(h, all, d, v)
      BY <1>4, <1>6, <1>7, <2>1, <2>2, <2>3, <2>4, <2>5, <2>6 DEF Describes
    <2> QED BY <2>7, ReceivedKeeps, ReceivedStored
  <1> QED BY <1>2, <1>9 DEF v, all, head, h

\* What the program puts in a slot: it has at most one word of metadata, as
\* the program gives it no more, the id of a slot and a type of the program's.
OfSlot(v) == Len(v.metadata) <= 1 /\ v.id \in Slots /\ v.type \in UserTypes

HoldsKept(f, v) == Keeps(f, v) /\ OfSlot(v)

FragmentInv ==
    /\ frag = [i \in Slots |-> frag[i]]
    /\ want = [i \in Slots |-> want[i]]
    /\ \A i \in Slots : Held(i) => HoldsKept(frag[i], want[i])

LEMMA FragmentInitInv == ASSUME Init PROVE FragmentInv /\ \A i \in Slots : HeaderStored(frag[i])
  <1>1. IsSeq(Words)
    BY FragmentAssumption DEF IsSeq
  <1> DEFINE words(i) == SubSeq(Words, 1, i)
             received(type, i) == Received(OldWords(type[i], i, words(i)))
             new(type, copies, i) == IF i \in copies THEN CopyOf(received(type, i))
                                     ELSE IF i \in OldSlots THEN received(type, i)
                                     ELSE DataFrag(type[i], i, words(i))
             value(type, i) == [type |-> type[i], id |-> i, metadata |-> <<>>, payload |-> words(i)]
  <1>2. PICK type \in [Slots -> UserTypes], copies \in SUBSET OldSlots :
           /\ frag = [i \in Slots |-> new(type, copies, i)]
           /\ want = [i \in Slots |-> value(type, i)]
    BY DEF Init, FragmentInit
  <1>3. ASSUME NEW i \in Slots
        PROVE  HoldsKept(new(type, copies, i), value(type, i)) /\ HeaderStored(new(type, copies, i))
    <2>1. i \in 1 .. Len(Words)
      BY FragmentAssumption
    <2>2. IsSeq(words(i)) /\ Len(words(i)) = i /\ 1 <= i
      <3>1. Len(Words) \in Nat
        BY <1>1, SeqHas
      <3>2. 1 \in Int /\ i \in Int /\ 1 <= 1 /\ i <= Len(Words) /\ 1 <= i /\ i - 1 + 1 = i
        BY <2>1, <3>1
      <3> QED BY <1>1, <3>2, SubSeqHas
    <2> HIDE DEF words
    <2>3. /\ Keeps(Received(OldWords(type[i], i, words(i))), value(type, i))
          /\ HeaderStored(Received(OldWords(type[i], i, words(i))))
      BY <2>2, OldReceivedKeeps
    <2>4. /\ Keeps(DataFrag(type[i], i, words(i)), value(type, i))
          /\ HeaderStored(DataFrag(type[i], i, words(i)))
      <3>1. /\ Keeps(DataFrag(type[i], i, words(i)), value(type, i))
            /\ HeaderSizeWords(DataFrag(type[i], i, words(i))) = 2
        BY <2>2, DataFragKeeps
      <3> QED BY <3>1, CurrentStored DEF Keeps
    <2>5. OfSlot(value(type, i))
      BY NoWords DEF OfSlot
    <2> HIDE DEF value
    <2>6. Keeps(CopyOf(received(type, i)), value(type, i)) /\ HeaderStored(CopyOf(received(type, i)))
      <3> DEFINE old == received(type, i)
      <3>1. Keeps(old, value(type, i)) /\ HeaderStored(old)
        BY <2>3 DEF value
      <3> HIDE DEF old
      <3>2. Keeps(CopyOf(old), value(type, i))
        BY <3>1, CopyKeeps
      <3>3. HeaderStored(CopyOf(old))
        BY DEF HeaderStored, CopyOf
      <3> QED BY <3>2, <3>3 DEF old
    <2> QED BY <2>3, <2>4, <2>5, <2>6 DEF HoldsKept, value
  <1> HIDE DEF new, value
  <1> QED BY <1>2, <1>3 DEF FragmentInv

\* One slot is given another fragment, or is left as it is.
LEMMA OneSet ==
  ASSUME FragmentInv, NEW i \in Slots, NEW f, NEW v, v # NoValue => HoldsKept(f, v),
         frag' = [frag EXCEPT ![i] = f], want' = [want EXCEPT ![i] = v]
  PROVE  FragmentInv'
  BY DEF FragmentInv, Held

\* Two slots are given other fragments.
LEMMA TwoSet ==
  ASSUME FragmentInv, NEW i \in Slots, NEW j \in Slots, i # j,
         NEW f, NEW v, v # NoValue => HoldsKept(f, v),
         NEW g, NEW w, w # NoValue => HoldsKept(g, w),
         frag' = [frag EXCEPT ![i] = f, ![j] = g], want' = [want EXCEPT ![i] = v, ![j] = w]
  PROVE  FragmentInv'
  BY DEF FragmentInv, Held

LEMMA ChangedInv ==
  ASSUME FragmentInv, NEW i \in Slots, NEW f, NEW v, HoldsKept(f, v), Change(i, f, v)
  PROVE  FragmentInv'
  <1>1. HoldsKept(Accessed(f), v)
    BY AccessedKeeps DEF HoldsKept
  <1> QED BY <1>1, OneSet DEF Change

\* Only setMetadata and updateMetadata change metadata, only setUserType the
\* type, and nothing the id.
LEMMA OfSlotLeft ==
  ASSUME NEW f, NEW v, HoldsKept(f, v)
  PROVE  /\ \A n : OfSlot(Resized(v, n))
         /\ \A t \in UserTypes : OfSlot([v EXCEPT !.type = t])
         /\ \A k, d : OfSlot([v EXCEPT !.payload[k] = d])
         /\ \A d : OfSlot([v EXCEPT !.metadata = <<d>>])
  <1>1. v \in [type : {v.type}, id : {v.id}, metadata : {v.metadata}, payload : {v.payload}]
    BY DEF HoldsKept, Keeps
  <1>2. ASSUME NEW p PROVE OfSlot([v EXCEPT !.payload = p])
    <2>1. [v EXCEPT !.payload = p] \in [type : {v.type}, id : {v.id}, metadata : {v.metadata}, payload : {p}]
      BY <1>1
    <2> QED BY <2>1 DEF OfSlot, HoldsKept
  <1>3. ASSUME NEW t \in UserTypes PROVE OfSlot([v EXCEPT !.type = t])
    <2>1. [v EXCEPT !.type = t] \in [type : {t}, id : {v.id}, metadata : {v.metadata}, payload : {v.payload}]
      BY <1>1
    <2> QED BY <2>1 DEF OfSlot, HoldsKept
  <1>4. ASSUME NEW k, NEW d PROVE OfSlot([v EXCEPT !.payload[k] = d])
    <2>1. [v EXCEPT !.payload[k] = d] = [v EXCEPT !.payload = [v.payload EXCEPT ![k] = d]]
      BY <1>1
    <2> QED BY <1>2, <2>1
  <1>5. ASSUME NEW d PROVE OfSlot([v EXCEPT !.metadata = <<d>>])
    <2> DEFINE m == <<d>>
    <2>1. Len(m) <= 1
      <3>1. Len(m) = 1
        BY OneWord
      <3> QED BY <3>1
    <2> HIDE DEF m
    <2>2. [v EXCEPT !.metadata = m] \in [type : {v.type}, id : {v.id}, metadata : {m}, payload : {v.payload}]
      BY <1>1
    <2> DEFINE r == [v EXCEPT !.metadata = m]
    <2>3. r.metadata = m /\ r.id = v.id /\ r.type = v.type
      BY <2>2
    <2> HIDE DEF r
    <2>4. v.id \in Slots /\ v.type \in UserTypes
      BY DEF HoldsKept, OfSlot
    <2>5. Len(r.metadata) <= 1
      BY <2>1, <2>3
    <2>6. OfSlot(r)
      BY <2>3, <2>4, <2>5 DEF OfSlot
    <2> QED BY <2>6 DEF r, m
  <1>6. ASSUME NEW n PROVE OfSlot(Resized(v, n))
    <2> DEFINE p == [k \in 1 .. n |-> IF k <= Len(v.payload) THEN v.payload[k] ELSE Junk]
    <2>1. Resized(v, n) = [v EXCEPT !.payload = p]
      BY DEF Resized
    <2> HIDE DEF p
    <2> QED BY <1>2, <2>1
  <1> QED BY <1>2, <1>3, <1>4, <1>5, <1>6

LEMMA HeldHolds ==
  ASSUME FragmentInv, NEW i \in Slots, Held(i)
  PROVE  /\ HoldsKept(frag[i], want[i]) /\ Keeps(frag[i], want[i])
         /\ IsVec(frag[i].vals) /\ frag[i] \in Frags(frag[i].vals, frag[i].upgraded_header)
  BY DEF FragmentInv, HoldsKept, Keeps, IsFrag

\* The functions that change one fragment.
LEMMA FunctionsInv ==
  ASSUME FragmentInv, NEW i \in Slots,
         \/ ResizeFragment(i)
         \/ \E n \in 0 .. MaxPayload, d \in Data : ResizeFragmentFilled(i, n, d)
         \/ ReadFragment(i)
         \/ ClearFragment(i)
         \/ ReserveFragment(i)
         \/ SetUserType(i)
         \/ WritePayload(i)
         \/ SetFragmentMetadata(i)
         \/ UpdateFragmentMetadata(i)
  PROVE  FragmentInv'
  <1> DEFINE f == frag[i]
             v == want[i]
  <1>1. Held(i)
    BY DEF ResizeFragment, ResizeFragmentFilled, ReadFragment, ClearFragment, ReserveFragment, SetUserType,
           WritePayload, SetFragmentMetadata, UpdateFragmentMetadata, Change
  <1>2. HoldsKept(f, v) /\ Keeps(f, v)
    BY <1>1, HeldHolds
  <1>3. \A n \in 0 .. MaxPayload : n \in Nat
    BY FragmentAssumption
  <1>4. CASE ResizeFragment(i)
    <2>1. PICK n \in 0 .. MaxPayload :
             \/ Change(i, ResizeData(f, n), Resized(v, n))
             \/ Change(i, ResizeDataWithCushion(f, n), Resized(v, n))
      BY <1>4 DEF ResizeFragment
    <2> HIDE DEF f, v
    <2>2. HoldsKept(ResizeData(f, n), Resized(v, n)) /\ HoldsKept(ResizeDataWithCushion(f, n), Resized(v, n))
      BY <1>2, <1>3, ResizeKeeps, OfSlotLeft DEF HoldsKept
    <2> QED BY <2>1, <2>2, ChangedInv
  <1>5. CASE \E n \in 0 .. MaxPayload, d \in Data : ResizeFragmentFilled(i, n, d)
    <2>1. PICK n \in 0 .. MaxPayload, d \in Data : Change(i, ResizeDataFilled(f, n, d), Resized(v, n))
      BY <1>5 DEF ResizeFragmentFilled
    <2> HIDE DEF f, v
    <2>2. HoldsKept(ResizeDataFilled(f, n, d), Resized(v, n))
      BY <1>2, <1>3, ResizeKeeps, OfSlotLeft DEF HoldsKept
    <2> QED BY <2>1, <2>2, ChangedInv
  <1>6. CASE ClearFragment(i)
    <2>1. Change(i, ClearData(f), Resized(v, 0))
      BY <1>6 DEF ClearFragment
    <2> HIDE DEF f, v
    <2>2. HoldsKept(ClearData(f), Resized(v, 0))
      BY <1>2, ClearKeeps, OfSlotLeft DEF HoldsKept
    <2> QED BY <2>1, <2>2, ChangedInv
  <1>7. CASE ReserveFragment(i)
    <2>1. PICK n \in 0 .. MaxPayload : Change(i, ReserveData(f, n), v)
      BY <1>7 DEF ReserveFragment
    <2> HIDE DEF f, v
    <2>2. HoldsKept(ReserveData(f, n), v)
      BY <1>2, <1>3, ReserveKeeps DEF HoldsKept
    <2> QED BY <2>1, <2>2, ChangedInv
  <1>8. CASE SetUserType(i)
    <2>1. PICK t \in UserTypes : Change(i, SetType(f, t), [v EXCEPT !.type = t])
      BY <1>8 DEF SetUserType
    <2> HIDE DEF f, v
    <2>2. HoldsKept(SetType(f, t), [v EXCEPT !.type = t])
      BY <1>2, SetTypeKeeps, OfSlotLeft DEF HoldsKept
    <2> QED BY <2>1, <2>2, ChangedInv
  <1>9. CASE WritePayload(i)
    <2>1. PICK k \in 1 .. Len(v.payload), d \in Data :
             Change(i, WriteWords(f, DataBegin(f) + k - 1, <<d>>), [v EXCEPT !.payload[k] = d])
      BY <1>9 DEF WritePayload
    <2> HIDE DEF f, v
    <2>2. HoldsKept(WriteWords(f, DataBegin(f) + k - 1, <<d>>), [v EXCEPT !.payload[k] = d])
      BY <1>2, WritePayloadKeeps, OfSlotLeft DEF HoldsKept
    <2> QED BY <2>1, <2>2, ChangedInv
  <1>10. CASE SetFragmentMetadata(i)
    <2>1. PICK d \in Data : Change(i, SetMetadata(f, <<d>>), [v EXCEPT !.metadata = <<d>>])
      BY <1>10 DEF SetFragmentMetadata
    <2>2. ~HasMetadata(f)
      BY <1>10 DEF SetFragmentMetadata
    <2> HIDE DEF f, v
    <2>3. IsSeq(<<d>>)
      BY OneWord
    <2>4. Keeps(SetMetadata(f, <<d>>), [v EXCEPT !.metadata = <<d>>])
      BY <1>2, <2>2, <2>3, SetMetadataKeeps
    <2>5. HoldsKept(SetMetadata(f, <<d>>), [v EXCEPT !.metadata = <<d>>])
      BY <1>2, <2>4, OfSlotLeft DEF HoldsKept
    <2> QED BY <2>1, <2>5, ChangedInv
  <1>11. CASE UpdateFragmentMetadata(i)
    <2>1. PICK d \in Data : Change(i, UpdateMetadata(f, <<d>>), [v EXCEPT !.metadata = <<d>>])
      BY <1>11 DEF UpdateFragmentMetadata
    <2>2. HasMetadata(f)
      BY <1>11 DEF UpdateFragmentMetadata
    <2> HIDE DEF f, v
    <2>3. IsSeq(<<d>>) /\ Len(<<d>>) = 1
      BY OneWord
    <2>4. Len(v.metadata) = 1
      <3>1. Len(v.metadata) \in Nat /\ Len(v.metadata) # 0 /\ Len(v.metadata) <= 1
        BY <1>2, <2>2, KeepsHas DEF HasMetadata, HoldsKept, OfSlot
      <3>2. \A m \in Nat : m # 0 /\ m <= 1 => m = 1
        OBVIOUS
      <3> QED BY <3>1, <3>2
    <2>5. Keeps(UpdateMetadata(f, <<d>>), [v EXCEPT !.metadata = <<d>>])
      BY <1>2, <2>3, <2>4, UpdateMetadataKeeps
    <2>6. HoldsKept(UpdateMetadata(f, <<d>>), [v EXCEPT !.metadata = <<d>>])
      BY <1>2, <2>5, OfSlotLeft DEF HoldsKept
    <2> QED BY <2>1, <2>6, ChangedInv
  <1>12. CASE ReadFragment(i)
    BY <1>2, <1>12, ChangedInv DEF ReadFragment
  <1> QED BY <1>4, <1>5, <1>6, <1>7, <1>8, <1>9, <1>10, <1>11, <1>12

\* New fragments, copies and moves.
LEMMA MakeInv ==
  ASSUME FragmentInv, NEW i \in Slots, MakeFragment(i)
  PROVE  FragmentInv'
  <1>1. PICK d \in Data, t \in UserTypes :
           /\ frag' = [frag EXCEPT ![i] =
                 WriteWords(NewWithMetadata(1, i, t, <<d>>), NumWords("current") + 1, <<d>>)]
           /\ want' = [want EXCEPT ![i] = [type |-> t, id |-> i, metadata |-> <<d>>, payload |-> <<d>>]]
    BY DEF MakeFragment
  <1>2. HoldsKept(WriteWords(NewWithMetadata(1, i, t, <<d>>), NumWords("current") + 1, <<d>>),
                  [type |-> t, id |-> i, metadata |-> <<d>>, payload |-> <<d>>])
    BY MadeKeeps, OneWord DEF HoldsKept, OfSlot
  <1> QED BY <1>1, <1>2, OneSet

LEMMA CopyInv ==
  ASSUME ~CopyOld, FragmentInv, NEW i \in Slots, NEW j \in Slots, CopyFragment(i, j)
  PROVE  FragmentInv'
  <1>1. Held(j) /\ HeaderStored(frag[j])
    BY DEF CopyFragment
  <1>2. HoldsKept(frag[j], want[j]) /\ Keeps(frag[j], want[j])
    BY <1>1, HeldHolds
  <1>3. PICK f : /\ \/ ~Held(i) /\ f = CopyOf(frag[j])
                    \/ Held(i) /\ f = AssignedTo(frag[i], frag[j])
                 /\ frag' = [frag EXCEPT ![i] = f]
                 /\ want' = [want EXCEPT ![i] = want[j]]
    BY DEF CopyFragment
  <1>4. Keeps(f, want[j])
    BY <1>1, <1>2, <1>3, CopyKeeps, HeldHolds
  <1>5. HoldsKept(f, want[j])
    BY <1>2, <1>4 DEF HoldsKept
  <1> QED BY <1>3, <1>5, OneSet

LEMMA MoveInv ==
  ASSUME FragmentInv, NEW i \in Slots, NEW j \in Slots, MoveFragment(i, j)
  PROVE  FragmentInv'
  <1>1. /\ i # j /\ Held(j)
        /\ frag' = [frag EXCEPT ![i] = frag[j], ![j] = Plundered(frag[j])]
        /\ want' = [want EXCEPT ![i] = want[j], ![j] = NoValue]
    BY DEF MoveFragment
  <1>2. HoldsKept(frag[j], want[j])
    BY <1>1, HeldHolds
  <1> QED BY <1>1, <1>2, TwoSet

\* Arrays that change places take everything with them where neither
\* fragment has an upgraded header.
LEMMA SwapInv ==
  ASSUME ~CopyOld, FragmentInv, NEW i \in Slots, NEW j \in Slots, SwapFragments(i, j)
  PROVE  FragmentInv'
  <1>1. /\ i # j /\ Held(i) /\ Held(j)
        /\ frag[i].upgraded_header = NoHeader /\ frag[j].upgraded_header = NoHeader
        /\ frag' = [frag EXCEPT ![i].vals = frag[j].vals, ![j].vals = frag[i].vals]
        /\ want' = [want EXCEPT ![i] = want[j], ![j] = want[i]]
    BY DEF SwapFragments
  <1> DEFINE f == frag[i]
             g == frag[j]
             f1 == [f EXCEPT !.vals = g.vals]
             g1 == [g EXCEPT !.vals = f.vals]
  <1>2. /\ HoldsKept(f, want[i]) /\ f \in Frags(f.vals, f.upgraded_header)
        /\ HoldsKept(g, want[j]) /\ g \in Frags(g.vals, g.upgraded_header)
    BY <1>1, HeldHolds
  <1>3. frag' = [frag EXCEPT ![i] = f1, ![j] = g1]
    BY <1>1 DEF FragmentInv
  <1>4. f1 = g /\ g1 = f
    <2> HIDE DEF f, g
    <2>1. f.upgraded_header = NoHeader /\ g.upgraded_header = NoHeader
      BY <1>1 DEF f, g
    <2>2. f1 \in Frags(g.vals, NoHeader) /\ g1 \in Frags(f.vals, NoHeader)
      BY <1>2, <2>1, ValsSet
    <2>3. \A x, u : x \in Frags(u, NoHeader) => x = [vals |-> u, upgraded_header |-> NoHeader]
      BY DEF Frags
    <2> QED BY <1>2, <2>1, <2>2, <2>3
  <1> HIDE DEF f1, g1
  <1>5. HoldsKept(f1, want[j]) /\ HoldsKept(g1, want[i])
    BY <1>2, <1>4
  <1>6. i # j /\ want' = [want EXCEPT ![i] = want[j], ![j] = want[i]]
    BY <1>1
  <1> QED BY <1>3, <1>5, <1>6, TwoSet

LEMMA FragmentNextInv ==
  ASSUME ~CopyOld, FragmentInv, FragmentNext
  PROVE  FragmentInv'
  <1>1. PICK i \in Slots :
           \/ \/ ResizeFragment(i)
              \/ \E n \in 0 .. MaxPayload, d \in Data : ResizeFragmentFilled(i, n, d)
              \/ ReadFragment(i)
              \/ ClearFragment(i)
              \/ ReserveFragment(i)
              \/ SetUserType(i)
              \/ WritePayload(i)
              \/ SetFragmentMetadata(i)
              \/ UpdateFragmentMetadata(i)
           \/ MakeFragment(i)
           \/ \E j \in Slots : CopyFragment(i, j) \/ MoveFragment(i, j) \/ SwapFragments(i, j)
    BY DEF FragmentNext
  <1>2. CASE MakeFragment(i)
    BY <1>2, MakeInv
  <1>3. CASE \E j \in Slots : CopyFragment(i, j) \/ MoveFragment(i, j) \/ SwapFragments(i, j)
    BY <1>3, CopyInv, MoveInv, SwapInv
  <1> QED BY <1>1, <1>2, <1>3, FunctionsInv

\* What the loader takes a fragment's words from, it has looked at.
LEMMA LoadedInv ==
  ASSUME FragmentInv, ContainerNext
  PROVE  FragmentInv'
  <1>1. CASE UNCHANGED <<frag, want>>
    BY <1>1 DEF FragmentInv, Held
  <1>2. ASSUME NEW seen \in SUBSET Slots, want' = want,
               frag' = [i \in Slots |-> IF i \in seen THEN Accessed(frag[i]) ELSE frag[i]]
        PROVE  FragmentInv'
    <2>1. ASSUME NEW i \in Slots, Held(i)' PROVE HoldsKept(frag'[i], want'[i])
      <3>1. HoldsKept(frag[i], want[i])
        BY <1>2, <2>1 DEF FragmentInv, Held
      <3>2. HoldsKept(Accessed(frag[i]), want[i])
        BY <3>1, AccessedKeeps DEF HoldsKept
      <3> QED BY <1>2, <3>1, <3>2
    <2>2. frag' = [i \in Slots |-> frag'[i]] /\ want' = [i \in Slots |-> want'[i]]
      BY <1>2 DEF FragmentInv
    <2> QED BY <2>1, <2>2 DEF FragmentInv
  <1>3. ASSUME NEW i \in Slots, NEW allow, AddFragment(i, allow) PROVE FragmentInv'
    <2>1. frag' = [frag EXCEPT ![i] = Accessed(frag[i])] /\ want' = want
      BY <1>3 DEF AddFragment, Load
    <2>2. frag' = [j \in Slots |-> IF j \in {i} THEN Accessed(frag[j]) ELSE frag[j]]
      BY <2>1 DEF FragmentInv
    <2>3. {i} \in SUBSET Slots
      OBVIOUS
    <2> QED BY <1>2, <2>1, <2>2, <2>3
  <1>4. ASSUME NEW list \in Lists, NEW allow, AddFragments(list, allow) PROVE FragmentInv'
    <2> DEFINE seen == Slots \cap Range(list)
    <2>1. /\ frag' = [i \in Slots |-> IF i \in Range(list) THEN Accessed(frag[i]) ELSE frag[i]]
          /\ want' = want
      BY <1>4 DEF AddFragments, Load
    <2>2. frag' = [i \in Slots |-> IF i \in seen THEN Accessed(frag[i]) ELSE frag[i]]
      BY <2>1
    <2>3. seen \in SUBSET Slots
      OBVIOUS
    <2> HIDE DEF seen
    <2> QED BY <1>2, <2>1, <2>2, <2>3
  <1>5. OpenContainer => UNCHANGED <<frag, want>>
    BY DEF OpenContainer
  <1>6. \A n, garbage : AppendFragment(n, garbage) => UNCHANGED <<frag, want>>
    BY DEF AppendFragment, Load
  <1>7. \A n : ResizeLastFragment(n) => UNCHANGED <<frag, want>>
    BY DEF ResizeLastFragment, Load
  <1>8. \A d : FillLast(d) => UNCHANGED <<frag, want>>
    BY DEF FillLast, Load
  <1> QED BY <1>1, <1>3, <1>4, <1>5, <1>6, <1>7, <1>8 DEF ContainerNext

LEMMA FragmentInvKept ==
  ASSUME ~CopyOld, FragmentInv, [Next]_vars
  PROVE  FragmentInv'
  <1>1. CASE FragmentNext
    BY <1>1, FragmentNextInv
  <1>2. CASE UNCHANGED <<frag, want>>
    BY <1>2 DEF FragmentInv, Held
  <1>3. ASSUME NEW i \in Slots, InsertFragment(i) PROVE FragmentInv'
    <2>1. frag' = [frag EXCEPT ![i] = Plundered(frag[i])] /\ want' = [want EXCEPT ![i] = NoValue]
      BY <1>3 DEF InsertFragment
    <2> QED BY <2>1, OneSet
  <1>4. CASE ContainerNext
    BY <1>4, LoadedInv
  <1>5. (InsertContainer \/ ReleaseProduct \/ UNCHANGED vars \/ \E type : ReleaseType(type)) => UNCHANGED <<frag, want>>
    BY DEF InsertContainer, ReleaseProduct, ReleaseType, vars
  <1> QED BY <1>1, <1>2, <1>3, <1>4, <1>5 DEF Next

\* ContentsKept: whatever the program does with its fragments, of whatever
\* words, types and sizes, each has the type, metadata and payload it was
\* given.  This is for programs that copy no fragment whose upgraded header
\* says what its words do not, and that swap none that has an upgraded header:
\* no old fragment that anybody has looked at.
THEOREM FragmentsKeepContents == ASSUME ~CopyOld PROVE Spec => []ContentsKept
  <1>1. Init => FragmentInv
    BY FragmentInitInv
  <1>2. FragmentInv /\ [Next]_vars => FragmentInv'
    BY FragmentInvKept
  <1>3. FragmentInv => ContentsKept
    BY HeldHolds, KeepsContents DEF ContentsKept
  <1> QED BY <1>1, <1>2, <1>3, PTL DEF Spec

-----------------------------------------------------------------------------
(* The event: what was inserted is kept or given back, in order            *)

LEMMA AppendHas ==
  ASSUME NEW s, IsSeq(s), NEW x
  PROVE  /\ IsSeq(Append(s, x)) /\ Len(Append(s, x)) = Len(s) + 1
         /\ \A k \in 1 .. Len(s) : Append(s, x)[k] = s[k]
         /\ Append(s, x)[Len(s) + 1] = x
  <1> DEFINE S == Range(s) \cup {x}
  <1>1. Range(s) \subseteq S /\ x \in S
    OBVIOUS
  <1> HIDE DEF S
  <1>2. s \in Seq(S)
    BY <1>1, SeqMonotonic DEF IsSeq
  <1>3. /\ Append(s, x) \in Seq(S) /\ Len(Append(s, x)) = Len(s) + 1
        /\ \A k \in 1 .. Len(s) : Append(s, x)[k] = s[k]
        /\ Append(s, x)[Len(s) + 1] = x
    BY <1>1, <1>2, AppendProperties
  <1> QED BY <1>3, SeqIs

\* What follows the removed one moves up.
LEMMA RemoveAtHas ==
  ASSUME NEW s, IsSeq(s), NEW i \in 1 .. Len(s)
  PROVE  /\ IsSeq(RemoveAt(s, i)) /\ Len(RemoveAt(s, i)) = Len(s) - 1
         /\ \A k \in 1 .. Len(s) - 1 : RemoveAt(s, i)[k] = IF k < i THEN s[k] ELSE s[k + 1]
  <1> DEFINE n == Len(s)
             l == SubSeq(s, 1, i - 1)
             r == SubSeq(s, i + 1, n)
  <1>1. n \in Nat /\ i \in Nat /\ 1 <= i /\ i <= n
    BY SeqHas
  <1>2. IsSeq(l) /\ Len(l) = i - 1 /\ \A k \in 1 .. i - 1 : l[k] = s[k]
    <2>1. 1 \in Int /\ i - 1 \in Int /\ 1 <= 1 /\ i - 1 <= n
      BY <1>1
    <2>2. /\ IsSeq(l) /\ Len(l) = IF 1 <= i - 1 THEN i - 1 - 1 + 1 ELSE 0
          /\ \A k \in 1 .. i - 1 - 1 + 1 : l[k] = s[1 + k - 1]
      BY <2>1, SubSeqHas
    <2> HIDE DEF l
    <2>3. Len(l) = i - 1
      BY <1>1, <2>2
    <2>4. ASSUME NEW k \in 1 .. i - 1 PROVE l[k] = s[k]
      <3>1. k \in 1 .. i - 1 - 1 + 1 /\ 1 + k - 1 = k
        BY <1>1
      <3> QED BY <2>2, <3>1
    <2> QED BY <2>2, <2>3, <2>4
  <1>3. IsSeq(r) /\ Len(r) = n - i /\ \A k \in 1 .. n - i : r[k] = s[i + k]
    BY <1>1, PartHas
  <1>4. RemoveAt(s, i) = l \o r
    BY DEF RemoveAt
  <1> HIDE DEF l, r
  <1>5. /\ IsSeq(l \o r) /\ Len(l \o r) = Len(l) + Len(r)
        /\ \A k \in 1 .. Len(l) + Len(r) : (l \o r)[k] = IF k <= Len(l) THEN l[k] ELSE r[k - Len(l)]
    BY <1>2, <1>3, ConcatHas
  <1> HIDE DEF n
  <1>6. Len(l) + Len(r) = n - 1
    BY <1>1, <1>2, <1>3
  <1>7. ASSUME NEW k \in 1 .. n - 1 PROVE (l \o r)[k] = IF k < i THEN s[k] ELSE s[k + 1]
    <2>1. (l \o r)[k] = IF k <= i - 1 THEN l[k] ELSE r[k - (i - 1)]
      BY <1>2, <1>5, <1>6
    <2>2. CASE k < i
      <3>1. k <= i - 1 /\ k \in 1 .. i - 1
        BY <1>1, <2>2
      <3> QED BY <1>2, <2>1, <2>2, <3>1
    <2>3. CASE ~(k < i)
      <3>1. ~(k <= i - 1) /\ k - (i - 1) \in 1 .. n - i /\ i + (k - (i - 1)) = k + 1
        BY <1>1, <2>3
      <3>2. r[k - (i - 1)] = s[k + 1]
        BY <1>3, <3>1
      <3> QED BY <2>1, <2>3, <3>1, <3>2
    <2> QED BY <2>2, <2>3
  <1> QED BY <1>4, <1>5, <1>6, <1>7 DEF n

\* The functions that ReleaseLoop and ByType define exist.
Releasing(list, type, n, f) ==
    f = [k \in 0 .. n |-> IF k = 0 THEN [left |-> list, iter |-> 1, out |-> <<>>]
                          ELSE Released(f[k - 1], type)]

LEMMA ReleasingExists ==
  ASSUME NEW list, NEW type, NEW n \in Nat
  PROVE  \E f : Releasing(list, type, n, f)
  <1> DEFINE start == [left |-> list, iter |-> 1, out |-> <<>>]
             T == {m \in Nat : \E f : Releasing(list, type, m, f)}
  <1>1. 0 \in T
    <2> DEFINE f == [k \in 0 .. 0 |-> start]
    <2>1. Releasing(list, type, 0, f)
      BY DEF Releasing
    <2> QED BY <2>1
  <1>2. ASSUME NEW m \in 0 .. n - 1, m \in T PROVE m + 1 \in T
    <2>1. PICK f : Releasing(list, type, m, f)
      BY <1>2
    <2> HIDE DEF start
    <2> DEFINE g == [k \in 0 .. m + 1 |-> IF k <= m THEN f[k] ELSE Released(f[m], type)]
    <2>2. \A k \in 0 .. m : f[k] = IF k = 0 THEN start ELSE Released(f[k - 1], type)
      BY <2>1 DEF Releasing, start
    <2>3. ASSUME NEW k \in 0 .. m + 1 PROVE g[k] = IF k = 0 THEN start ELSE Released(g[k - 1], type)
      <3>1. CASE k = 0
        BY <2>2, <3>1
      <3>2. CASE k \in 1 .. m
        <4>1. g[k] = f[k] /\ g[k - 1] = f[k - 1] /\ k # 0 /\ k \in 0 .. m
          BY <3>2
        <4> HIDE DEF g
        <4> QED BY <2>2, <4>1
      <3>3. CASE k = m + 1
        <4>1. g[k] = Released(f[m], type) /\ g[k - 1] = f[m] /\ k # 0
          BY <3>3
        <4> HIDE DEF g
        <4> QED BY <3>3, <4>1
      <3> QED BY <3>1, <3>2, <3>3
    <2>4. g = [k \in 0 .. m + 1 |-> IF k = 0 THEN start ELSE Released(g[k - 1], type)]
      <3>1. g = [k \in 0 .. m + 1 |-> g[k]]
        OBVIOUS
      <3> HIDE DEF g
      <3> QED BY <2>3, <3>1
    <2>5. Releasing(list, type, m + 1, g)
      BY <2>4 DEF Releasing, start
    <2> HIDE DEF g
    <2> QED BY <2>5
  <1> HIDE DEF T
  <1>3. n \in T
    BY <1>1, <1>2, Induction
  <1> QED BY <1>3 DEF T

Split(s, promise, type) ==
    IF promise.value.type = type
    THEN [s EXCEPT !.asked = Append(@, promise)]
    ELSE [s EXCEPT !.other = Append(@, promise)]

Splitting(promises, type, n, f) ==
    f = [k \in 0 .. n |-> IF k = 0 THEN [asked |-> <<>>, other |-> <<>>]
                          ELSE Split(f[k - 1], promises[k], type)]

LEMMA SplittingExists ==
  ASSUME NEW promises, NEW type, NEW n \in Nat
  PROVE  \E f : Splitting(promises, type, n, f)
  <1> DEFINE start == [asked |-> <<>>, other |-> <<>>]
             T == {m \in Nat : \E f : Splitting(promises, type, m, f)}
  <1>1. 0 \in T
    <2> DEFINE f == [k \in 0 .. 0 |-> start]
    <2>1. Splitting(promises, type, 0, f)
      BY DEF Splitting
    <2> QED BY <2>1
  <1>2. ASSUME NEW m \in 0 .. n - 1, m \in T PROVE m + 1 \in T
    <2>1. PICK f : Splitting(promises, type, m, f)
      BY <1>2
    <2> HIDE DEF start
    <2> DEFINE g == [k \in 0 .. m + 1 |-> IF k <= m THEN f[k] ELSE Split(f[m], promises[m + 1], type)]
    <2>2. \A k \in 0 .. m : f[k] = IF k = 0 THEN start ELSE Split(f[k - 1], promises[k], type)
      BY <2>1 DEF Splitting, start
    <2>3. ASSUME NEW k \in 0 .. m + 1 PROVE g[k] = IF k = 0 THEN start ELSE Split(g[k - 1], promises[k], type)
      <3>1. CASE k = 0
        BY <2>2, <3>1
      <3>2. CASE k \in 1 .. m
        <4>1. g[k] = f[k] /\ g[k - 1] = f[k - 1] /\ k # 0 /\ k \in 0 .. m
          BY <3>2
        <4> HIDE DEF g
        <4> QED BY <2>2, <4>1
      <3>3. CASE k = m + 1
        <4>1. g[k] = Split(f[m], promises[m + 1], type) /\ g[k - 1] = f[m] /\ k # 0
          BY <3>3
        <4> HIDE DEF g
        <4> QED BY <3>3, <4>1
      <3> QED BY <3>1, <3>2, <3>3
    <2>4. g = [k \in 0 .. m + 1 |-> IF k = 0 THEN start ELSE Split(g[k - 1], promises[k], type)]
      <3>1. g = [k \in 0 .. m + 1 |-> g[k]]
        OBVIOUS
      <3> HIDE DEF g
      <3> QED BY <2>3, <3>1
    <2>5. Splitting(promises, type, m + 1, g)
      BY <2>4 DEF Splitting, start
    <2> HIDE DEF g
    <2> QED BY <2>5
  <1> HIDE DEF T
  <1>3. n \in T
    BY <1>1, <1>2, Induction
  <1> QED BY <1>3 DEF T

\* One for one, a fragment is what was promised, and of its type.
IsPromised(f, promise) == Type(f) = promise.value.type /\ Matches(f, promise)

Paired(list, promises) ==
    /\ IsSeq(list) /\ IsSeq(promises) /\ Len(list) = Len(promises)
    /\ \A k \in 1 .. Len(list) : IsPromised(list[k], promises[k])

LEMMA PairedConcat ==
  ASSUME NEW a, NEW p, Paired(a, p), NEW b, NEW q, Paired(b, q)
  PROVE  Paired(a \o b, p \o q)
  <1>1. IsSeq(a) /\ IsSeq(p) /\ IsSeq(b) /\ IsSeq(q) /\ Len(a) = Len(p) /\ Len(b) = Len(q)
    BY DEF Paired
  <1>2. Len(a) \in Nat /\ Len(b) \in Nat
    BY <1>1, SeqHas
  <1>3. /\ IsSeq(a \o b) /\ Len(a \o b) = Len(a) + Len(b)
        /\ \A k \in 1 .. Len(a) + Len(b) : (a \o b)[k] = IF k <= Len(a) THEN a[k] ELSE b[k - Len(a)]
    BY <1>1, ConcatHas
  <1>4. /\ IsSeq(p \o q) /\ Len(p \o q) = Len(p) + Len(q)
        /\ \A k \in 1 .. Len(p) + Len(q) : (p \o q)[k] = IF k <= Len(p) THEN p[k] ELSE q[k - Len(p)]
    BY <1>1, ConcatHas
  <1>5. ASSUME NEW k \in 1 .. Len(a) + Len(b) PROVE IsPromised((a \o b)[k], (p \o q)[k])
    <2>1. CASE k <= Len(a)
      <3>1. k \in 1 .. Len(a)
        BY <1>2, <2>1
      <3>2. (a \o b)[k] = a[k] /\ (p \o q)[k] = p[k]
        BY <1>1, <1>3, <1>4, <2>1
      <3> QED BY <3>1, <3>2 DEF Paired
    <2>2. CASE ~(k <= Len(a))
      <3>1. k - Len(a) \in 1 .. Len(b)
        BY <1>2, <2>2
      <3>2. (a \o b)[k] = b[k - Len(a)] /\ (p \o q)[k] = q[k - Len(a)]
        BY <1>1, <1>3, <1>4, <2>2
      <3> QED BY <3>1, <3>2 DEF Paired
    <2> QED BY <2>1, <2>2
  <1> QED BY <1>1, <1>3, <1>4, <1>5 DEF Paired

LEMMA PairedAppend ==
  ASSUME NEW a, NEW p, Paired(a, p), NEW x, NEW y, IsPromised(x, y)
  PROVE  Paired(Append(a, x), Append(p, y))
  <1>1. IsSeq(a) /\ IsSeq(p) /\ Len(a) = Len(p) /\ Len(a) \in Nat
    BY SeqHas DEF Paired
  <1>2. /\ IsSeq(Append(a, x)) /\ Len(Append(a, x)) = Len(a) + 1
        /\ \A k \in 1 .. Len(a) : Append(a, x)[k] = a[k]
        /\ Append(a, x)[Len(a) + 1] = x
    BY <1>1, AppendHas
  <1>3. /\ IsSeq(Append(p, y)) /\ Len(Append(p, y)) = Len(p) + 1
        /\ \A k \in 1 .. Len(p) : Append(p, y)[k] = p[k]
        /\ Append(p, y)[Len(p) + 1] = y
    BY <1>1, AppendHas
  <1>4. ASSUME NEW k \in 1 .. Len(a) + 1 PROVE IsPromised(Append(a, x)[k], Append(p, y)[k])
    <2>1. CASE k = Len(a) + 1
      BY <1>1, <1>2, <1>3, <2>1
    <2>2. CASE k \in 1 .. Len(a)
      BY <1>1, <1>2, <1>3, <2>2 DEF Paired
    <2>3. k = Len(a) + 1 \/ k \in 1 .. Len(a)
      BY <1>1
    <2> QED BY <2>1, <2>2, <2>3
  <1> QED BY <1>1, <1>2, <1>3, <1>4 DEF Paired

LEMMA PairedNone == Paired(<<>>, <<>>)
  BY NoWords DEF Paired

\* After k fragments the loop has given back those of the type, has passed by
\* the others, and has the rest of the list before it.
Looped(list, k, l, p) ==
    /\ l \in [left : {l.left}, iter : Nat, out : {l.out}]
    /\ p \in [asked : {p.asked}, other : {p.other}]
    /\ IsSeq(l.left) /\ IsSeq(p.other)
    /\ Paired(l.out, p.asked)
    /\ l.iter = Len(p.other) + 1
    /\ Len(p.asked) + Len(p.other) = k
    /\ Len(l.left) + Len(l.out) = Len(list)
    /\ \A m \in 1 .. Len(p.other) : IsPromised(l.left[m], p.other[m])
    /\ \A m \in 1 .. Len(l.left) : l.iter <= m => l.left[m] = list[m + Len(l.out)]

LEMMA LoopedNext ==
  ASSUME NEW list, NEW promises, Paired(list, promises), NEW type,
         NEW k \in 0 .. Len(list) - 1, NEW l, NEW p, Looped(list, k, l, p)
  PROVE  Looped(list, k + 1, Released(l, type), Split(p, promises[k + 1], type))
  <1> DEFINE n == Len(list)
             i == l.iter
             nl == Len(l.left)
             no == Len(l.out)
             nt == Len(p.other)
             x == l.left[i]
             y == promises[k + 1]
  <1>1. /\ IsSeq(l.left) /\ IsSeq(p.other) /\ IsSeq(l.out) /\ IsSeq(p.asked) /\ IsSeq(list)
        /\ Paired(l.out, p.asked) /\ Len(p.asked) = no
    BY DEF Looped, Paired
  <1>2. n \in Nat /\ nl \in Nat /\ no \in Nat /\ nt \in Nat
    BY <1>1, SeqHas
  <1>3. i = nt + 1 /\ no + nt = k /\ nl + no = n /\ i \in Nat
    BY <1>1, <1>2 DEF Looped
  <1>4. /\ \A m \in 1 .. nt : IsPromised(l.left[m], p.other[m])
        /\ \A m \in 1 .. nl : i <= m => l.left[m] = list[m + no]
        /\ l \in [left : {l.left}, iter : Nat, out : {l.out}]
        /\ p \in [asked : {p.asked}, other : {p.other}]
    BY DEF Looped
  <1>5. /\ \A a \in 1 .. n : IsPromised(list[a], promises[a])
    BY DEF Paired
  <1>6. i \in 1 .. nl /\ ~(i > nl) /\ i + no = k + 1 /\ k + 1 \in 1 .. n /\ k \in Nat
    <2> HIDE DEF n, i, nl, no, nt
    <2>1. k \in 0 .. n - 1
      BY DEF n
    <2> QED BY <1>2, <1>3, <2>1
  <1> HIDE DEF n, i, nl, no, nt
  <1>7. x = list[k + 1] /\ IsPromised(x, y) /\ (Type(x) = type <=> y.value.type = type)
    <2>1. i <= i
      BY <1>6
    <2>2. x = list[k + 1]
      BY <1>4, <1>6, <2>1
    <2> QED BY <1>5, <1>6, <2>2 DEF IsPromised
  <1>8. ~(l.iter > Len(l.left))
    BY <1>6 DEF i, nl
  <1>9. CASE Type(x) = type
    <2> DEFINE left == RemoveAt(l.left, i)
               out == Append(l.out, x)
               asked == Append(p.asked, y)
               r == [l EXCEPT !.out = out, !.left = left]
               q == [p EXCEPT !.asked = asked]
    <2>1. Released(l, type) = r /\ Split(p, y, type) = q
      BY <1>4, <1>7, <1>8, <1>9 DEF Released, Split, i
    <2>2. /\ IsSeq(left) /\ Len(left) = nl - 1
          /\ \A m \in 1 .. nl - 1 : left[m] = IF m < i THEN l.left[m] ELSE l.left[m + 1]
      BY <1>1, <1>6, RemoveAtHas DEF nl
    <2>3. Paired(out, asked) /\ Len(out) = no + 1 /\ Len(asked) = no + 1
      BY <1>1, <1>7, PairedAppend, AppendHas DEF no
    <2> HIDE DEF left, out, asked
    <2>4. /\ r \in [left : {left}, iter : {i}, out : {out}]
          /\ q \in [asked : {asked}, other : {p.other}]
      BY <1>4 DEF i
    <2> HIDE DEF r, q
    <2>5. ASSUME NEW m \in 1 .. nt PROVE IsPromised(left[m], p.other[m])
      <3>1. m \in 1 .. nl - 1 /\ m < i
        BY <1>2, <1>3, <1>6
      <3> QED BY <1>4, <2>2, <3>1
    <2>6. ASSUME NEW m \in 1 .. nl - 1, i <= m PROVE left[m] = list[m + (no + 1)]
      <3>1. ~(m < i) /\ m + 1 \in 1 .. nl /\ i <= m + 1 /\ (m + 1) + no = m + (no + 1)
        BY <1>2, <1>3, <2>6
      <3>2. left[m] = l.left[m + 1]
        BY <2>2, <3>1
      <3> QED BY <1>4, <3>1, <3>2
    <2>7. (no + 1) + nt = k + 1 /\ (nl - 1) + (no + 1) = n
      BY <1>2, <1>3, <1>6
    <2>8. Looped(list, k + 1, r, q)
      <3>1. r.left = left /\ r.iter = i /\ r.out = out /\ q.asked = asked /\ q.other = p.other
        BY <2>4
      <3>2. r \in [left : {r.left}, iter : Nat, out : {r.out}] /\ q \in [asked : {q.asked}, other : {q.other}]
        BY <1>3, <2>4, <3>1
      <3>3. /\ IsSeq(r.left) /\ IsSeq(q.other) /\ Paired(r.out, q.asked) /\ r.iter = Len(q.other) + 1
            /\ Len(q.asked) + Len(q.other) = k + 1 /\ Len(r.left) + Len(r.out) = Len(list)
        BY <1>1, <1>3, <2>2, <2>3, <2>7, <3>1 DEF nt, n
      <3>4. \A m \in 1 .. Len(q.other) : IsPromised(r.left[m], q.other[m])
        BY <2>5, <3>1 DEF nt
      <3>5. \A m \in 1 .. Len(r.left) : r.iter <= m => r.left[m] = list[m + Len(r.out)]
        BY <2>2, <2>3, <2>6, <3>1
      <3> QED BY <3>2, <3>3, <3>4, <3>5 DEF Looped
    <2> QED BY <2>1, <2>8
  <1>10. CASE Type(x) # type
    <2> DEFINE other == Append(p.other, y)
               r == [l EXCEPT !.iter = i + 1]
               q == [p EXCEPT !.other = other]
    <2>1. Released(l, type) = r /\ Split(p, y, type) = q
      BY <1>4, <1>7, <1>8, <1>10 DEF Released, Split, i
    <2>2. /\ IsSeq(other) /\ Len(other) = nt + 1
          /\ \A m \in 1 .. nt : other[m] = p.other[m]
          /\ other[nt + 1] = y
      BY <1>1, AppendHas DEF nt
    <2> HIDE DEF other
    <2>3. /\ r \in [left : {l.left}, iter : {i + 1}, out : {l.out}]
          /\ q \in [asked : {p.asked}, other : {other}]
      BY <1>4
    <2> HIDE DEF r, q
    <2>4. ASSUME NEW m \in 1 .. nt + 1 PROVE IsPromised(l.left[m], other[m])
      <3>1. CASE m = nt + 1
        BY <1>3, <1>7, <2>2, <3>1
      <3>2. CASE m \in 1 .. nt
        BY <1>4, <2>2, <3>2
      <3>3. m = nt + 1 \/ m \in 1 .. nt
        BY <1>2
      <3> QED BY <3>1, <3>2, <3>3
    <2>5. \A m \in 1 .. nl : i + 1 <= m => i <= m
      BY <1>3
    <2>6. no + (nt + 1) = k + 1 /\ i + 1 = (nt + 1) + 1 /\ i + 1 \in Nat
      BY <1>2, <1>3
    <2>7. Looped(list, k + 1, r, q)
      <3>1. r.left = l.left /\ r.iter = i + 1 /\ r.out = l.out /\ q.asked = p.asked /\ q.other = other
        BY <2>3
      <3>2. r \in [left : {r.left}, iter : Nat, out : {r.out}] /\ q \in [asked : {q.asked}, other : {q.other}]
        BY <2>3, <2>6, <3>1
      <3>3. /\ IsSeq(r.left) /\ IsSeq(q.other) /\ Paired(r.out, q.asked) /\ r.iter = Len(q.other) + 1
            /\ Len(q.asked) + Len(q.other) = k + 1 /\ Len(r.left) + Len(r.out) = Len(list)
        BY <1>1, <1>3, <2>2, <2>6, <3>1 DEF nl, no, n
      <3>4. \A m \in 1 .. Len(q.other) : IsPromised(r.left[m], q.other[m])
        BY <2>2, <2>4, <3>1
      <3>5. \A m \in 1 .. Len(r.left) : r.iter <= m => r.left[m] = list[m + Len(r.out)]
        BY <1>4, <2>5, <3>1 DEF nl, no
      <3> QED BY <3>2, <3>3, <3>4, <3>5 DEF Looped
    <2> QED BY <2>1, <2>7
  <1> QED BY <1>9, <1>10

\* The loop of releaseProduct(type) gives back the fragments of the type that
\* were promised, and leaves the others.
LEMMA ReleasedPaired ==
  ASSUME NEW list, NEW promises, Paired(list, promises), NEW type
  PROVE  /\ Paired(ReleaseLoop(list, type).out, ByType(promises, type).asked)
         /\ Paired(ReleaseLoop(list, type).left, ByType(promises, type).other)
  <1> DEFINE n == Len(list)
             f == CHOOSE loop : Releasing(list, type, n, loop)
             g == CHOOSE split : Splitting(promises, type, n, split)
  <1>1. IsSeq(list) /\ IsSeq(promises) /\ n = Len(promises) /\ n \in Nat
    BY SeqHas DEF Paired
  <1>2. Releasing(list, type, n, f) /\ Splitting(promises, type, n, g)
    BY <1>1, ReleasingExists, SplittingExists
  <1>3. ReleaseLoop(list, type) = f[n]
    BY DEF ReleaseLoop, Releasing
  <1>4. ByType(promises, type) = g[n]
    BY <1>1 DEF ByType, Splitting, Split
  <1> HIDE DEF f, g
  <1>5. /\ f[0] = [left |-> list, iter |-> 1, out |-> <<>>]
        /\ g[0] = [asked |-> <<>>, other |-> <<>>]
        /\ \A k \in 0 .. n - 1 : f[k + 1] = Released(f[k], type) /\ g[k + 1] = Split(g[k], promises[k + 1], type)
    <2>1. /\ \A k \in 0 .. n : f[k] = IF k = 0 THEN [left |-> list, iter |-> 1, out |-> <<>>]
                                      ELSE Released(f[k - 1], type)
          /\ \A k \in 0 .. n : g[k] = IF k = 0 THEN [asked |-> <<>>, other |-> <<>>]
                                      ELSE Split(g[k - 1], promises[k], type)
      BY <1>2 DEF Releasing, Splitting
    <2>2. 0 \in 0 .. n /\ \A k \in 0 .. n - 1 : k + 1 \in 0 .. n /\ k + 1 # 0 /\ (k + 1) - 1 = k
      BY <1>1
    <2> HIDE DEF n
    <2> QED BY <2>1, <2>2
  <1> DEFINE T == {k \in 0 .. n : Looped(list, k, f[k], g[k])}
  <1>6. 0 \in T
    <2> DEFINE none == <<>>
    <2>1. Paired(none, none) /\ IsSeq(none) /\ Len(none) = 0
      BY PairedNone, NoWords
    <2> HIDE DEF none
    <2>2. /\ f[0] \in [left : {list}, iter : {1}, out : {none}]
          /\ g[0] \in [asked : {none}, other : {none}]
      BY <1>5 DEF none
    <2>3. \A m \in 1 .. n : m + 0 = m
      BY <1>1
    <2>4. f[0].left = list /\ f[0].iter = 1 /\ f[0].out = none /\ g[0].asked = none /\ g[0].other = none
      BY <2>2
    <2>5. Looped(list, 0, f[0], g[0])
      <3>1. /\ f[0] \in [left : {f[0].left}, iter : Nat, out : {f[0].out}]
            /\ g[0] \in [asked : {g[0].asked}, other : {g[0].other}]
        BY <2>2, <2>4
      <3>2. /\ IsSeq(f[0].left) /\ IsSeq(g[0].other) /\ Paired(f[0].out, g[0].asked)
            /\ f[0].iter = Len(g[0].other) + 1 /\ Len(g[0].asked) + Len(g[0].other) = 0
            /\ Len(f[0].left) + Len(f[0].out) = Len(list)
        BY <1>1, <2>1, <2>4
      <3>3. \A m \in 1 .. Len(g[0].other) : IsPromised(f[0].left[m], g[0].other[m])
        BY <2>1, <2>4
      <3>4. \A m \in 1 .. Len(f[0].left) : f[0].iter <= m => f[0].left[m] = list[m + Len(f[0].out)]
        BY <2>1, <2>3, <2>4
      <3> QED BY <3>1, <3>2, <3>3, <3>4 DEF Looped
    <2> QED BY <1>1, <2>5
  <1>7. ASSUME NEW k \in 0 .. n - 1, k \in T PROVE k + 1 \in T
    <2>1. Looped(list, k + 1, f[k + 1], g[k + 1])
      BY <1>5, <1>7, LoopedNext
    <2>2. k + 1 \in 0 .. n
      BY <1>1
    <2> QED BY <2>1, <2>2
  <1> HIDE DEF T
  <1>8. n \in T
    <2> HIDE DEF n
    <2>1. 0 .. n \subseteq T
      BY <1>1, <1>6, <1>7, Induction
    <2> QED BY <1>1, <2>1
  <1>9. Looped(list, n, f[n], g[n])
    BY <1>8 DEF T
  <1> DEFINE l == f[n]
             p == g[n]
  <1>10. Paired(l.out, p.asked)
    BY <1>9 DEF Looped
  <1>11. Paired(l.left, p.other)
    <2>1. /\ IsSeq(l.left) /\ IsSeq(p.other)
          /\ \A m \in 1 .. Len(p.other) : IsPromised(l.left[m], p.other[m])
          /\ Len(p.asked) + Len(p.other) = n /\ Len(l.left) + Len(l.out) = n /\ Len(l.out) = Len(p.asked)
      BY <1>9, <1>10 DEF Looped, Paired
    <2>2. Len(l.left) \in Nat /\ Len(p.other) \in Nat /\ Len(p.asked) \in Nat
      <3>1. IsSeq(p.asked)
        BY <1>10 DEF Paired
      <3> QED BY <2>1, <3>1, SeqHas
    <2> HIDE DEF l, p, n
    <2>3. Len(l.left) = Len(p.other)
      <3>1. \A x, y, z \in Nat : z + x = n /\ y + z = n => x = y
        BY <1>1
      <3> QED BY <2>1, <2>2, <3>1
    <2> QED BY <2>1, <2>3 DEF Paired
  <1> QED BY <1>3, <1>4, <1>10, <1>11

EventInv ==
    /\ FragmentInv
    /\ Paired(fragments, kept)
    /\ Paired(result, given)

LEMMA EventInitInv == ASSUME Init PROVE EventInv
  <1>1. fragments = <<>> /\ kept = <<>> /\ result = <<>> /\ given = <<>>
    BY DEF Init
  <1> QED BY <1>1, FragmentInitInv, PairedNone DEF EventInv

\* The promise of a container is none that a slot's fragment has.
LEMMA SlotPromised ==
  ASSUME FragmentInv, NEW i \in Slots, Held(i)
  PROVE  IsPromised(frag[i], [value |-> want[i], contained |-> <<>>])
  <1>1. Keeps(frag[i], want[i]) /\ want[i].id \in Slots
    BY HeldHolds DEF HoldsKept, OfSlot
  <1>2. want[i].type = Type(frag[i])
    BY <1>1 DEF Keeps, Type
  <1>3. want[i] # ContainerValue
    <2>1. ContainerValue.id = 0
      BY DEF ContainerValue, NoValue
    <2>2. 0 \notin Slots
      BY FragmentAssumption
    <2> QED BY <1>1, <2>1, <2>2
  <1>4. WellFormed(frag[i]) /\ Agrees(Value(frag[i]), want[i])
    BY <1>1, KeepsContents
  <1> QED BY <1>2, <1>3, <1>4 DEF IsPromised, Matches

\* A fragment that has been looked at is read as before.
LEMMA AccessedReads ==
  ASSUME NEW f, NEW promises, ReadsAs(f, promises)
  PROVE  ReadsAs(Accessed(f), promises)
  <1> DEFINE g == Accessed(f)
  <1>1. /\ g.vals = f.vals /\ Header(g) = Header(f) /\ HeaderSizeWords(g) = HeaderSizeWords(f)
        /\ DataBegin(g) = DataBegin(f)
    BY AccessedHas
  <1> HIDE DEF g
  <1>2. ContainerMetadata(g) = ContainerMetadata(f)
    BY <1>1 DEF ContainerMetadata
  <1>3. ASSUME NEW offset PROVE WordAt(g, offset) = WordAt(f, offset)
    BY <1>1 DEF WordAt
  <1>4. IsVersion0(g) = IsVersion0(f) /\ HasIndex(g) = HasIndex(f) /\ IndexOf(g) = IndexOf(f)
    BY <1>1, <1>2, <1>3 DEF IsVersion0, HasIndex, IndexOf
  <1>5. ASSUME NEW ptr, NEW k PROVE FragmentIndex(g, ptr, k) = FragmentIndex(f, ptr, k)
    BY <1>1, <1>2, <1>4 DEF FragmentIndex
  <1>6. ASSUME NEW k PROVE BlockWords(g, k) = BlockWords(f, k)
    <2> DEFINE first == FragmentIndex(f, IndexOf(f), k)
               last == FragmentIndex(f, IndexOf(f), k + 1)
    <2>1. FragmentIndex(g, IndexOf(g), k) = first /\ FragmentIndex(g, IndexOf(g), k + 1) = last
      BY <1>4, <1>5
    <2> HIDE DEF first, last
    <2>2. BlockWords(g, k) = [w \in 1 .. last - first |-> WordAt(g, first + w - 1)]
      BY <2>1 DEF BlockWords
    <2>3. BlockWords(f, k) = [w \in 1 .. last - first |-> WordAt(f, first + w - 1)]
      BY DEF BlockWords, first, last
    <2>4. \A w : WordAt(g, first + w - 1) = WordAt(f, first + w - 1)
      BY <1>3
    <2> QED BY <2>2, <2>3, <2>4
  <1>7. ASSUME NEW k PROVE At(g, k) = At(f, k)
    BY <1>6 DEF At
  <1>8. Readable(g)
    BY <1>4 DEF ReadsAs, Readable
  <1> QED BY <1>2, <1>6, <1>7, <1>8 DEF ReadsAs, g

LEMMA AccessedPromised ==
  ASSUME NEW f, NEW promise, IsPromised(f, promise)
  PROVE  IsPromised(Accessed(f), promise)
  <1> DEFINE g == Accessed(f)
  <1>1. /\ g.vals = f.vals /\ Header(g) = Header(f) /\ HeaderSizeWords(g) = HeaderSizeWords(f)
        /\ DataBegin(g) = DataBegin(f)
    BY AccessedHas
  <1>2. \A promises : ReadsAs(f, promises) => ReadsAs(g, promises)
    BY AccessedReads
  <1> HIDE DEF g
  <1>3. Type(g) = Type(f) /\ WellFormed(g) = WellFormed(f) /\ Value(g) = Value(f)
    BY <1>1 DEF Type, WellFormed, Value
  <1> QED BY <1>2, <1>3 DEF IsPromised, Matches, g

LEMMA AskedPaired ==
  ASSUME NEW list, NEW promises, Paired(list, promises)
  PROVE  Paired([k \in DOMAIN list |-> Accessed(list[k])], promises)
  <1> DEFINE asked == [k \in DOMAIN list |-> Accessed(list[k])]
             n == Len(list)
  <1>1. IsSeq(list) /\ IsSeq(promises) /\ n = Len(promises) /\ n \in Nat /\ DOMAIN list = 1 .. n
    BY SeqHas DEF Paired
  <1>2. asked = [k \in 1 .. n |-> asked[k]] /\ \A k \in 1 .. n : asked[k] = Accessed(list[k])
    BY <1>1
  <1>3. \A k \in 1 .. n : IsPromised(list[k], promises[k])
    BY DEF Paired
  <1> HIDE DEF asked, n
  <1>4. IsSeq(asked) /\ Len(asked) = n
    BY <1>1, <1>2, FcnIsSeq
  <1>5. \A k \in 1 .. n : IsPromised(asked[k], promises[k])
    BY <1>2, <1>3, AccessedPromised
  <1>6. Paired(asked, promises)
    BY <1>1, <1>4, <1>5 DEF Paired
  <1> QED BY <1>6 DEF asked

LEMMA EventInvKept ==
  ASSUME ~CopyOld, EventInv, ContainerHolds, [Next]_vars
  PROVE  EventInv'
  <1>1. FragmentInv'
    BY FragmentInvKept DEF EventInv
  <1>2. Paired(fragments, kept) /\ Paired(result, given)
    BY DEF EventInv
  <1>3. CASE UNCHANGED <<fragments, result, kept, given>>
    BY <1>1, <1>2, <1>3 DEF EventInv
  <1>4. ASSUME NEW i \in Slots, InsertFragment(i) PROVE EventInv'
    <2>1. /\ fragments' = Append(fragments, frag[i])
          /\ kept' = Append(kept, [value |-> want[i], contained |-> <<>>])
          /\ result' = result /\ given' = given /\ Held(i)
      BY <1>4 DEF InsertFragment
    <2>2. IsPromised(frag[i], [value |-> want[i], contained |-> <<>>])
      BY <2>1, SlotPromised DEF EventInv
    <2>3. Paired(fragments', kept')
      BY <1>2, <2>1, <2>2, PairedAppend
    <2> QED BY <1>1, <1>2, <2>1, <2>3 DEF EventInv
  <1>5. CASE InsertContainer
    <2> DEFINE promise == [value |-> ContainerValue, contained |-> added]
    <2>1. /\ fragments' = Append(fragments, container) /\ kept' = Append(kept, promise)
          /\ result' = result /\ given' = given /\ container # NoContainer
      BY <1>5 DEF InsertContainer
    <2>2. Header(container).type = "Container" /\ ReadsAs(container, added)
      BY <2>1 DEF ContainerHolds
    <2>3. ContainerValue.type = "Container"
      BY DEF ContainerValue, NoValue
    <2>4. IsPromised(container, promise)
      BY <2>2, <2>3 DEF IsPromised, Matches, Type
    <2> HIDE DEF promise
    <2>5. Paired(fragments', kept')
      BY <1>2, <2>1, <2>4, PairedAppend
    <2> QED BY <1>1, <1>2, <2>1, <2>5 DEF EventInv
  <1>6. CASE ReleaseProduct
    <2>1. /\ result' = result \o fragments /\ given' = given \o kept
          /\ fragments' = <<>> /\ kept' = <<>>
      BY <1>6 DEF ReleaseProduct
    <2>2. Paired(result', given')
      BY <1>2, <2>1, PairedConcat
    <2> QED BY <1>1, <2>1, <2>2, PairedNone DEF EventInv
  <1>7. ASSUME NEW type, ReleaseType(type) PROVE EventInv'
    <2> DEFINE asked == [k \in DOMAIN fragments |-> Accessed(fragments[k])]
    <2>1. /\ result' = result \o ReleaseLoop(asked, type).out
          /\ given' = given \o ByType(kept, type).asked
          /\ fragments' = ReleaseLoop(asked, type).left
          /\ kept' = ByType(kept, type).other
      BY <1>7 DEF ReleaseType
    <2>4. Paired(asked, kept)
      BY <1>2, AskedPaired
    <2> HIDE DEF asked
    <2>2. /\ Paired(ReleaseLoop(asked, type).out, ByType(kept, type).asked)
          /\ Paired(ReleaseLoop(asked, type).left, ByType(kept, type).other)
      BY <2>4, ReleasedPaired
    <2>3. Paired(result', given')
      BY <1>2, <2>1, <2>2, PairedConcat
    <2> QED BY <1>1, <2>1, <2>2, <2>3 DEF EventInv
  <1> QED BY <1>3, <1>4, <1>5, <1>6, <1>7 DEF Next, vars

\* EventKeeps: whatever is inserted, and however often the event is asked for
\* all its fragments or for those of one type, none is lost, none is given
\* twice, and each comes in its order with its contents.  Of a container this
\* says that the event keeps what the loader made: that it is whole when it
\* is inserted is the premise.
THEOREM EventKeepsFragments == ASSUME ~CopyOld PROVE Spec /\ []ContainerHolds => []EventKeeps
  <1>1. Init => EventInv
    BY EventInitInv
  <1>2. EventInv /\ ContainerHolds /\ [Next]_vars => EventInv'
    BY EventInvKept
  <1>3. EventInv => EventKeeps
    <2>1. ASSUME NEW list, NEW promises, Paired(list, promises) PROVE AllMatch(list, promises)
      BY <2>1, SeqHas DEF Paired, IsPromised, AllMatch
    <2> QED BY <2>1 DEF EventInv, EventKeeps
  <1> QED BY <1>1, <1>2, <1>3, PTL DEF Spec

-----------------------------------------------------------------------------
(* Sequences one after the other                                           *)

\* e says where each of n sequences ends when they follow each other.
Cuts(e, seqs, n) ==
    /\ e = [k \in 0 .. n |-> e[k]] /\ e[0] = 0
    /\ \A k \in 1 .. n : e[k] = e[k - 1] + Len(seqs[k])

LEMMA CutsHas ==
  ASSUME NEW n \in Nat, NEW seqs, \A k \in 1 .. n : IsSeq(seqs[k]), NEW e, Cuts(e, seqs, n)
  PROVE  /\ \A k \in 0 .. n : e[k] \in Nat /\ e[k] <= e[n]
         /\ \A k \in 0 .. n : \A j \in 0 .. k : e[j] <= e[k]
         /\ \A k \in 1 .. n : e[k - 1] \in Nat /\ Len(seqs[k]) \in Nat /\ e[k] = e[k - 1] + Len(seqs[k])
  <1> DEFINE T == {k \in 0 .. n : \A j \in 0 .. k : e[j] \in Nat /\ e[j] <= e[k]}
  <1>1. e[0] = 0 /\ \A k \in 1 .. n : e[k] = e[k - 1] + Len(seqs[k]) /\ Len(seqs[k]) \in Nat
    BY SeqHas DEF Cuts
  <1>2. 0 \in T
    BY <1>1
  <1>3. ASSUME NEW k \in 0 .. n - 1, k \in T PROVE k + 1 \in T
    <2>1. k + 1 \in 1 .. n /\ k + 1 - 1 = k /\ k + 1 \in 0 .. n /\ k \in 0 .. k
      OBVIOUS
    <2>2. \A j \in 0 .. k : e[j] \in Nat /\ e[j] <= e[k]
      BY <1>3
    <2>3. e[k + 1] = e[k] + Len(seqs[k + 1]) /\ Len(seqs[k + 1]) \in Nat /\ e[k] \in Nat
      BY <1>1, <2>1, <2>2
    <2>4. e[k + 1] \in Nat /\ e[k] <= e[k + 1]
      BY <2>3
    <2>5. ASSUME NEW j \in 0 .. k + 1 PROVE e[j] \in Nat /\ e[j] <= e[k + 1]
      <3>1. CASE j = k + 1
        BY <2>4, <3>1
      <3>2. CASE j \in 0 .. k
        BY <2>2, <2>3, <2>4, <3>2
      <3> QED BY <3>1, <3>2
    <2> QED BY <2>1, <2>5
  <1> HIDE DEF T
  <1>4. 0 .. n \subseteq T
    BY <1>2, <1>3, Induction
  <1>5. /\ \A k \in 0 .. n : e[k] \in Nat /\ e[k] <= e[n]
        /\ \A k \in 0 .. n : \A j \in 0 .. k : e[j] <= e[k]
    <2>1. n \in T /\ \A k \in 0 .. n : k \in T
      BY <1>4
    <2> QED BY <2>1 DEF T
  <1>6. \A k \in 1 .. n : k - 1 \in 0 .. n
    OBVIOUS
  <1> QED BY <1>1, <1>5, <1>6

LEMMA CutsSame ==
  ASSUME NEW n \in Nat, NEW seqs, NEW e, Cuts(e, seqs, n), NEW d, Cuts(d, seqs, n)
  PROVE  \A k \in 0 .. n : e[k] = d[k]
  <1> DEFINE T == {k \in 0 .. n : e[k] = d[k]}
  <1>1. 0 \in T
    BY DEF Cuts
  <1>2. ASSUME NEW k \in 0 .. n - 1, k \in T PROVE k + 1 \in T
    <2>1. PICK j \in 1 .. n : j = k + 1 /\ j - 1 = k /\ j \in 0 .. n
      OBVIOUS
    <2>2. e[j] = e[j - 1] + Len(seqs[j]) /\ d[j] = d[j - 1] + Len(seqs[j])
      BY <2>1 DEF Cuts
    <2> QED BY <1>2, <2>1, <2>2
  <1> HIDE DEF T
  <1>3. 0 .. n \subseteq T
    BY <1>1, <1>2, Induction
  <1> QED BY <1>3 DEF T

\* The function that FlattenSeq defines exists.
Flattening(seqs, n, f) ==
    f = [i \in 1 .. n |-> IF i = 1 THEN seqs[i] ELSE f[i - 1] \o seqs[i]]

LEMMA FlatteningExists ==
  ASSUME NEW seqs, NEW n \in Nat
  PROVE  \E f : Flattening(seqs, n, f)
  <1> DEFINE T == {m \in Nat : \E f : Flattening(seqs, m, f)}
  <1>1. 0 \in T
    <2> DEFINE f == [i \in 1 .. 0 |-> <<>>]
    <2>1. Flattening(seqs, 0, f)
      BY DEF Flattening
    <2> QED BY <2>1
  <1>2. ASSUME NEW m \in 0 .. n - 1, m \in T PROVE m + 1 \in T
    <2>1. PICK f : Flattening(seqs, m, f)
      BY <1>2
    <2> DEFINE next == IF m = 0 THEN seqs[1] ELSE f[m] \o seqs[m + 1]
               g == [i \in 1 .. m + 1 |-> IF i <= m THEN f[i] ELSE next]
    <2>2. \A i \in 1 .. m : f[i] = IF i = 1 THEN seqs[i] ELSE f[i - 1] \o seqs[i]
      BY <2>1 DEF Flattening
    <2>3. ASSUME NEW i \in 1 .. m + 1 PROVE g[i] = IF i = 1 THEN seqs[i] ELSE g[i - 1] \o seqs[i]
      <3>1. CASE i = 1 /\ 1 <= m
        <4>1. g[i] = f[i] /\ i \in 1 .. m
          BY <3>1
        <4> HIDE DEF g
        <4> QED BY <2>2, <3>1, <4>1
      <3>2. CASE i \in 2 .. m
        <4>1. g[i] = f[i] /\ g[i - 1] = f[i - 1] /\ i # 1 /\ i \in 1 .. m
          BY <3>2
        <4> HIDE DEF g
        <4> QED BY <2>2, <4>1
      <3>3. CASE i = m + 1 /\ m # 0
        <4>1. i # 1 /\ ~(i <= m) /\ i - 1 = m /\ m \in 1 .. m + 1 /\ m <= m
          BY <3>3
        <4>2. g[i] = next /\ g[m] = f[m]
          BY <4>1
        <4>3. next = f[m] \o seqs[i]
          BY <3>3
        <4> HIDE DEF g, next
        <4> QED BY <4>1, <4>2, <4>3
      <3>4. CASE i = 1 /\ m = 0
        BY <3>4
      <3> QED BY <3>1, <3>2, <3>3, <3>4
    <2>4. g = [i \in 1 .. m + 1 |-> IF i = 1 THEN seqs[i] ELSE g[i - 1] \o seqs[i]]
      <3>1. g = [i \in 1 .. m + 1 |-> g[i]]
        OBVIOUS
      <3> HIDE DEF g
      <3> QED BY <2>3, <3>1
    <2>5. Flattening(seqs, m + 1, g)
      BY <2>4 DEF Flattening
    <2> HIDE DEF g
    <2> QED BY <2>5
  <1> HIDE DEF T
  <1>3. n \in T
    BY <1>1, <1>2, Induction
  <1> QED BY <1>3 DEF T

\* all has each of n sequences in its place.
Joined(all, seqs, e, n) ==
    \A k \in 1 .. n : \A w \in 1 .. Len(seqs[k]) : all[e[k - 1] + w] = seqs[k][w]

LEMMA FlattenHas ==
  ASSUME NEW seqs, IsSeq(seqs), \A k \in 1 .. Len(seqs) : IsSeq(seqs[k])
  PROVE  \E d : /\ Cuts(d, seqs, Len(seqs))
                /\ IsSeq(FlattenSeq(seqs)) /\ Len(FlattenSeq(seqs)) = d[Len(seqs)]
                /\ Joined(FlattenSeq(seqs), seqs, d, Len(seqs))
  <1> DEFINE n == Len(seqs)
             all == FlattenSeq(seqs)
  <1>1. n \in Nat
    BY SeqHas
  <1>2. CASE n = 0
    <2> DEFINE d == [k \in 0 .. 0 |-> 0]
    <2>1. all = seqs
      BY <1>2 DEF FlattenSeq
    <2>2. Cuts(d, seqs, 0) /\ d[0] = 0
      BY DEF Cuts
    <2>3. Joined(all, seqs, d, 0)
      BY DEF Joined
    <2> HIDE DEF d
    <2> QED BY <1>2, <2>1, <2>2, <2>3
  <1>3. CASE n # 0
    <2> DEFINE f == CHOOSE flatten : Flattening(seqs, n, flatten)
               d == [k \in 0 .. n |-> IF k = 0 THEN 0 ELSE Len(f[k])]
               T == {k \in 0 .. n : k # 0 => IsSeq(f[k])}
               J == {k \in 0 .. n : Joined(f[k], seqs, d, k)}
    <2>1. Flattening(seqs, n, f)
      BY <1>1, FlatteningExists
    <2>2. all = f[n]
      BY <1>3 DEF FlattenSeq, Flattening
    <2> HIDE DEF f
    <2>3. f[1] = seqs[1] /\ \A k \in 2 .. n : f[k] = f[k - 1] \o seqs[k]
      <3> HIDE DEF n
      <3>1. \A i \in 1 .. n : f[i] = IF i = 1 THEN seqs[i] ELSE f[i - 1] \o seqs[i]
        BY <2>1 DEF Flattening
      <3>2. 1 \in 1 .. n /\ \A k \in 2 .. n : k \in 1 .. n /\ k # 1
        BY <1>1, <1>3
      <3> QED BY <3>1, <3>2
    <2> HIDE DEF n
    <2>4. \A k \in 1 .. n : IsSeq(f[k])
      <3>1. 0 \in T
        BY <1>1
      <3>2. ASSUME NEW k \in 0 .. n - 1, k \in T PROVE k + 1 \in T
        <4>1. PICK j \in 1 .. n : j = k + 1 /\ j \in 0 .. n /\ j - 1 = k
          BY <1>1
        <4>2. IsSeq(seqs[j])
          BY DEF n
        <4>3. CASE k = 0
          BY <2>3, <4>1, <4>2, <4>3
        <4>4. CASE k # 0
          <5>1. j \in 2 .. n /\ IsSeq(f[k])
            BY <1>1, <3>2, <4>1, <4>4
          <5>2. f[j] = f[j - 1] \o seqs[j]
            BY <2>3, <5>1
          <5>3. IsSeq(f[k] \o seqs[j])
            BY <4>2, <5>1, ConcatHas
          <5> QED BY <4>1, <5>2, <5>3
        <4> QED BY <4>3, <4>4
      <3> HIDE DEF T
      <3>3. 0 .. n \subseteq T
        BY <1>1, <3>1, <3>2, Induction
      <3>4. \A k \in 1 .. n : k \in 0 .. n /\ k # 0
        BY <1>1
      <3> QED BY <3>3, <3>4 DEF T
    <2>5. Cuts(d, seqs, n)
      <3>1. ASSUME NEW k \in 1 .. n PROVE d[k] = d[k - 1] + Len(seqs[k])
        <4>1. d[k] = Len(f[k]) /\ IsSeq(seqs[k])
          BY <1>1 DEF n
        <4>2. CASE k = 1
          <5>1. d[k - 1] = 0 /\ Len(seqs[k]) \in Nat
            BY <1>1, <4>1, <4>2, SeqHas
          <5> HIDE DEF d
          <5> QED BY <2>3, <4>1, <4>2, <5>1
        <4>3. CASE k # 1
          <5>1. k \in 2 .. n /\ k - 1 \in 1 .. n /\ d[k - 1] = Len(f[k - 1])
            BY <1>1, <4>3
          <5>2. f[k] = f[k - 1] \o seqs[k] /\ IsSeq(f[k - 1])
            BY <2>3, <2>4, <5>1
          <5>3. Len(f[k - 1] \o seqs[k]) = Len(f[k - 1]) + Len(seqs[k])
            BY <4>1, <5>2, ConcatHas
          <5> HIDE DEF d
          <5> QED BY <4>1, <5>1, <5>2, <5>3
        <4> QED BY <4>2, <4>3
      <3>2. d = [k \in 0 .. n |-> d[k]] /\ d[0] = 0
        BY <1>1
      <3> HIDE DEF d
      <3> QED BY <3>1, <3>2 DEF Cuts
    <2>6. \A k \in 1 .. n : d[k] = Len(f[k])
      BY <1>1
    <2> HIDE DEF d
    <2>7. \A k \in 1 .. n : IsSeq(seqs[k])
      BY DEF n
    <2>8. /\ \A k \in 0 .. n : d[k] \in Nat /\ \A j \in 0 .. k : d[j] <= d[k]
          /\ \A k \in 1 .. n : d[k - 1] \in Nat /\ Len(seqs[k]) \in Nat /\ d[k] = d[k - 1] + Len(seqs[k])
      BY <1>1, <2>5, <2>7, CutsHas
    <2>9. 0 \in J
      <3>1. Joined(f[0], seqs, d, 0)
        BY DEF Joined
      <3> QED BY <1>1, <3>1
    <2>10. ASSUME NEW k \in 0 .. n - 1, k \in J PROVE k + 1 \in J
      <3>1. k + 1 \in 1 .. n /\ k + 1 \in 0 .. n /\ k + 1 - 1 = k
        BY <1>1
      <3>2. IsSeq(seqs[k + 1]) /\ d[k] \in Nat /\ Len(seqs[k + 1]) \in Nat
        BY <2>7, <2>8, <3>1
      <3>3. CASE k = 0
        <4>1. f[k + 1] = seqs[k + 1] /\ d[k] = 0
          BY <2>3, <2>5, <3>3 DEF Cuts
        <4>2. ASSUME NEW j \in 1 .. k + 1, NEW w \in 1 .. Len(seqs[j]) PROVE f[k + 1][d[j - 1] + w] = seqs[j][w]
          <5>1. j = k + 1 /\ j - 1 = k
            BY <3>3
          <5>2. d[j - 1] + w = w
            BY <3>2, <4>1, <5>1
          <5> QED BY <4>1, <5>1, <5>2
        <4> QED BY <3>1, <4>2 DEF Joined
      <3>4. CASE k # 0
        <4>1. PICK i \in 2 .. n : i = k + 1 /\ i - 1 = k /\ k \in 1 .. n
          BY <1>1, <3>4
        <4>6. f[i] = f[i - 1] \o seqs[i]
          BY <2>3
        <4>2. f[k + 1] = f[k] \o seqs[k + 1] /\ IsSeq(f[k]) /\ Len(f[k]) = d[k]
          BY <2>4, <2>6, <4>1, <4>6
        <4> DEFINE p == f[k]
                   s == seqs[k + 1]
        <4>3. IsSeq(p) /\ IsSeq(s) /\ Len(p) = d[k] /\ f[k + 1] = p \o s
          BY <3>2, <4>2
        <4> HIDE DEF p
        <4>4. \A x \in 1 .. Len(p) + Len(s) : (p \o s)[x] = IF x <= Len(p) THEN p[x] ELSE s[x - Len(p)]
          BY <4>3, ConcatHas
        <4>5. ASSUME NEW j \in 1 .. k + 1, NEW w \in 1 .. Len(seqs[j]) PROVE f[k + 1][d[j - 1] + w] = seqs[j][w]
          <5>1. CASE j = k + 1
            <6>1. j - 1 = k /\ w \in 1 .. Len(s)
              BY <5>1
            <6> DEFINE x == d[k] + w
            <6>2. x \in 1 .. Len(p) + Len(s) /\ ~(x <= Len(p)) /\ x - Len(p) = w
              BY <3>2, <4>3, <6>1
            <6> HIDE DEF s, x
            <6>4. f[k + 1][x] = s[x - Len(p)]
              BY <4>3, <4>4, <6>2
            <6>3. f[k + 1][x] = s[w]
              BY <6>2, <6>4
            <6> QED BY <5>1, <6>1, <6>3 DEF s, x
          <5>2. CASE j \in 1 .. k
            <6>1. j \in 1 .. n /\ j \in 0 .. k
              BY <1>1, <5>2
            <6>2. d[j] <= d[k] /\ d[j] \in Nat
              BY <1>1, <2>8, <6>1
            <6>3. d[j - 1] \in Nat /\ Len(seqs[j]) \in Nat /\ d[j] = d[j - 1] + Len(seqs[j])
              BY <2>8, <6>1
            <6> DEFINE l == Len(s)
            <6>4. l \in Nat
              BY <3>2
            <6> DEFINE m == Len(seqs[j])
                       a == d[j - 1]
                       b == d[k]
            <6>5. w \in 1 .. m /\ m \in Nat /\ a \in Nat /\ b \in Nat /\ a + m <= b /\ Len(p) = b
              BY <3>2, <4>3, <6>2, <6>3
            <6> HIDE DEF l, m, a, b
            <6>8. a + w \in 1 .. Len(p) + l /\ a + w <= Len(p)
              BY <6>4, <6>5
            <6>6. f[k + 1][a + w] = p[a + w]
              BY <4>3, <4>4, <6>8 DEF l
            <6>7. p[a + w] = seqs[j][w]
              BY <2>10, <5>2 DEF Joined, p, a
            <6> QED BY <6>6, <6>7 DEF a
          <5> QED BY <5>1, <5>2
        <4> QED BY <3>1, <4>5 DEF Joined
      <3> QED BY <3>3, <3>4
    <2> HIDE DEF J, T
    <2>11. n \in J
      <3>1. \A k \in 0 .. n - 1 : k \in J => k + 1 \in J
        BY <2>10
      <3>2. 0 .. n \subseteq J
        BY <1>1, <2>9, <3>1, Induction
      <3> QED BY <1>1, <3>2
    <2>12. n \in 1 .. n
      BY <1>1, <1>3
    <2>13. /\ Cuts(d, seqs, n) /\ IsSeq(all) /\ Len(all) = d[n] /\ Joined(all, seqs, d, n)
      BY <2>2, <2>4, <2>5, <2>6, <2>11, <2>12 DEF J
    <2> QED BY <2>13 DEF n
  <1> QED BY <1>2, <1>3

-----------------------------------------------------------------------------
(* What a container holds                                                  *)

\* Words that begin with a header, which counts them.
Headed(words) ==
    /\ IsSeq(words) /\ Len(words) \in Nat \ {0}
    /\ words[1] \in HeaderWord /\ words[1].word_count = Len(words)

ContainerOf(md, P) == [type |-> "Container", id |-> 0, metadata |-> <<md>>, payload |-> P]

\* P has n sequences in their places, but for the words nothing was written to.
Blocks(P, seqs, e, n) ==
    \A k \in 1 .. n : \A w \in 1 .. Len(seqs[k]) :
        seqs[k][w] # Junk => P[e[k - 1] + w] = seqs[k][w]

\* f is a container of metadata md and payload P, which begins with n
\* fragments of such words.
Filled(f, md, P, seqs, e, n) ==
    /\ Keeps(f, ContainerOf(md, P))
    /\ \A k \in 1 .. n : Headed(seqs[k])
    /\ Cuts(e, seqs, n)
    /\ Blocks(P, seqs, e, n)
    /\ e[n] <= Len(P)

\* Its metadata when there are n fragments and the index is at the offset.
IndexMetadata(n, offset) ==
    [version : {1}, block_count : {n}, fragment_type : UserTypes \cup {"Empty"},
     has_index : {TRUE}, index_offset : {offset}]

\* The index follows the fragments.
Indexed(md, P, e, n) ==
    /\ md \in IndexMetadata(n, e[n])
    /\ e[n] + n + 1 <= Len(P)
    /\ \A k \in 1 .. n : P[e[n] + k] = [offset |-> e[k]]
    /\ P[e[n] + n + 1] = Magic

LEMMA ContainerReads ==
  ASSUME NEW f, NEW md, NEW P, Keeps(f, ContainerOf(md, P))
  PROVE  /\ IsFrag(f) /\ ContainerMetadata(f) = md
         /\ Header(f).type = "Container" /\ Header(f).id = 0
         /\ IsSeq(P) /\ Len(P) \in Nat /\ DataSize(f) = Len(P) /\ DataBegin(f) \in Nat
         /\ HeaderSizeWords(f) \in {1, 2} /\ DataBegin(f) = HeaderSizeWords(f) + 1
         /\ \A o \in 1 .. Len(P) : P[o] # Junk => f.vals.mem[DataBegin(f) + o] = P[o]
         /\ \A o \in Nat : o < Len(P) /\ P[o + 1] # Junk => WordAt(f, o) = P[o + 1]
  <1> DEFINE v == ContainerOf(md, P)
  <1>1. v.type = "Container" /\ v.id = 0 /\ v.metadata = <<md>> /\ v.payload = P
    BY DEF ContainerOf
  <1> HIDE DEF v
  <1>2. Keeps(f, v)
    BY DEF v
  <1>3. Len(<<md>>) = 1 /\ <<md>>[1] = md
    BY OneWord
  <1>4. /\ IsFrag(f) /\ f.vals.size \in Nat /\ f.vals.capacity \in Nat /\ f.vals.size <= f.vals.capacity
        /\ DataBegin(f) \in Nat /\ HeaderSizeWords(f) \in {1, 2} /\ DataBegin(f) = HeaderSizeWords(f) + 1
        /\ f.vals.size = DataBegin(f) + Len(P) /\ Len(P) \in Nat
    BY <1>1, <1>2, <1>3, KeepsHas
  <1>5. /\ v.type = Header(f).type /\ v.id = Header(f).id /\ IsSeq(v.payload) /\ Len(v.payload) = DataSize(f)
        /\ \A k \in 1 .. Len(v.metadata) : f.vals.mem[HeaderSizeWords(f) + k] = v.metadata[k]
        /\ \A k \in 1 .. Len(v.payload) : v.payload[k] # Junk => f.vals.mem[DataBegin(f) + k] = v.payload[k]
    BY <1>2 DEF Keeps
  <1>6. ContainerMetadata(f) = md
    <2>1. 1 \in 1 .. Len(v.metadata)
      BY <1>1, <1>3
    <2> QED BY <1>1, <1>3, <1>5, <2>1 DEF ContainerMetadata
  <1>7. \A o \in 1 .. Len(P) : P[o] # Junk => f.vals.mem[DataBegin(f) + o] = P[o]
    BY <1>1, <1>5
  <1>8. ASSUME NEW o \in Nat, o < Len(P), P[o + 1] # Junk PROVE WordAt(f, o) = P[o + 1]
    <2>1. o # Wild /\ DataBegin(f) + o < f.vals.capacity /\ DataBegin(f) + o + 1 = DataBegin(f) + (o + 1)
      BY <1>4, <1>8 DEF Wild
    <2>2. PICK x \in 1 .. Len(P) : x = o + 1
      BY <1>4, <1>8
    <2>3. WordAt(f, o) = f.vals.mem[DataBegin(f) + x]
      BY <2>1, <2>2 DEF WordAt
    <2> QED BY <1>7, <1>8, <2>2, <2>3
  <1> QED BY <1>1, <1>4, <1>5, <1>6, <1>7, <1>8

LEMMA HeadedHas ==
  ASSUME NEW words, Headed(words)
  PROVE  /\ IsSeq(words) /\ Len(words) \in Nat /\ 1 <= Len(words)
         /\ words[1] \in HeaderWord /\ words[1] # Junk /\ words[1].word_count = Len(words)
  BY ContainerAssumption DEF Headed

\* Where the words of n fragments are.
LEMMA FilledHas ==
  ASSUME NEW f, NEW md, NEW P, NEW seqs, NEW e, NEW n \in Nat, Filled(f, md, P, seqs, e, n)
  PROVE  /\ Keeps(f, ContainerOf(md, P)) /\ IsSeq(P) /\ Len(P) \in Nat
         /\ e[0] = 0 /\ e[n] \in Nat /\ e[n] <= Len(P)
         /\ \A k \in 0 .. n : e[k] \in Nat /\ e[k] <= e[n]
         /\ \A k \in 1 .. n : /\ e[k - 1] \in Nat /\ Len(seqs[k]) \in Nat /\ 1 <= Len(seqs[k])
                              /\ e[k] = e[k - 1] + Len(seqs[k]) /\ e[k] <= e[n]
  <1>1. /\ Keeps(f, ContainerOf(md, P)) /\ Cuts(e, seqs, n) /\ e[n] <= Len(P)
        /\ \A k \in 1 .. n : IsSeq(seqs[k]) /\ 1 <= Len(seqs[k])
    BY HeadedHas DEF Filled
  <1>2. IsSeq(P) /\ Len(P) \in Nat
    BY <1>1, ContainerReads
  <1>3. /\ \A k \in 0 .. n : e[k] \in Nat /\ e[k] <= e[n]
        /\ \A k \in 1 .. n : e[k - 1] \in Nat /\ Len(seqs[k]) \in Nat /\ e[k] = e[k - 1] + Len(seqs[k])
    BY <1>1, CutsHas
  <1>4. e[0] = 0 /\ n \in 0 .. n /\ \A k \in 1 .. n : k \in 0 .. n
    BY <1>1 DEF Cuts
  <1> QED BY <1>1, <1>2, <1>3, <1>4

\* The index is found, and says where the fragments are.
LEMMA IndexedReads ==
  ASSUME NEW f, NEW md, NEW P, NEW seqs, NEW e, NEW n \in Nat, Filled(f, md, P, seqs, e, n),
         Indexed(md, P, e, n)
  PROVE  /\ HasIndex(f) /\ ~IsVersion0(f)
         /\ \A k \in 0 .. n : \A ptr : n = 0 \/ ptr = IndexOf(f) => FragmentIndex(f, ptr, k) = e[k]
  <1>1. /\ Keeps(f, ContainerOf(md, P)) /\ Len(P) \in Nat /\ e[0] = 0 /\ e[n] \in Nat
        /\ \A k \in 0 .. n : e[k] \in Nat
    BY FilledHas
  <1>2. /\ ContainerMetadata(f) = md /\ DataBegin(f) \in Nat
        /\ \A o \in 1 .. Len(P) : P[o] # Junk => f.vals.mem[DataBegin(f) + o] = P[o]
        /\ \A o \in Nat : o < Len(P) /\ P[o + 1] # Junk => WordAt(f, o) = P[o + 1]
    BY <1>1, ContainerReads
  <1>3. /\ md.version = 1 /\ md.block_count = n /\ md.has_index = TRUE /\ md.index_offset = e[n]
        /\ e[n] + n + 1 <= Len(P) /\ P[e[n] + n + 1] = Magic
        /\ \A k \in 1 .. n : P[e[n] + k] = [offset |-> e[k]]
    BY DEF Indexed, IndexMetadata
  <1>4. ~IsVersion0(f)
    BY <1>2, <1>3 DEF IsVersion0
  <1>5. HasIndex(f)
    <2> DEFINE o == e[n] + n
    <2>1. o \in Nat /\ o < Len(P) /\ P[o + 1] = Magic
      BY <1>1, <1>3
    <2>2. md.index_offset + md.block_count = o
      BY <1>3
    <2> HIDE DEF o
    <2>3. WordAt(f, o) = Magic
      BY <1>2, <2>1, ContainerAssumption
    <2> QED BY <1>2, <1>3, <2>2, <2>3 DEF HasIndex
  <1>6. ASSUME NEW k \in 0 .. n, NEW ptr, n = 0 \/ ptr = IndexOf(f) PROVE FragmentIndex(f, ptr, k) = e[k]
    <2>1. CASE k = 0
      BY <1>1, <2>1 DEF FragmentIndex
    <2>2. CASE k # 0
      <3>1. n # 0 /\ k \in 1 .. n
        BY <2>2
      <3>2. ptr.block = f.vals.block /\ ptr.at = DataBegin(f) + e[n]
        BY <1>2, <1>3, <1>6, <3>1 DEF IndexOf
      <3>3. FragmentIndex(f, ptr, k) = OffsetIn(f.vals.mem[ptr.at + k])
        BY <1>4, <2>2, <3>2 DEF FragmentIndex
      <3> DEFINE o == e[n] + k
      <3>4. o \in 1 .. Len(P) /\ ptr.at + k = DataBegin(f) + o
        BY <1>1, <1>2, <1>3, <3>1, <3>2
      <3>5. P[o] = [offset |-> e[k]]
        BY <1>3, <3>1
      <3> HIDE DEF o
      <3>6. [offset |-> e[k]] \in IndexWord /\ [offset |-> e[k]] # Junk
        BY <1>1, ContainerAssumption DEF IndexWord
      <3>7. f.vals.mem[ptr.at + k] = [offset |-> e[k]]
        BY <1>2, <3>4, <3>5, <3>6
      <3> QED BY <3>3, <3>6, <3>7 DEF OffsetIn
    <2> QED BY <2>1, <2>2
  <1> QED BY <1>4, <1>5, <1>6

\* Fragments in another payload, that begins with the same words.
LEMMA FilledStays ==
  ASSUME NEW f, NEW md, NEW P, NEW seqs, NEW e, NEW n \in Nat, Filled(f, md, P, seqs, e, n),
         NEW g, NEW m, NEW Q, Keeps(g, ContainerOf(m, Q)), e[n] <= Len(Q), \A o \in 1 .. e[n] : Q[o] = P[o]
  PROVE  Filled(g, m, Q, seqs, e, n)
  <1>1. \A k \in 1 .. n : /\ e[k - 1] \in Nat /\ Len(seqs[k]) \in Nat
                          /\ e[k] = e[k - 1] + Len(seqs[k]) /\ e[k] <= e[n] /\ e[n] \in Nat
    BY FilledHas
  <1>2. ASSUME NEW k \in 1 .. n, NEW w \in 1 .. Len(seqs[k]), seqs[k][w] # Junk
        PROVE  Q[e[k - 1] + w] = seqs[k][w]
    <2> DEFINE a == e[k - 1]
               l == Len(seqs[k])
               b == e[n]
    <2>1. a \in Nat /\ l \in Nat /\ b \in Nat /\ a + l <= b /\ w \in 1 .. l
      BY <1>1
    <2>2. P[a + w] = seqs[k][w]
      BY <1>2 DEF Filled, Blocks
    <2> HIDE DEF a, l, b
    <2>3. a + w \in 1 .. b
      BY <2>1
    <2>4. Q[a + w] = P[a + w]
      BY <2>3 DEF b
    <2> QED BY <2>2, <2>4 DEF a
  <1>3. Blocks(Q, seqs, e, n)
    BY <1>2 DEF Blocks
  <1> QED BY <1>3 DEF Filled

-----------------------------------------------------------------------------
(* What the functions of the loader do to it                               *)

\* A function that has neither thrown nor used memory of others.
Sound(l) == l \in [f : {l.f}, index_ptr : {l.index_ptr}, threw : {FALSE}, wild : {FALSE}]

\* Pointers into f are pointers into g.
SameAddress(g, f) == g.vals.block = f.vals.block /\ DataBegin(g) = DataBegin(f)

LEMMA SoundSet ==
  ASSUME NEW l, Sound(l), NEW x
  PROVE  /\ Sound([l EXCEPT !.f = x]) /\ [l EXCEPT !.f = x].f = x /\ [l EXCEPT !.f = x].index_ptr = l.index_ptr
         /\ Sound([l EXCEPT !.index_ptr = x]) /\ [l EXCEPT !.index_ptr = x].index_ptr = x
         /\ [l EXCEPT !.index_ptr = x].f = l.f
         /\ ~Failed(l)
  <1>1. ~Failed(l)
    BY DEF Sound, Failed
  <1>2. [l EXCEPT !.f = x] \in [f : {x}, index_ptr : {l.index_ptr}, threw : {FALSE}, wild : {FALSE}]
    BY DEF Sound
  <1>3. [l EXCEPT !.index_ptr = x] \in [f : {l.f}, index_ptr : {x}, threw : {FALSE}, wild : {FALSE}]
    BY DEF Sound
  <1>4. \A r, y, p : r \in [f : {y}, index_ptr : {p}, threw : {FALSE}, wild : {FALSE}]
                        => Sound(r) /\ r.f = y /\ r.index_ptr = p
    BY DEF Sound
  <1> QED BY <1>1, <1>2, <1>3, <1>4

LEMMA ResetHas ==
  ASSUME NEW l, Sound(l), HasIndex(l.f)
  PROVE  LET r == ResetIndexPtr(l) IN Sound(r) /\ r.f = l.f /\ r.index_ptr = IndexOf(l.f)
  BY SoundSet DEF ResetIndexPtr

\* A container of metadata md and payload P, with so many words more.
Grown(l, md, P, x) ==
    /\ Sound(l) /\ l.index_ptr = IndexOf(l.f)
    /\ \E Q : /\ Keeps(l.f, ContainerOf(md, Q)) /\ Len(Q) = Len(P) + x
              /\ \A k \in 1 .. Len(P) : Q[k] = P[k]

\* More room at the end.  The mark that ends the index is still in its place.
LEMMA AddSpaceHas ==
  ASSUME NEW l, Sound(l), NEW md, NEW P, Keeps(l.f, ContainerOf(md, P)), NEW b \in Nat, NEW a \in Nat,
         md \in IndexMetadata(b, a), a + b + 1 <= Len(P), P[a + b + 1] = Magic, NEW x \in Nat
  PROVE  Grown(AddSpace(l, x), md, P, x)
  <1> DEFINE n == Len(P) + x
             g == ResizeDataWithCushion(l.f, DataSize(l.f) + x)
             Q == [k \in 1 .. n |-> IF k <= Len(P) THEN P[k] ELSE Junk]
             s == [l EXCEPT !.f = g]
             o == a + b
  <1>1. DataSize(l.f) = Len(P) /\ Len(P) \in Nat /\ n \in Nat
    BY ContainerReads
  <1>2. Keeps(g, Resized(ContainerOf(md, P), n))
    BY <1>1, ResizeKeeps
  <1>3. Resized(ContainerOf(md, P), n) = ContainerOf(md, Q)
    <2> HIDE DEF n
    <2>1. ContainerOf(md, P).payload = P
      BY DEF ContainerOf
    <2>2. Resized(ContainerOf(md, P), n) = [ContainerOf(md, P) EXCEPT !.payload = Q]
      BY <2>1 DEF Resized
    <2> HIDE DEF Q
    <2>3. [ContainerOf(md, P) EXCEPT !.payload = Q] = ContainerOf(md, Q)
      BY DEF ContainerOf
    <2> QED BY <2>2, <2>3
  <1> HIDE DEF g
  <1>4. Keeps(g, ContainerOf(md, Q))
    BY <1>2, <1>3
  <1>5. Len(Q) = n /\ \A k \in 1 .. Len(P) : Q[k] = P[k]
    <2>1. \A k \in 1 .. Len(P) : k \in 1 .. n /\ k <= Len(P)
      BY <1>1
    <2>2. \A k \in 1 .. n : Q[k] = IF k <= Len(P) THEN P[k] ELSE Junk
      OBVIOUS
    <2>3. Len(Q) = n
      <3> HIDE DEF n
      <3> QED BY <1>1, FcnIsSeq
    <2> HIDE DEF Q, n
    <2> QED BY <2>1, <2>2, <2>3
  <1> HIDE DEF Q
  <1>6. HasIndex(g)
    <2>1. ContainerMetadata(g) = md /\ \A k \in Nat : k < Len(Q) /\ Q[k + 1] # Junk => WordAt(g, k) = Q[k + 1]
      BY <1>4, ContainerReads
    <2>2. o \in Nat /\ o < Len(Q) /\ o + 1 \in 1 .. Len(P) /\ o + 1 = a + b + 1
      BY <1>1, <1>5
    <2>5. md.has_index = TRUE /\ md.index_offset + md.block_count = o
      BY DEF IndexMetadata
    <2> HIDE DEF o
    <2>3. Q[o + 1] = Magic
      BY <1>5, <2>2
    <2>4. WordAt(g, o) = Magic
      BY <2>1, <2>2, <2>3, ContainerAssumption
    <2> QED BY <2>1, <2>4, <2>5 DEF HasIndex
  <1>7. Sound(s) /\ s.f = g
    BY SoundSet
  <1>8. AddSpace(l, x) = ResetIndexPtr(s)
    BY DEF AddSpace, g
  <1> HIDE DEF s
  <1>9. /\ Sound(ResetIndexPtr(s)) /\ ResetIndexPtr(s).f = g
        /\ ResetIndexPtr(s).index_ptr = IndexOf(g)
    BY <1>6, <1>7, ResetHas
  <1> QED BY <1>4, <1>5, <1>8, <1>9 DEF n, Grown

\* The payload P with words written behind the first offset.
PutAt(P, offset, words) ==
    [o \in 1 .. Len(P) |->
        IF o \in offset + 1 .. offset + Len(words) THEN words[o - offset] ELSE P[o]]

LEMMA PutHas ==
  ASSUME NEW P, Len(P) \in Nat, NEW offset \in Nat, NEW words, IsSeq(words), offset + Len(words) <= Len(P)
  PROVE  LET Q == PutAt(P, offset, words)
         IN  /\ IsSeq(Q) /\ Len(Q) = Len(P)
             /\ \A o \in 1 .. Len(P) : o <= offset \/ o > offset + Len(words) => Q[o] = P[o]
             /\ \A w \in 1 .. Len(words) : Q[offset + w] = words[w]
  <1> DEFINE n == Len(P)
             m == Len(words)
             Q == PutAt(P, offset, words)
  <1>1. m \in Nat /\ n \in Nat
    BY SeqHas
  <1>2. \A o \in 1 .. n : Q[o] = IF o \in offset + 1 .. offset + m THEN words[o - offset] ELSE P[o]
    BY DEF PutAt
  <1>3. Q = [o \in 1 .. n |-> Q[o]]
    BY DEF PutAt
  <1>4. offset + m <= n
    OBVIOUS
  <1> HIDE DEF Q, n, m
  <1>5. IsSeq(Q) /\ Len(Q) = n
    BY <1>1, <1>3, FcnIsSeq
  <1>6. \A o \in 1 .. n : o <= offset \/ o > offset + m => Q[o] = P[o]
    BY <1>1, <1>2
  <1>7. ASSUME NEW w \in 1 .. m PROVE Q[offset + w] = words[w]
    <2>1. PICK o \in 1 .. n : o = offset + w /\ o \in offset + 1 .. offset + m /\ o - offset = w
      BY <1>1, <1>4
    <2> QED BY <1>2, <2>1
  <1> QED BY <1>5, <1>6, <1>7 DEF Q, n, m

\* Q is P with the words behind the first offset.
Differs(Q, P, offset, words) ==
    /\ Len(Q) = Len(P)
    /\ \A o \in 1 .. Len(P) : o <= offset \/ o > offset + Len(words) => Q[o] = P[o]
    /\ \A w \in 1 .. Len(words) : Q[offset + w] = words[w]

LEMMA PutDiffers ==
  ASSUME NEW P, Len(P) \in Nat, NEW offset \in Nat, NEW words, IsSeq(words), offset + Len(words) <= Len(P)
  PROVE  Differs(PutAt(P, offset, words), P, offset, words)
  BY PutHas DEF Differs

\* Words copied into the payload.
LEMMA StoreHas ==
  ASSUME NEW l, Sound(l), NEW md, NEW P, Keeps(l.f, ContainerOf(md, P)),
         NEW offset \in Nat, NEW words, IsSeq(words), offset + Len(words) <= Len(P)
  PROVE  LET r == Store(l, offset, words)
         IN  /\ Sound(r) /\ r.index_ptr = l.index_ptr
             /\ Keeps(r.f, ContainerOf(md, PutAt(P, offset, words)))
             /\ SameAddress(r.f, l.f)
  <1> DEFINE b == HeaderSizeWords(l.f)
             d == DataBegin(l.f)
             at == d + offset
             g == WriteWords(l.f, at, words)
             Q == PutAt(P, offset, words)
             m == Len(words)
             n == Len(P)
             v == ContainerOf(md, P)
             r == ContainerOf(md, Q)
  <1>1. /\ b \in {1, 2} /\ d = b + 1 /\ d \in Nat /\ DataSize(l.f) = n /\ n \in Nat /\ IsSeq(P) /\ IsFrag(l.f)
    BY ContainerReads
  <1>2. m \in Nat /\ offset + m <= n /\ IsSeq(<<md>>) /\ Len(<<md>>) = 1
    BY SeqHas, OneWord
  <1>3. IsSeq(Q) /\ Len(Q) = n
    BY <1>1, PutHas
  <1>4. /\ v.type = "Container" /\ v.id = 0 /\ v.metadata = <<md>> /\ v.payload = P
        /\ r \in [type : {"Container"}, id : {0}, metadata : {<<md>>}, payload : {Q}]
        /\ r.metadata = <<md>> /\ r.payload = Q
    BY DEF ContainerOf
  <1>5. Keeps(l.f, v)
    OBVIOUS
  <1>6. \A o \in 1 .. n : Q[o] = IF o \in offset + 1 .. offset + m THEN words[o - offset] ELSE P[o]
    BY DEF PutAt
  <1>7. Store(l, offset, words) = [l EXCEPT !.f = g]
    <2>1. offset # Wild /\ ~(offset + m > DataSize(l.f))
      BY <1>1, <1>2 DEF Wild
    <2> QED BY <2>1 DEF Store
  <1> HIDE DEF Q
  <1>8. Overwritten(Q, P, d, at, words)
    <2> SUFFICES ASSUME NEW k \in 1 .. n
                 PROVE  Q[k] = IF d + k \in at + 1 .. at + m THEN words[d + k - at] ELSE P[k]
      BY DEF Overwritten
    <2> HIDE DEF n, m, d, b
    <2>1. d + k \in at + 1 .. at + m <=> k \in offset + 1 .. offset + m
      BY <1>1, <1>2
    <2>2. d + k - at = k - offset
      BY <1>1
    <2> QED BY <1>6, <2>1, <2>2
  <1>9. Overwritten(<<md>>, <<md>>, b, at, words)
    <2> SUFFICES ASSUME NEW k \in 1 .. Len(<<md>>)
                 PROVE  ~(b + k \in at + 1 .. at + m)
      BY DEF Overwritten
    <2> HIDE DEF m, d, b
    <2> QED BY <1>1, <1>2
  <1>10. at \in Nat /\ 1 <= at
    BY <1>1
  <1>11. /\ IsFrag(g) /\ Header(g) = Header(l.f) /\ HeaderSizeWords(g) = HeaderSizeWords(l.f)
         /\ SamePlaces(g.vals, l.f.vals)
    <2> HIDE DEF at, g
    <2>1. IsFrag(WriteWords(l.f, at, words)) /\ Header(WriteWords(l.f, at, words)) = Header(l.f)
      BY <1>1, <1>10, WrittenFrag
    <2>2. /\ HeaderSizeWords(WriteWords(l.f, at, words)) = HeaderSizeWords(l.f)
          /\ SamePlaces(WriteWords(l.f, at, words).vals, l.f.vals)
      BY <1>1, <1>10, WrittenFrag
    <2> QED BY <2>1, <2>2 DEF g
  <1>12. SameAddress(g, l.f)
    BY <1>11 DEF SameAddress, SamePlaces, DataBegin
  <1> HIDE DEF v, r
  <1>13. Keeps(g, r)
    <2> HIDE DEF at
    <2>1. r \in [type : {v.type}, id : {v.id}, metadata : {r.metadata}, payload : {r.payload}]
      BY <1>4
    <2>2. /\ IsSeq(r.metadata) /\ Len(r.metadata) = Len(v.metadata)
          /\ IsSeq(r.payload) /\ Len(r.payload) = Len(v.payload)
      BY <1>2, <1>3, <1>4
    <2>3. /\ Overwritten(r.metadata, v.metadata, HeaderSizeWords(l.f), at, words)
          /\ Overwritten(r.payload, v.payload, DataBegin(l.f), at, words)
      BY <1>4, <1>8, <1>9
    <2> QED BY <1>5, <1>10, <2>1, <2>2, <2>3, WrittenKeeps
  <1> DEFINE s == [l EXCEPT !.f = g]
  <1> HIDE DEF g
  <1>14. Sound(s) /\ s.f = g /\ s.index_ptr = l.index_ptr
    BY SoundSet
  <1> QED BY <1>7, <1>12, <1>13, <1>14 DEF r, Q

LEMMA StoreMetadataHas ==
  ASSUME NEW l, Sound(l), NEW md, NEW P, Keeps(l.f, ContainerOf(md, P)), NEW m
  PROVE  LET r == StoreMetadata(l, m)
         IN  /\ Sound(r) /\ r.index_ptr = l.index_ptr
             /\ Keeps(r.f, ContainerOf(m, P))
             /\ SameAddress(r.f, l.f)
  <1> DEFINE words == <<m>>
             at == HeaderSizeWords(l.f)
             g == UpdateMetadata(l.f, words)
             v == ContainerOf(md, P)
  <1>1. IsSeq(words) /\ Len(words) = 1 /\ Len(v.metadata) = 1
    BY OneWord DEF ContainerOf
  <1>2. at \in Nat /\ 1 <= at /\ IsFrag(l.f)
    BY ContainerReads
  <1>3. [v EXCEPT !.metadata = words] = ContainerOf(m, P)
    BY DEF ContainerOf
  <1>4. StoreMetadata(l, m) = [l EXCEPT !.f = g]
    BY DEF StoreMetadata
  <1>5. g = WriteWords(l.f, at, words)
    BY DEF UpdateMetadata
  <1> HIDE DEF words, at, v
  <1>6. Keeps(UpdateMetadata(l.f, words), [v EXCEPT !.metadata = words])
    BY <1>1, UpdateMetadataKeeps DEF v
  <1> HIDE DEF g
  <1>7. Keeps(g, ContainerOf(m, P))
    BY <1>3, <1>6 DEF g
  <1>8. /\ Header(g) = Header(l.f) /\ HeaderSizeWords(g) = HeaderSizeWords(l.f)
        /\ SamePlaces(g.vals, l.f.vals)
    BY <1>1, <1>2, <1>5, WrittenFrag
  <1>9. SameAddress(g, l.f)
    BY <1>8 DEF SameAddress, SamePlaces, DataBegin
  <1> DEFINE s == [l EXCEPT !.f = g]
  <1>10. Sound(s) /\ s.f = g /\ s.index_ptr = l.index_ptr
    BY SoundSet
  <1> QED BY <1>4, <1>7, <1>9, <1>10


\* Where a fragment ends that begins at x, by its header.
EndAfter(f, x) ==
    LET word == WordAt(f, x) IN IF word \in HeaderWord THEN x + word.word_count ELSE Wild

\* The function that Ends defines.
Ending(f, n, g) == g = [k \in 0 .. n |-> IF k = 0 THEN 0 ELSE EndAfter(f, g[k - 1])]

\* create_index_ finds where the fragments end.
LEMMA EndsHas ==
  ASSUME NEW f, NEW md, NEW P, NEW seqs, NEW e, NEW n \in Nat, Filled(f, md, P, seqs, e, n)
  PROVE  Ends(f, n) = [k \in 1 .. n |-> e[k]]
  <1> DEFINE g == CHOOSE end : Ending(f, n, end)
             T == {k \in 0 .. n : g[k] = e[k]}
  <1>1. /\ Keeps(f, ContainerOf(md, P)) /\ Len(P) \in Nat /\ e[0] = 0 /\ e[n] \in Nat /\ e[n] <= Len(P)
        /\ \A k \in 1 .. n : /\ e[k - 1] \in Nat /\ Len(seqs[k]) \in Nat /\ 1 <= Len(seqs[k])
                             /\ e[k] = e[k - 1] + Len(seqs[k]) /\ e[k] <= e[n]
    BY FilledHas
  <1>2. \A o \in Nat : o < Len(P) /\ P[o + 1] # Junk => WordAt(f, o) = P[o + 1]
    BY <1>1, ContainerReads
  <1>3. \A k \in 1 .. n : EndAfter(f, e[k - 1]) = e[k]
    <2> SUFFICES ASSUME NEW k \in 1 .. n PROVE EndAfter(f, e[k - 1]) = e[k]
      OBVIOUS
    <2> DEFINE a == e[k - 1]
               l == Len(seqs[k])
               b == e[n]
               h == seqs[k][1]
    <2>1. a \in Nat /\ l \in Nat /\ b \in Nat /\ 1 <= l /\ e[k] = a + l /\ a + l <= b /\ b <= Len(P)
      BY <1>1
    <2>2. h \in HeaderWord /\ h # Junk /\ h.word_count = l
      BY HeadedHas DEF Filled
    <2>3. 1 \in 1 .. l
      BY <2>1
    <2>4. P[a + 1] = h
      BY <2>2, <2>3 DEF Filled, Blocks
    <2> HIDE DEF a, l, b, h
    <2>5. a < Len(P)
      BY <1>1, <2>1
    <2>6. WordAt(f, a) = h
      BY <1>2, <2>1, <2>2, <2>4, <2>5
    <2>7. EndAfter(f, a) = e[k]
      BY <2>1, <2>2, <2>6 DEF EndAfter
    <2> QED BY <2>7 DEF a
  <1>4. Ending(f, n, e)
    <2>1. e = [k \in 0 .. n |-> e[k]]
      BY DEF Filled, Cuts
    <2>2. \A k \in 0 .. n : k = 0 \/ k \in 1 .. n
      OBVIOUS
    <2>3. \A k \in 0 .. n : e[k] = IF k = 0 THEN 0 ELSE EndAfter(f, e[k - 1])
      BY <1>1, <1>3, <2>2
    <2> QED BY <2>1, <2>3 DEF Ending
  <1>5. Ending(f, n, g)
    BY <1>4
  <1>6. Ends(f, n) = [k \in 1 .. n |-> g[k]]
    BY DEF Ends, Ending, EndAfter
  <1> HIDE DEF g
  <1>7. g[0] = 0 /\ \A k \in 1 .. n : g[k] = EndAfter(f, g[k - 1])
    BY <1>5 DEF Ending
  <1>8. 0 \in T
    BY <1>1, <1>7
  <1>9. \A k \in 0 .. n - 1 : k \in T => k + 1 \in T
    <2> SUFFICES ASSUME NEW k \in 0 .. n - 1, k \in T PROVE k + 1 \in T
      OBVIOUS
    <2>1. PICK j \in 1 .. n : j = k + 1 /\ j - 1 = k /\ j \in 0 .. n
      OBVIOUS
    <2>2. g[j] = EndAfter(f, g[j - 1]) /\ EndAfter(f, e[j - 1]) = e[j] /\ g[j - 1] = e[j - 1]
      BY <1>3, <1>7, <2>1
    <2> QED BY <2>1, <2>2
  <1> HIDE DEF T
  <1>10. 0 .. n \subseteq T
    BY <1>8, <1>9, Induction
  <1>11. \A k \in 1 .. n : g[k] = e[k]
    <2>1. \A k \in 1 .. n : k \in 0 .. n
      OBVIOUS
    <2> QED BY <1>10, <2>1 DEF T
  <1> QED BY <1>6, <1>11

-----------------------------------------------------------------------------
(* What a loader holds between two functions                               *)

\* The container is whole and its index follows the fragments; the pointer is
\* to that index, or there is no fragment yet and it may be none.
Loaded(l, md, P, seqs, e, n) ==
    /\ Sound(l)
    /\ Filled(l.f, md, P, seqs, e, n)
    /\ Indexed(md, P, e, n)
    /\ n = 0 \/ l.index_ptr = IndexOf(l.f)

LEMMA IndexWordsHave ==
  ASSUME NEW n \in Nat, NEW ends
  PROVE  LET index == [k \in 1 .. n |-> [offset |-> ends[k]]] \o <<Magic>>
         IN  /\ IsSeq(index) /\ Len(index) = n + 1 /\ index[n + 1] = Magic
             /\ \A k \in 1 .. n : index[k] = [offset |-> ends[k]]
  <1> DEFINE s == [k \in 1 .. n |-> [offset |-> ends[k]]]
             t == <<Magic>>
  <1>1. IsSeq(s) /\ Len(s) = n
    BY FcnIsSeq
  <1>2. IsSeq(t) /\ Len(t) = 1 /\ t[1] = Magic
    BY OneWord
  <1>3. \A k \in 1 .. n : s[k] = [offset |-> ends[k]]
    OBVIOUS
  <1> HIDE DEF s, t
  <1>4. /\ IsSeq(s \o t) /\ Len(s \o t) = n + 1
        /\ \A k \in 1 .. n + 1 : (s \o t)[k] = IF k <= n THEN s[k] ELSE t[k - n]
    BY <1>1, <1>2, ConcatHas
  <1>5. (s \o t)[n + 1] = Magic
    <2>1. n + 1 \in 1 .. n + 1 /\ ~(n + 1 <= n) /\ n + 1 - n = 1
      OBVIOUS
    <2> QED BY <1>2, <1>4, <2>1
  <1>6. \A k \in 1 .. n : (s \o t)[k] = s[k]
    <2>1. \A k \in 1 .. n : k \in 1 .. n + 1 /\ k <= n
      OBVIOUS
    <2> QED BY <1>4, <2>1
  <1> QED BY <1>3, <1>4, <1>5, <1>6 DEF s, t

\* The end of each function: the index is made again, and found.
LEMMA ReindexHas ==
  ASSUME NEW l, Sound(l), NEW md, NEW P, NEW seqs, NEW e, NEW n \in Nat, Filled(l.f, md, P, seqs, e, n),
         NEW b \in Nat, NEW o, md \in IndexMetadata(b, o), NEW new \in Nat, b + new = n,
         1 <= n, n < CountLimit, e[n] + n + 1 <= Len(P)
  PROVE  \E m, Q : /\ Loaded(Reindex(l, new), m, Q, seqs, e, n)
                   /\ Reindex(l, new).index_ptr = IndexOf(Reindex(l, new).f)
  <1> DEFINE ends == Ends(l.f, n)
             index == [k \in 1 .. n |-> [offset |-> ends[k]]] \o <<Magic>>
             m == [md EXCEPT !.block_count = n, !.has_index = TRUE, !.index_offset = ends[n]]
             counted == StoreMetadata(l, m)
             stored == Store(counted, ends[n], index)
             Q == PutAt(P, e[n], index)
             r == ResetIndexPtr(stored)
  <1>1. Keeps(l.f, ContainerOf(md, P)) /\ Len(P) \in Nat /\ e[n] \in Nat /\ e[n] <= Len(P)
    BY FilledHas
  <1>2. ContainerMetadata(l.f) = md
    BY <1>1, ContainerReads
  <1>3. (BlockCount(l) + new) % CountLimit = n
    <2>1. BlockCount(l) = b
      BY <1>2 DEF BlockCount, IndexMetadata
    <2>2. n % CountLimit = n
      BY ContainerAssumption
    <2> QED BY <2>1, <2>2
  <1>4. n \in 1 .. n /\ ends[n] = e[n] /\ \A k \in 1 .. n : ends[k] = e[k]
    BY EndsHas
  <1>5. ends[n] # Wild /\ n # 0
    BY <1>1, <1>4 DEF Wild
  <1>6. Reindex(l, new) = IF Failed(stored) THEN stored ELSE r
    BY <1>2, <1>3, <1>5 DEF Reindex
  <1>7. m \in IndexMetadata(n, e[n])
    <2> HIDE DEF ends
    <2>1. m \in [version : {1}, block_count : {n}, fragment_type : UserTypes \cup {"Empty"},
                 has_index : {TRUE}, index_offset : {ends[n]}]
      BY DEF IndexMetadata
    <2> QED BY <1>4, <2>1 DEF IndexMetadata
  <1>8. /\ IsSeq(index) /\ Len(index) = n + 1 /\ index[n + 1] = Magic
        /\ \A k \in 1 .. n : index[k] = [offset |-> e[k]]
    <2> HIDE DEF ends
    <2> QED BY <1>4, IndexWordsHave
  <1> HIDE DEF m, index
  <1>9. Sound(counted) /\ Keeps(counted.f, ContainerOf(m, P))
    BY <1>1, StoreMetadataHas
  <1>10. e[n] + Len(index) <= Len(P)
    <2> DEFINE a == e[n]
    <2>1. a \in Nat /\ a + n + 1 <= Len(P)
      BY <1>1
    <2> HIDE DEF a
    <2>2. a + (n + 1) <= Len(P)
      BY <1>1, <2>1
    <2> QED BY <1>8, <2>2 DEF a
  <1> HIDE DEF counted
  <1>11. Sound(stored) /\ Keeps(stored.f, ContainerOf(m, Q))
    <2>1. /\ Sound(Store(counted, e[n], index))
          /\ Keeps(Store(counted, e[n], index).f, ContainerOf(m, PutAt(P, e[n], index)))
      BY <1>1, <1>8, <1>9, <1>10, StoreHas
    <2> QED BY <1>4, <2>1
  <1>12. /\ Len(Q) = Len(P) /\ \A x \in 1 .. Len(P) : x <= e[n] => Q[x] = P[x]
         /\ \A w \in 1 .. Len(index) : Q[e[n] + w] = index[w]
    <2> DEFINE a == e[n]
               S == PutAt(P, a, index)
    <2>1. Len(P) \in Nat /\ a \in Nat /\ IsSeq(index) /\ a + Len(index) <= Len(P)
      BY <1>1, <1>8, <1>10
    <2> HIDE DEF a
    <2>2. /\ Len(S) = Len(P) /\ \A x \in 1 .. Len(P) : x <= a \/ x > a + Len(index) => S[x] = P[x]
          /\ \A w \in 1 .. Len(index) : S[a + w] = index[w]
      BY <2>1, PutHas
    <2> HIDE DEF S
    <2>3. \A x \in 1 .. Len(P) : x <= a => S[x] = P[x]
      BY <2>2
    <2>4. Q = S
      BY DEF S, a
    <2> HIDE DEF Q
    <2> QED BY <2>2, <2>3, <2>4 DEF a
  <1> HIDE DEF stored, Q, ends
  <1>13. Filled(stored.f, m, Q, seqs, e, n)
    <2>1. \A x \in 1 .. e[n] : x \in 1 .. Len(P) /\ x <= e[n]
      <3> DEFINE a == e[n]
                 c == Len(P)
      <3>1. a \in Nat /\ c \in Nat /\ a <= c
        BY <1>1
      <3> HIDE DEF a, c
      <3>2. \A x \in 1 .. a : x \in 1 .. c /\ x <= a
        BY <3>1
      <3> QED BY <3>2 DEF a, c
    <2>2. \A x \in 1 .. e[n] : Q[x] = P[x]
      BY <1>12, <2>1
    <2> QED BY <1>1, <1>11, <1>12, <2>2, FilledStays
  <1>14. Indexed(m, Q, e, n)
    <2>1. \A k \in 1 .. n : k \in 1 .. n + 1
      OBVIOUS
    <2>2. \A k \in 1 .. n : Q[e[n] + k] = [offset |-> e[k]]
      BY <1>8, <1>12, <2>1
    <2>3. Q[e[n] + n + 1] = Magic
      <3> DEFINE a == e[n]
                 w == n + 1
      <3>1. a + n + 1 = a + w /\ w \in 1 .. w
        <4>1. a \in Nat
          BY <1>1
        <4> HIDE DEF a
        <4> QED BY <4>1
      <3>2. Q[a + w] = index[w]
        BY <1>8, <1>12, <3>1
      <3> HIDE DEF w
      <3>3. index[w] = Magic
        BY <1>8 DEF w
      <3> QED BY <3>1, <3>2, <3>3
    <2>4. e[n] + n + 1 <= Len(Q)
      BY <1>12
    <2> QED BY <1>7, <2>2, <2>3, <2>4 DEF Indexed
  <1>15. HasIndex(stored.f)
    BY <1>13, <1>14, IndexedReads
  <1>16. Sound(r) /\ r.f = stored.f /\ r.index_ptr = IndexOf(stored.f)
    BY <1>11, <1>15, ResetHas
  <1>17. Reindex(l, new) = r
    BY <1>6, <1>11 DEF Sound, Failed
  <1> HIDE DEF r
  <1>18. Loaded(r, m, Q, seqs, e, n)
    BY <1>13, <1>14, <1>16 DEF Loaded
  <1> QED BY <1>16, <1>17, <1>18

LEMMA LoadedHas ==
  ASSUME NEW l, NEW md, NEW P, NEW seqs, NEW e, NEW n \in Nat, Loaded(l, md, P, seqs, e, n)
  PROVE  /\ Sound(l) /\ ~Failed(l)
         /\ Filled(l.f, md, P, seqs, e, n) /\ Indexed(md, P, e, n)
         /\ Keeps(l.f, ContainerOf(md, P)) /\ ContainerMetadata(l.f) = md
         /\ Len(P) \in Nat /\ DataSize(l.f) = Len(P) /\ e[n] \in Nat /\ e[n] + n + 1 <= Len(P)
         /\ md \in IndexMetadata(n, e[n])
         /\ BlockCount(l) = n /\ LastFragmentIndex(l) = e[n]
         /\ 1 <= n => LastHeader(l) = e[n - 1]
  <1>1. Sound(l) /\ Filled(l.f, md, P, seqs, e, n) /\ Indexed(md, P, e, n) /\ (n = 0 \/ l.index_ptr = IndexOf(l.f))
    BY DEF Loaded
  <1>2. Keeps(l.f, ContainerOf(md, P)) /\ Len(P) \in Nat /\ e[n] \in Nat
    BY <1>1, FilledHas
  <1>3. ContainerMetadata(l.f) = md /\ DataSize(l.f) = Len(P)
    BY <1>2, ContainerReads
  <1>4. md \in IndexMetadata(n, e[n]) /\ e[n] + n + 1 <= Len(P)
    BY <1>1 DEF Indexed
  <1>5. BlockCount(l) = n
    BY <1>3, <1>4 DEF BlockCount, IndexMetadata
  <1>6. \A k \in 0 .. n : FragmentIndex(l.f, l.index_ptr, k) = e[k]
    BY <1>1, IndexedReads
  <1>7. LastFragmentIndex(l) = e[n]
    BY <1>5, <1>6 DEF LastFragmentIndex
  <1>8. ASSUME 1 <= n PROVE LastHeader(l) = e[n - 1]
    <2>1. n - 1 \in 0 .. n
      BY <1>8
    <2> QED BY <1>5, <1>6, <2>1 DEF LastHeader
  <1> QED BY <1>1, <1>2, <1>3, <1>4, <1>5, <1>7, <1>8 DEF Sound, Failed

LEMMA MakeRoomHas ==
  ASSUME NEW l, NEW md, NEW P, NEW seqs, NEW e, NEW n \in Nat, Loaded(l, md, P, seqs, e, n),
         NEW w \in Nat, NEW new \in Nat
  PROVE  \E Q : Loaded(MakeRoom(l, w, new), md, Q, seqs, e, n) /\ e[n] + w + n + 1 + new <= Len(Q)
  <1> DEFINE last == e[n]
             need == last + w + n + 1 + new
             x == need - Len(P)
             r == AddSpace(l, x)
  <1>1. /\ Sound(l) /\ Filled(l.f, md, P, seqs, e, n) /\ Indexed(md, P, e, n)
        /\ Keeps(l.f, ContainerOf(md, P)) /\ DataSize(l.f) = Len(P) /\ Len(P) \in Nat
        /\ last \in Nat /\ last + n + 1 <= Len(P) /\ BlockCount(l) = n /\ LastFragmentIndex(l) = last
        /\ md \in IndexMetadata(n, last)
    BY LoadedHas
  <1>2. MakeRoom(l, w, new) = IF Len(P) < need THEN r ELSE l
    <2>1. last # Wild
      BY <1>1 DEF Wild
    <2> HIDE DEF last
    <2> QED BY <1>1, <2>1 DEF MakeRoom
  <1>3. need \in Nat
    BY <1>1
  <1>4. CASE ~(Len(P) < need)
    <2>1. need <= Len(P)
      BY <1>1, <1>3, <1>4
    <2> QED BY <1>2, <1>4, <2>1
  <1>5. CASE Len(P) < need
    <2>1. x \in Nat /\ Len(P) + x = need
      <3> HIDE DEF need
      <3> QED BY <1>1, <1>3, <1>5
    <2>2. P[last + n + 1] = Magic
      BY <1>1 DEF Indexed
    <2> HIDE DEF x, last
    <2>3. PICK Q : /\ Sound(r) /\ r.index_ptr = IndexOf(r.f) /\ Keeps(r.f, ContainerOf(md, Q))
                   /\ Len(Q) = Len(P) + x /\ \A k \in 1 .. Len(P) : Q[k] = P[k]
      <3>1. Sound(l) /\ Keeps(l.f, ContainerOf(md, P)) /\ x \in Nat
        BY <1>1, <2>1
      <3>2. Grown(AddSpace(l, x), md, P, x)
        BY <1>1, <2>2, <3>1, AddSpaceHas
      <3> QED BY <3>2 DEF Grown
    <2>4. /\ last <= Len(Q) /\ last + n + 1 <= Len(Q) /\ last + n + 1 \in 1 .. Len(P)
          /\ \A k \in 1 .. last : k \in 1 .. Len(P)
          /\ \A k \in 1 .. n : last + k \in 1 .. Len(P)
      BY <1>1, <2>1, <2>3
    <2>5. Filled(r.f, md, Q, seqs, e, n)
      <3>1. \A k \in 1 .. last : Q[k] = P[k]
        BY <2>3, <2>4
      <3> HIDE DEF r
      <3> QED BY <1>1, <2>3, <2>4, <3>1, FilledStays DEF last
    <2>6. Indexed(md, Q, e, n)
      <3>1. Q[last + n + 1] = Magic /\ \A k \in 1 .. n : Q[last + k] = [offset |-> e[k]]
        BY <1>1, <2>3, <2>4 DEF Indexed, last
      <3> QED BY <1>1, <2>4, <3>1 DEF Indexed, last
    <2> HIDE DEF r
    <2>7. Loaded(r, md, Q, seqs, e, n)
      BY <2>3, <2>5, <2>6 DEF Loaded
    <2>8. need <= Len(Q)
      BY <1>3, <2>1, <2>3
    <2> QED BY <1>2, <1>5, <2>7, <2>8 DEF last
  <1> QED BY <1>4, <1>5

\* The type of the container is one the program uses.
Types == UserTypes \cup {"Empty"}

LEMMA TypeAfterHas ==
  ASSUME NEW l, ContainerMetadata(l.f).fragment_type \in Types, NEW types, IsSeq(types),
         \A k \in 1 .. Len(types) : types[k] \in Types
  PROVE  TypeAfter(l, types) \in Types
  <1> DEFINE one == <<ContainerMetadata(l.f).fragment_type>>
             all == one \o types
             named == {k \in DOMAIN all : all[k] # "Empty"}
  <1>1. IsSeq(one) /\ Len(one) = 1 /\ one[1] \in Types
    BY OneWord
  <1>2. Len(types) \in Nat
    BY SeqHas
  <1> HIDE DEF one
  <1>3. /\ IsSeq(all) /\ Len(all) = 1 + Len(types)
        /\ \A k \in 1 .. 1 + Len(types) : all[k] = IF k <= 1 THEN one[k] ELSE types[k - 1]
    BY <1>1, ConcatHas
  <1>4. DOMAIN all = 1 .. Len(types) + 1
    BY <1>2, <1>3, SeqHas
  <1>5. ASSUME NEW k \in 1 .. Len(types) + 1 PROVE all[k] \in Types
    <2>1. CASE k = 1
      BY <1>1, <1>2, <1>3, <2>1
    <2>2. CASE k # 1
      <3>1. k \in 1 .. 1 + Len(types) /\ ~(k <= 1) /\ k - 1 \in 1 .. Len(types)
        BY <1>2, <2>2
      <3> QED BY <1>3, <3>1
    <2> QED BY <2>1, <2>2
  <1>6. TypeAfter(l, types) = IF named = {} THEN "Empty" ELSE all[Min(named)]
    BY DEF TypeAfter, one
  <1> HIDE DEF all
  <1>7. CASE named # {}
    <2>1. named \in SUBSET Nat
      BY <1>2, <1>4
    <2>2. PICK x \in named : \A y \in named : x <= y
      BY <1>7, <2>1, Smallest
    <2>3. Min(named) \in named
      BY <2>2 DEF Min
    <2>4. Min(named) \in 1 .. Len(types) + 1
      BY <1>4, <2>3
    <2> QED BY <1>5, <1>6, <1>7, <2>4
  <1> QED BY <1>6, <1>7 DEF Types

-----------------------------------------------------------------------------
(* Fragments that are put behind others                                    *)

\* In Q the sequences follow the first a words, but for what is Junk.
Follows(Q, a, more, d, m) ==
    \A k \in 1 .. m : \A w \in 1 .. Len(more[k]) :
        more[k][w] # Junk => Q[a + (d[k - 1] + w)] = more[k][w]

\* The words of m fragments, and where each of them ends.
Lined(more, d, m) == Cuts(d, more, m) /\ \A k \in 1 .. m : Headed(more[k])

LEMMA LinedHas ==
  ASSUME NEW m \in Nat, NEW more, NEW d, Lined(more, d, m)
  PROVE  /\ \A k \in 0 .. m : d[k] \in Nat /\ d[k] <= d[m]
         /\ \A k \in 1 .. m : d[k - 1] \in Nat /\ Len(more[k]) \in Nat /\ d[k] = d[k - 1] + Len(more[k])
         /\ \A k \in 1 .. m : Headed(more[k])
         /\ d[0] = 0
  <1>1. \A k \in 1 .. m : IsSeq(more[k])
    BY DEF Lined, Headed
  <1>2. Cuts(d, more, m) /\ d[0] = 0
    BY DEF Lined, Cuts
  <1> QED BY <1>1, <1>2, CutsHas DEF Lined

\* both is n of some sequences, followed by m of others.
Both(both, seqs, n, more, m) ==
    /\ \A k \in 1 .. n : both[k] = seqs[k]
    /\ \A k \in 1 .. m : both[n + k] = more[k]

LEMMA FilledMore ==
  ASSUME NEW f, NEW md, NEW P, NEW seqs, NEW e, NEW n \in Nat, Filled(f, md, P, seqs, e, n),
         NEW more, NEW d, NEW m \in Nat, Lined(more, d, m),
         NEW g, NEW md2, NEW Q, Keeps(g, ContainerOf(md2, Q)),
         e[n] + d[m] <= Len(Q), \A o \in 1 .. e[n] : Q[o] = P[o], Follows(Q, e[n], more, d, m),
         NEW both, Both(both, seqs, n, more, m)
  PROVE  \E e2 : /\ Filled(g, md2, Q, both, e2, n + m)
                 /\ \A k \in 0 .. n : e2[k] = e[k]
                 /\ e2[n + m] = e[n] + d[m]
  <1> DEFINE a == e[n]
             all == n + m
             e2 == [k \in 0 .. all |-> IF k <= n THEN e[k] ELSE a + d[k - n]]
  <1>1. /\ a \in Nat /\ \A k \in 0 .. n : e[k] \in Nat
        /\ \A k \in 1 .. n : /\ e[k - 1] \in Nat /\ Len(seqs[k]) \in Nat
                             /\ e[k] = e[k - 1] + Len(seqs[k]) /\ e[k] <= a
        /\ e[0] = 0
    BY FilledHas
  <1>3. /\ \A k \in 0 .. m : d[k] \in Nat
        /\ \A k \in 1 .. m : d[k - 1] \in Nat /\ Len(more[k]) \in Nat /\ d[k] = d[k - 1] + Len(more[k])
        /\ d[0] = 0 /\ \A k \in 1 .. m : Headed(more[k])
    BY LinedHas
  <1>4. all \in Nat /\ n <= all /\ m \in 0 .. m
    OBVIOUS
  <1>5. \A k \in 0 .. n : k \in 0 .. all /\ k <= n
    OBVIOUS
  <1>6. \A k \in 0 .. n : e2[k] = e[k]
    BY <1>5
  <1>7. ASSUME NEW k \in 0 .. m PROVE e2[n + k] = a + d[k]
    <2>1. n + k \in 0 .. all
      OBVIOUS
    <2>2. CASE k = 0
      <3>1. n + k = n /\ n \in 0 .. n
        BY <2>2
      <3>2. e2[n] = a
        BY <1>6, <3>1
      <3>3. a + d[k] = a
        BY <1>1, <1>3, <2>2
      <3> QED BY <3>1, <3>2, <3>3
    <2>3. CASE k # 0
      <3>1. ~(n + k <= n) /\ n + k - n = k
        BY <2>3
      <3> QED BY <2>1, <3>1
    <2> QED BY <2>2, <2>3
  <1>8. e2 = [k \in 0 .. all |-> e2[k]]
    OBVIOUS
  <1> HIDE DEF e2
  <1>9. Filled(g, md2, Q, seqs, e, n)
    <2>1. a <= Len(Q)
      <3>1. d[m] \in Nat /\ a + d[m] <= Len(Q) /\ Len(Q) \in Nat
        BY <1>3, ContainerReads
      <3> QED BY <1>1, <3>1
    <2> QED BY <2>1, FilledStays
  <1>10. \A k \in 1 .. all : k \in 1 .. n \/ \E j \in 1 .. m : k = n + j
    <2> SUFFICES ASSUME NEW k \in 1 .. all, k \notin 1 .. n PROVE k - n \in 1 .. m /\ k = n + (k - n)
      OBVIOUS
    <2> QED OBVIOUS
  <1> HIDE DEF all
  <1>11. ASSUME NEW k \in 1 .. all
         PROVE  /\ Headed(both[k]) /\ e2[k] = e2[k - 1] + Len(both[k])
                /\ \A w \in 1 .. Len(both[k]) : both[k][w] # Junk => Q[e2[k - 1] + w] = both[k][w]
    <2>1. CASE k \in 1 .. n
      <3>1. k \in 0 .. n /\ k - 1 \in 0 .. n /\ both[k] = seqs[k]
        BY <2>1 DEF Both
      <3>2. e2[k] = e[k] /\ e2[k - 1] = e[k - 1]
        BY <1>6, <3>1
      <3>3. Headed(seqs[k]) /\ \A w \in 1 .. Len(seqs[k]) : seqs[k][w] # Junk => Q[e[k - 1] + w] = seqs[k][w]
        BY <1>9, <2>1 DEF Filled, Blocks
      <3> QED BY <1>1, <2>1, <3>1, <3>2, <3>3
    <2>2. CASE \E j \in 1 .. m : k = n + j
      <3>1. PICK j \in 1 .. m : k = n + j
        BY <2>2
      <3>2. PICK i \in 0 .. m : i = j - 1 /\ k - 1 = n + i /\ j \in 0 .. m
        BY <3>1
      <3> DEFINE s == more[j]
                 l == Len(s)
                 c == d[i]
      <3>3. both[k] = s /\ Headed(s) /\ l \in Nat /\ c \in Nat /\ d[j] = c + l
        BY <1>3, <3>1, <3>2 DEF Both
      <3>4. e2[k] = a + d[j] /\ e2[k - 1] = a + c
        BY <1>7, <3>1, <3>2
      <3>5. \A w \in 1 .. l : s[w] # Junk => Q[a + (c + w)] = s[w]
        BY <3>2 DEF Follows
      <3> HIDE DEF s, l, c, a
      <3>6. e2[k] = e2[k - 1] + l
        BY <1>1, <3>3, <3>4
      <3>7. ASSUME NEW w \in 1 .. l, s[w] # Junk PROVE Q[e2[k - 1] + w] = s[w]
        <4>1. e2[k - 1] + w = a + (c + w)
          BY <1>1, <3>3, <3>4
        <4> QED BY <3>5, <3>7, <4>1
      <3> QED BY <3>3, <3>6, <3>7 DEF l
    <2> QED BY <1>10, <2>1, <2>2
  <1>12. e2[0] = 0 /\ e2[all] = a + d[m]
    BY <1>1, <1>4, <1>6, <1>7 DEF all
  <1>13. Filled(g, md2, Q, both, e2, all)
    BY <1>8, <1>11, <1>12 DEF Filled, Cuts, Blocks
  <1> QED BY <1>6, <1>12, <1>13 DEF all

\* A loader whose container has n fragments of such words.
LoadedWith(l, seqs, n) == \E md, P, e : Loaded(l, md, P, seqs, e, n)

LEMMA ReindexLoads ==
  ASSUME NEW l, Sound(l), NEW md, NEW P, NEW seqs, NEW e, NEW n \in Nat, Filled(l.f, md, P, seqs, e, n),
         NEW b \in Nat, NEW o, md \in IndexMetadata(b, o), NEW new \in Nat, b + new = n,
         1 <= n, n < CountLimit, e[n] + n + 1 <= Len(P)
  PROVE  LoadedWith(Reindex(l, new), seqs, n)
  <1>1. \E m, Q : Loaded(Reindex(l, new), m, Q, seqs, e, n)
    BY ReindexHas
  <1> QED BY <1>1 DEF LoadedWith

LEMMA StoredStays ==
  ASSUME NEW l, NEW md, NEW P, NEW seqs, NEW e, NEW n \in Nat, Loaded(l, md, P, seqs, e, n),
         NEW r, Sound(r), r.index_ptr = l.index_ptr, SameAddress(r.f, l.f),
         NEW m \in IndexMetadata(n, e[n]), NEW Q, NEW s, Filled(r.f, m, Q, s, e, n), Indexed(m, Q, e, n)
  PROVE  Loaded(r, m, Q, s, e, n)
  <1>1. ContainerMetadata(l.f) = md /\ md \in IndexMetadata(n, e[n]) /\ (n = 0 \/ l.index_ptr = IndexOf(l.f))
    BY LoadedHas DEF Loaded
  <1>2. ContainerMetadata(r.f) = m
    BY FilledHas, ContainerReads
  <1>3. m.index_offset = md.index_offset
    BY <1>1 DEF IndexMetadata
  <1>4. IndexOf(r.f) = IndexOf(l.f)
    BY <1>1, <1>2, <1>3 DEF IndexOf, SameAddress
  <1> QED BY <1>1, <1>4 DEF Loaded

LEMMA SetFragmentTypeHas ==
  ASSUME NEW l, NEW md, NEW P, NEW seqs, NEW e, NEW n \in Nat, Loaded(l, md, P, seqs, e, n), NEW t \in Types
  PROVE  \E m : Loaded(SetFragmentType(l, t), m, P, seqs, e, n)
  <1> DEFINE m == [md EXCEPT !.fragment_type = t]
             r == StoreMetadata(l, m)
  <1>1. /\ Sound(l) /\ Filled(l.f, md, P, seqs, e, n) /\ Indexed(md, P, e, n)
        /\ Keeps(l.f, ContainerOf(md, P)) /\ ContainerMetadata(l.f) = md /\ md \in IndexMetadata(n, e[n])
        /\ e[n] \in Nat /\ Len(P) \in Nat /\ e[n] + n + 1 <= Len(P)
    BY LoadedHas
  <1>2. SetFragmentType(l, t) = r
    BY <1>1 DEF SetFragmentType
  <1>3. m \in IndexMetadata(n, e[n])
    BY <1>1 DEF IndexMetadata, Types
  <1> HIDE DEF m
  <1>4. Sound(r) /\ r.index_ptr = l.index_ptr /\ Keeps(r.f, ContainerOf(m, P)) /\ SameAddress(r.f, l.f)
    BY <1>1, StoreMetadataHas
  <1> HIDE DEF r
  <1>5. e[n] <= Len(P)
    BY <1>1
  <1>6. Filled(r.f, m, P, seqs, e, n)
    BY <1>1, <1>4, <1>5, FilledStays
  <1>7. Indexed(m, P, e, n)
    BY <1>1, <1>3 DEF Indexed
  <1>8. Loaded(r, m, P, seqs, e, n)
    BY <1>3, <1>4, <1>6, <1>7, StoredStays
  <1> QED BY <1>2, <1>8

\* Among the words are those of m fragments.
Gives(words, more, d, m) ==
    \A k \in 1 .. m : \A w \in 1 .. Len(more[k]) :
        more[k][w] # Junk => d[k - 1] + w \in 1 .. Len(words) /\ words[d[k - 1] + w] = more[k][w]

\* The words of m fragments are copied behind the others, onto the old index,
\* and the index is made again.
LEMMA AppendedHas ==
  ASSUME NEW l, NEW md, NEW P, NEW seqs, NEW e, NEW n \in Nat, Loaded(l, md, P, seqs, e, n),
         NEW more, NEW d, NEW m \in Nat, Lined(more, d, m), 1 <= n + m, n + m < CountLimit,
         NEW words, IsSeq(words), Len(words) <= d[m], Gives(words, more, d, m),
         e[n] + d[m] + n + 1 + m <= Len(P),
         NEW both, Both(both, seqs, n, more, m)
  PROVE  /\ ~Failed(Store(l, e[n], words))
         /\ LoadedWith(Reindex(Store(l, e[n], words), m), both, n + m)
  <1> DEFINE a == e[n]
             b == d[m]
             c == Store(l, a, words)
             Q == PutAt(P, a, words)
  <1>1. /\ Sound(l) /\ Filled(l.f, md, P, seqs, e, n) /\ Keeps(l.f, ContainerOf(md, P))
        /\ md \in IndexMetadata(n, e[n]) /\ Len(P) \in Nat /\ a \in Nat
    BY LoadedHas
  <1>2. Len(words) \in Nat /\ b \in Nat
    <2>1. m \in 0 .. m
      OBVIOUS
    <2> QED BY <2>1, SeqHas, LinedHas
  <1>3. Len(words) <= b /\ a + b + n + 1 + m <= Len(P)
    OBVIOUS
  <1> HIDE DEF a, b
  <1>4. a + Len(words) <= Len(P) /\ a + b <= Len(P) /\ a <= Len(P) /\ (a + b) + (n + m) + 1 <= Len(P)
    BY <1>1, <1>2, <1>3
  <1>5. Sound(c) /\ Keeps(c.f, ContainerOf(md, Q))
    BY <1>1, <1>4, StoreHas
  <1>6. /\ Len(Q) = Len(P) /\ \A o \in 1 .. Len(P) : o <= a \/ o > a + Len(words) => Q[o] = P[o]
        /\ \A w \in 1 .. Len(words) : Q[a + w] = words[w]
    BY <1>1, <1>4, PutHas
  <1> HIDE DEF c, Q
  <1>7. \A o \in 1 .. a : Q[o] = P[o]
    <2>1. \A o \in 1 .. a : o \in 1 .. Len(P) /\ o <= a
      BY <1>1, <1>4
    <2> QED BY <1>6, <2>1
  <1>8. Follows(Q, a, more, d, m)
    BY <1>6 DEF Gives, Follows
  <1>9. PICK e2 : Filled(c.f, md, Q, both, e2, n + m) /\ e2[n + m] = a + b
    <2>1. a + b <= Len(Q) /\ a = e[n] /\ b = d[m]
      BY <1>4, <1>6 DEF a, b
    <2>2. e[n] + d[m] <= Len(Q) /\ (\A o \in 1 .. e[n] : Q[o] = P[o]) /\ Follows(Q, e[n], more, d, m)
      BY <1>7, <1>8, <2>1
    <2>3. \E e2 : /\ Filled(c.f, md, Q, both, e2, n + m) /\ \A k \in 0 .. n : e2[k] = e[k]
                  /\ e2[n + m] = e[n] + d[m]
      BY <1>1, <1>5, <2>2, FilledMore
    <2> QED BY <2>1, <2>3
  <1> DEFINE all == n + m
  <1>10. /\ all \in Nat /\ 1 <= all /\ all < CountLimit /\ e2[all] = a + b
         /\ Filled(c.f, md, Q, both, e2, all)
    BY <1>9
  <1>11. n + m = all
    OBVIOUS
  <1> HIDE DEF all
  <1>12. e2[all] + all + 1 <= Len(Q)
    BY <1>4, <1>6, <1>10, <1>11
  <1>13. LoadedWith(Reindex(c, m), both, all)
    BY <1>1, <1>5, <1>10, <1>11, <1>12, ReindexLoads
  <1>14. ~Failed(c)
    BY <1>5 DEF Sound, Failed
  <1> QED BY <1>11, <1>13, <1>14 DEF a, c

-----------------------------------------------------------------------------
(* addFragment, addFragments and appendFragment                            *)

\* A function ended as r, with both of the m fragments or, if it threw, with
\* the n it found, and is ready for the next.
Ended(r, seqs, n, both, m) ==
    /\ r.wild = FALSE
    /\ IF r.threw THEN LoadedWith(LoaderOn(r.f, r.index_ptr), seqs, n)
                  ELSE LoadedWith(LoaderOn(r.f, r.index_ptr), both, m)

LEMMA LoadedSound ==
  ASSUME NEW l, NEW seqs, NEW n, LoadedWith(l, seqs, n)
  PROVE  Sound(l) /\ LoaderOn(l.f, l.index_ptr) = l
  <1>1. Sound(l)
    BY DEF LoadedWith, Loaded
  <1>2. l = [f |-> l.f, index_ptr |-> l.index_ptr, threw |-> FALSE, wild |-> FALSE]
    BY <1>1 DEF Sound
  <1> QED BY <1>1, <1>2 DEF LoaderOn

LEMMA SoundEnds ==
  ASSUME NEW r, NEW seqs, NEW n, NEW both, NEW m, LoadedWith(r, both, m)
  PROVE  Ended(r, seqs, n, both, m)
  <1>1. Sound(r) /\ LoaderOn(r.f, r.index_ptr) = r
    BY LoadedSound
  <1>2. r.threw = FALSE /\ r.wild = FALSE
    BY <1>1 DEF Sound
  <1> QED BY <1>1, <1>2 DEF Ended

LEMMA ThrewEnds ==
  ASSUME NEW r, NEW seqs, NEW n, NEW both, NEW m, LoadedWith(r, seqs, n)
  PROVE  Ended([r EXCEPT !.threw = TRUE], seqs, n, both, m)
  <1>1. Sound(r) /\ LoaderOn(r.f, r.index_ptr) = r
    BY LoadedSound
  <1>2. [r EXCEPT !.threw = TRUE] \in [f : {r.f}, index_ptr : {r.index_ptr}, threw : {TRUE}, wild : {FALSE}]
    BY <1>1 DEF Sound
  <1> DEFINE s == [r EXCEPT !.threw = TRUE]
  <1> HIDE DEF s
  <1>3. s.f = r.f /\ s.index_ptr = r.index_ptr /\ s.threw = TRUE /\ s.wild = FALSE
    BY <1>2 DEF s
  <1>4. Ended(s, seqs, n, both, m)
    BY <1>1, <1>3 DEF Ended
  <1> QED BY <1>4 DEF s

\* Nothing is copied.
LEMMA NoneStored ==
  ASSUME NEW l, NEW md, NEW P, NEW seqs, NEW e, NEW n \in Nat, Loaded(l, md, P, seqs, e, n),
         NEW none, IsSeq(none), Len(none) = 0
  PROVE  LoadedWith(Store(l, e[n], none), seqs, n) /\ ~Failed(Store(l, e[n], none))
  <1> DEFINE a == e[n]
             r == Store(l, a, none)
             Q == PutAt(P, a, none)
  <1>1. /\ Sound(l) /\ Filled(l.f, md, P, seqs, e, n) /\ Indexed(md, P, e, n)
        /\ Keeps(l.f, ContainerOf(md, P)) /\ md \in IndexMetadata(n, a)
        /\ Len(P) \in Nat /\ a \in Nat /\ a + n + 1 <= Len(P)
    BY LoadedHas
  <1> HIDE DEF a
  <1>2. a + Len(none) <= Len(P) /\ a <= Len(P)
    BY <1>1
  <1>3. Sound(r) /\ r.index_ptr = l.index_ptr /\ Keeps(r.f, ContainerOf(md, Q)) /\ SameAddress(r.f, l.f)
    BY <1>1, <1>2, StoreHas
  <1>4. Q = P
    <2>1. IsSeq(P)
      BY <1>1, ContainerReads
    <2>2. \A o \in 1 .. Len(P) : ~(o \in a + 1 .. a + Len(none))
      BY <1>1
    <2>3. Q = [o \in 1 .. Len(P) |-> P[o]]
      BY <2>2 DEF PutAt
    <2> HIDE DEF Q
    <2> QED BY <2>1, <2>3, SeqHas
  <1> HIDE DEF r, Q
  <1>5. Filled(r.f, md, P, seqs, e, n)
    BY <1>1, <1>2, <1>3, <1>4, FilledStays DEF a
  <1>6. Loaded(r, md, P, seqs, e, n)
    BY <1>1, <1>3, <1>5, StoredStays DEF a
  <1> QED BY <1>3, <1>6 DEF LoadedWith, Sound, Failed, r, a

LEMMA SubSeqWhole ==
  ASSUME NEW s, IsSeq(s)
  PROVE  SubSeq(s, 1, Len(s)) = s
  <1> DEFINE n == Len(s)
  <1>1. n \in Nat /\ 1 \in Int /\ n \in Int /\ n - 1 + 1 = n /\ (1 <= n \/ n = 0)
    BY SeqHas
  <1>2. /\ IsSeq(SubSeq(s, 1, n)) /\ Len(SubSeq(s, 1, n)) = IF 1 <= n THEN n ELSE 0
        /\ \A k \in 1 .. n : SubSeq(s, 1, n)[k] = s[1 + k - 1]
    BY <1>1, SubSeqHas
  <1>3. \A k \in 1 .. n : SubSeq(s, 1, n)[k] = s[k]
    <2>1. \A k \in 1 .. n : 1 + k - 1 = k
      OBVIOUS
    <2> QED BY <1>2, <2>1
  <1>4. Len(SubSeq(s, 1, n)) = n
    BY <1>1, <1>2
  <1> QED BY <1>2, <1>3, <1>4, SeqSame

LEMMA SubSeqNone ==
  ASSUME NEW s, IsSeq(s)
  PROVE  IsSeq(SubSeq(s, 1, 0)) /\ Len(SubSeq(s, 1, 0)) = 0
  <1>1. Len(s) \in Nat /\ 0 \in Int /\ 1 \in Int /\ 0 <= Len(s) /\ ~(1 <= 0)
    BY SeqHas
  <1> QED BY <1>1, SubSeqHas

\* Fragments that can be put into a container.
Fit(list) ==
    /\ IsSeq(list)
    /\ \A k \in 1 .. Len(list) : Header(list[k]).type \in Types /\ Headed(SentWords(list[k]))

TypesOf(list) == [k \in DOMAIN list |-> Header(list[k]).type]

\* both is seqs, followed by the words of the fragments.
Joins(both, seqs, n, list) ==
    /\ \A k \in 1 .. n : both[k] = seqs[k]
    /\ \A k \in 1 .. Len(list) : both[n + k] = SentWords(list[k])

LEMMA AddAllHas ==
  ASSUME NEW l, NEW seqs, NEW n \in Nat, LoadedWith(l, seqs, n), NEW list, Fit(list),
         1 <= n + Len(list), n + Len(list) < CountLimit, NEW allow \in BOOLEAN,
         allow \/ \A k \in 2 .. Len(list) : ~WrongType(l, TypesOf(list), k),
         NEW both, Joins(both, seqs, n, list)
  PROVE  Ended(AddAll(l, list, allow), seqs, n, both, n + Len(list))
  <1> DEFINE m == Len(list)
             types == TypesOf(list)
             words == [k \in DOMAIN list |-> SentWords(list[k])]
             all == FlattenSeq(words)
             wrong == {k \in DOMAIN types : ~allow /\ WrongType(l, types, k)}
             good == IF wrong = {} THEN Len(types) ELSE Min(wrong) - 1
             roomy == MakeRoom(l, Len(all), Len(words))
             typed == SetFragmentType(roomy, TypeAfter(l, SubSeq(types, 1, good)))
             copied == Store(typed, LastFragmentIndex(roomy), FlattenSeq(SubSeq(words, 1, good)))
             r == Reindex(copied, Len(words))
  <1>1. m \in Nat /\ DOMAIN list = 1 .. m
    BY SeqHas DEF Fit
  <1>2. IsSeq(types) /\ Len(types) = m /\ DOMAIN types = 1 .. m /\ \A k \in 1 .. m : types[k] \in Types
    <2>1. types = [k \in 1 .. m |-> Header(list[k]).type]
      BY <1>1 DEF TypesOf
    <2>2. \A k \in 1 .. m : Header(list[k]).type \in Types
      BY DEF Fit
    <2> HIDE DEF types, m
    <2>3. IsSeq(types) /\ Len(types) = m
      BY <1>1, <2>1, FcnIsSeq
    <2> QED BY <2>1, <2>2, <2>3
  <1>3. IsSeq(words) /\ Len(words) = m /\ \A k \in 1 .. m : words[k] = SentWords(list[k]) /\ Headed(words[k])
    <2>1. words = [k \in 1 .. m |-> SentWords(list[k])]
      BY <1>1
    <2>2. \A k \in 1 .. m : Headed(SentWords(list[k]))
      BY DEF Fit
    <2> HIDE DEF words, m
    <2>3. IsSeq(words) /\ Len(words) = m
      BY <1>1, <2>1, FcnIsSeq
    <2> QED BY <2>1, <2>2, <2>3
  <1>4. AddAll(l, list, allow) =
            IF Failed(roomy) THEN roomy
            ELSE IF Failed(copied) THEN copied
            ELSE IF wrong # {} THEN [copied EXCEPT !.threw = TRUE]
            ELSE r
    BY DEF AddAll, TypesOf
  <1> HIDE DEF words, types
  <1>5. PICK d : Cuts(d, words, m) /\ IsSeq(all) /\ Len(all) = d[m] /\ Joined(all, words, d, m)
    <2>1. \A k \in 1 .. Len(words) : IsSeq(words[k])
      BY <1>3 DEF Headed
    <2> QED BY <1>3, <2>1, FlattenHas
  <1>6. Lined(words, d, m)
    BY <1>3, <1>5 DEF Lined
  <1>7. Len(all) \in Nat
    BY <1>5, SeqHas
  <1>8. PICK md0, P0, e : Loaded(l, md0, P0, seqs, e, n)
    BY DEF LoadedWith
  <1>9. PICK P : Loaded(roomy, md0, P, seqs, e, n) /\ e[n] + Len(all) + n + 1 + m <= Len(P)
    BY <1>1, <1>3, <1>7, <1>8, MakeRoomHas
  <1> HIDE DEF roomy
  <1>10. ~Failed(roomy) /\ LastFragmentIndex(roomy) = e[n]
    BY <1>9, LoadedHas
  <1>11. ContainerMetadata(l.f).fragment_type \in Types
    <2>1. ContainerMetadata(l.f) = md0 /\ md0 \in IndexMetadata(n, e[n])
      BY <1>8, LoadedHas
    <2> QED BY <2>1 DEF IndexMetadata, Types
  <1>12. CASE wrong = {}
    <2>1. SubSeq(types, 1, good) = types /\ SubSeq(words, 1, good) = words
      BY <1>2, <1>3, <1>12, SubSeqWhole
    <2>2. TypeAfter(l, types) \in Types
      BY <1>2, <1>11, TypeAfterHas
    <2>3. PICK md : Loaded(typed, md, P, seqs, e, n)
      BY <1>9, <2>1, <2>2, SetFragmentTypeHas
    <2>4. copied = Store(typed, e[n], all)
      BY <1>10, <2>1
    <2> HIDE DEF typed, copied, all
    <2>5. Gives(all, words, d, m)
      <3>1. ASSUME NEW k \in 1 .. m, NEW w \in 1 .. Len(words[k])
            PROVE  d[k - 1] + w \in 1 .. Len(all) /\ all[d[k - 1] + w] = words[k][w]
        <4> DEFINE c == d[k - 1]
                   s == Len(words[k])
        <4>1. /\ c \in Nat /\ s \in Nat /\ d[k] = c + s /\ d[k] \in Nat /\ d[m] \in Nat
              /\ d[k] <= d[m]
          <5>1. k \in 0 .. m /\ m \in 0 .. m
            BY <1>1
          <5> QED BY <1>1, <1>6, <5>1, LinedHas
        <4>2. all[c + w] = words[k][w]
          BY <1>5 DEF Joined
        <4>3. c + w \in 1 .. Len(all)
          <5>1. w \in 1 .. s /\ c + s <= Len(all)
            BY <1>5, <4>1
          <5> HIDE DEF c, s
          <5> QED BY <1>7, <4>1, <5>1
        <4> QED BY <4>2, <4>3
      <3> QED BY <3>1 DEF Gives
    <2>6. 1 <= n + m /\ n + m < CountLimit
      BY <1>1
    <2>7. Both(both, seqs, n, words, m)
      BY <1>3 DEF Joins, Both
    <2>8. Len(all) <= d[m] /\ e[n] + d[m] + n + 1 + m <= Len(P)
      BY <1>5, <1>7, <1>9
    <2>9. ~Failed(copied)
      <3> HIDE DEF m
      <3>1. ~Failed(Store(typed, e[n], all))
        BY <1>1, <1>5, <1>6, <2>3, <2>5, <2>6, <2>7, <2>8, AppendedHas
      <3> QED BY <2>4, <3>1
    <2>10. LoadedWith(Reindex(copied, m), both, n + m)
      <3> HIDE DEF m
      <3>1. LoadedWith(Reindex(Store(typed, e[n], all), m), both, n + m)
        BY <1>1, <1>5, <1>6, <2>3, <2>5, <2>6, <2>7, <2>8, AppendedHas
      <3> QED BY <2>4, <3>1
    <2>11. AddAll(l, list, allow) = r
      BY <1>4, <1>10, <1>12, <2>9
    <2> QED BY <1>3, <2>10, <2>11, SoundEnds
  <1>13. CASE wrong # {}
    <2>1. wrong = {1}
      <3>1. \A k \in wrong : k \in 1 .. m /\ k \notin 2 .. m
        BY <1>2 DEF types
      <3>2. \A k \in wrong : k = 1
        BY <1>1, <3>1
      <3> QED BY <1>13, <3>2
    <2> HIDE DEF wrong
    <2>2. good = 0
      BY <2>1 DEF Min
    <2> HIDE DEF good
    <2> DEFINE none == FlattenSeq(SubSeq(words, 1, 0))
    <2>3. IsSeq(none) /\ Len(none) = 0
      <3> DEFINE s == SubSeq(words, 1, 0)
      <3>1. IsSeq(s) /\ Len(s) = 0
        BY <1>3, SubSeqNone
      <3> HIDE DEF s
      <3>2. PICK c : Cuts(c, s, Len(s)) /\ IsSeq(FlattenSeq(s)) /\ Len(FlattenSeq(s)) = c[Len(s)]
        BY <3>1, FlattenHas
      <3> QED BY <3>1, <3>2 DEF Cuts, s
    <2>4. TypeAfter(l, SubSeq(types, 1, good)) \in Types
      <3>1. IsSeq(SubSeq(types, 1, 0)) /\ Len(SubSeq(types, 1, 0)) = 0
        BY <1>2, SubSeqNone
      <3> DEFINE s == SubSeq(types, 1, 0)
      <3> HIDE DEF s
      <3>2. IsSeq(s) /\ \A k \in 1 .. Len(s) : s[k] \in Types
        BY <3>1 DEF s
      <3> QED BY <1>11, <2>2, <3>2, TypeAfterHas DEF s
    <2>5. PICK md : Loaded(typed, md, P, seqs, e, n)
      BY <1>9, <2>4, SetFragmentTypeHas
    <2>6. copied = Store(typed, e[n], none)
      BY <1>10, <2>2
    <2> HIDE DEF typed, copied, none
    <2>7. LoadedWith(copied, seqs, n) /\ ~Failed(copied)
      BY <2>3, <2>5, <2>6, NoneStored
    <2>8. AddAll(l, list, allow) = [copied EXCEPT !.threw = TRUE]
      BY <1>4, <1>10, <1>13, <2>7 DEF wrong
    <2> QED BY <2>7, <2>8, ThrewEnds
  <1> QED BY <1>12, <1>13

\* addFragment tests the type, and leaves the rest to addFragments.
LEMMA AddOneHas ==
  ASSUME NEW l, NEW seqs, NEW n \in Nat, LoadedWith(l, seqs, n), NEW f, Fit(<<f>>),
         n + 1 < CountLimit, NEW allow \in BOOLEAN, NEW both, Joins(both, seqs, n, <<f>>)
  PROVE  Ended(AddOne(l, f, allow), seqs, n, both, n + 1)
  <1>1. Len(<<f>>) = 1
    BY OneWord
  <1>2. Ended(AddAll(l, <<f>>, allow), seqs, n, both, n + 1)
    <2> DEFINE list == <<f>>
    <2>1. Len(list) = 1 /\ Fit(list) /\ Joins(both, seqs, n, list)
      BY <1>1
    <2> HIDE DEF list
    <2>2. /\ 1 <= n + Len(list) /\ n + Len(list) < CountLimit /\ n + Len(list) = n + 1
          /\ \A k \in 2 .. Len(list) : ~WrongType(l, TypesOf(list), k)
      BY <2>1
    <2>3. Ended(AddAll(l, list, allow), seqs, n, both, n + Len(list))
      BY <2>1, <2>2, AddAllHas
    <2> QED BY <2>2, <2>3 DEF list
  <1>3. Ended([l EXCEPT !.threw = TRUE], seqs, n, both, n + 1)
    BY ThrewEnds
  <1> QED BY <1>2, <1>3 DEF AddOne

LEMMA OneLined ==
  ASSUME NEW s, Headed(s)
  PROVE  LET d == [k \in 0 .. 1 |-> IF k = 0 THEN 0 ELSE Len(s)]
         IN  Lined(<<s>>, d, 1) /\ d[0] = 0 /\ d[1] = Len(s)
  <1> DEFINE d == [k \in 0 .. 1 |-> IF k = 0 THEN 0 ELSE Len(s)]
             one == <<s>>
  <1>1. one[1] = s /\ Len(s) \in Nat
    BY OneWord, HeadedHas
  <1>2. d[0] = 0 /\ d[1] = Len(s) /\ d = [k \in 0 .. 1 |-> d[k]]
    OBVIOUS
  <1> HIDE DEF d, one
  <1>3. \A k \in 1 .. 1 : k = 1 /\ k - 1 = 0
    OBVIOUS
  <1>4. \A k \in 1 .. 1 : Headed(one[k]) /\ d[k] = d[k - 1] + Len(one[k])
    BY <1>1, <1>2, <1>3
  <1>5. Lined(one, d, 1)
    BY <1>2, <1>4 DEF Lined, Cuts
  <1> QED BY <1>2, <1>5 DEF d, one

\* A header, and words for a payload that nobody has written yet.
HeaderAndRoom(h, p) == HeaderWords(h) \o [k \in 1 .. p |-> Junk]

LEMMA HeaderWordIs == ASSUME NEW h \in HeaderWord PROVE IsHeader(h)
  BY DEF HeaderWord, IsHeader

LEMMA HeaderAndRoomHas ==
  ASSUME NEW h \in HeaderWord, h.version = "current", NEW p \in Nat, h.word_count = p + NumWords("current")
  PROVE  /\ Headed(HeaderAndRoom(h, p)) /\ Len(HeaderAndRoom(h, p)) = p + 2
         /\ IsSeq(HeaderWords(h)) /\ Len(HeaderWords(h)) = 2
         /\ \A w \in 1 .. p + 2 : HeaderAndRoom(h, p)[w] # Junk
                => w \in 1 .. 2 /\ HeaderAndRoom(h, p)[w] = HeaderWords(h)[w]
  <1> DEFINE s == HeaderWords(h)
             t == [k \in 1 .. p |-> Junk]
  <1>1. NumWords("current") = 2
    BY DEF NumWords
  <1>2. IsSeq(s) /\ Len(s) = 2 /\ s[1] = h
    BY <1>1, HeaderWordIs, HeaderWordsHas
  <1>3. IsSeq(t) /\ Len(t) = p /\ \A k \in 1 .. p : t[k] = Junk
    BY FcnIsSeq
  <1> HIDE DEF s, t
  <1>4. /\ IsSeq(s \o t) /\ Len(s \o t) = 2 + p
        /\ \A k \in 1 .. 2 + p : (s \o t)[k] = IF k <= 2 THEN s[k] ELSE t[k - 2]
    <2>1. /\ IsSeq(s \o t) /\ Len(s \o t) = Len(s) + Len(t)
          /\ \A k \in 1 .. Len(s) + Len(t) : (s \o t)[k] = IF k <= Len(s) THEN s[k] ELSE t[k - Len(s)]
      BY <1>2, <1>3, ConcatHas
    <2>2. Len(s) = 2 /\ Len(t) = p
      BY <1>2, <1>3
    <2> QED BY <2>1, <2>2
  <1>5. 1 \in 1 .. 2 + p /\ 1 <= 2 /\ 2 + p \in Nat \ {0} /\ 2 + p = p + 2
    OBVIOUS
  <1>6. Headed(s \o t)
    <2>1. (s \o t)[1] = h
      BY <1>2, <1>4, <1>5
    <2> QED BY <1>1, <1>4, <1>5, <2>1 DEF Headed
  <1>7. ASSUME NEW w \in 1 .. p + 2, (s \o t)[w] # Junk PROVE w \in 1 .. 2 /\ (s \o t)[w] = s[w]
    <2>1. CASE w <= 2
      BY <1>4, <1>5, <2>1
    <2>2. CASE ~(w <= 2)
      <3>1. w - 2 \in 1 .. p
        BY <2>2
      <3> QED BY <1>3, <1>4, <1>5, <1>7, <2>2, <3>1
    <2> QED BY <2>1, <2>2
  <1> QED BY <1>2, <1>4, <1>5, <1>6, <1>7 DEF s, t, HeaderAndRoom

LEMMA AppendToHas ==
  ASSUME NEW l, NEW seqs, NEW n \in Nat, LoadedWith(l, seqs, n), n + 1 < CountLimit,
         NEW h \in HeaderWord, h.version = "current", NEW p \in Nat, h.word_count = p + NumWords("current"),
         NEW both, Both(both, seqs, n, <<HeaderAndRoom(h, p)>>, 1)
  PROVE  Ended(AppendTo(l, h), seqs, n, both, n + 1)
  <1> DEFINE s == HeaderAndRoom(h, p)
             more == <<s>>
             words == HeaderWords(h)
             d == [k \in 0 .. 1 |-> IF k = 0 THEN 0 ELSE Len(s)]
             roomy == MakeRoom(l, h.word_count, 1)
             copied == Store(roomy, LastFragmentIndex(roomy), words)
  <1>1. /\ Headed(s) /\ Len(s) = p + 2 /\ IsSeq(words) /\ Len(words) = 2
        /\ \A w \in 1 .. p + 2 : s[w] # Junk => w \in 1 .. 2 /\ s[w] = words[w]
    BY HeaderAndRoomHas
  <1>2. h.word_count = p + 2
    BY DEF NumWords
  <1> HIDE DEF s, words
  <1>3. Lined(more, d, 1) /\ d[0] = 0 /\ d[1] = p + 2
    BY <1>1, OneLined
  <1>4. more[1] = s
    BY OneWord
  <1>5. PICK md0, P0, e : Loaded(l, md0, P0, seqs, e, n)
    BY DEF LoadedWith
  <1>6. PICK P : Loaded(roomy, md0, P, seqs, e, n) /\ e[n] + (p + 2) + n + 1 + 1 <= Len(P)
    <2>1. h.word_count \in Nat
      BY <1>2
    <2> QED BY <1>2, <1>5, <2>1, MakeRoomHas
  <1> HIDE DEF roomy, d
  <1>7. ~Failed(roomy) /\ LastFragmentIndex(roomy) = e[n]
    BY <1>6, LoadedHas
  <1>8. copied = Store(roomy, e[n], words)
    BY <1>7
  <1> HIDE DEF copied
  <1>9. Gives(words, more, d, 1)
    <2> SUFFICES ASSUME NEW k \in 1 .. 1, NEW w \in 1 .. Len(more[k]), more[k][w] # Junk
                 PROVE  d[k - 1] + w \in 1 .. Len(words) /\ words[d[k - 1] + w] = more[k][w]
      BY DEF Gives
    <2>1. more[k] = s /\ d[k - 1] = 0
      BY <1>3, <1>4
    <2> HIDE DEF more
    <2>2. w \in 1 .. p + 2 /\ 0 + w = w
      BY <1>1, <2>1
    <2> QED BY <1>1, <2>1, <2>2
  <1>10. Both(both, seqs, n, more, 1)
    BY DEF s
  <1> HIDE DEF more
  <1>11. /\ 1 <= n + 1 /\ Len(words) <= d[1] /\ e[n] + d[1] + n + 1 + 1 <= Len(P)
    BY <1>1, <1>3, <1>6
  <1>12. ~Failed(copied)
    BY <1>1, <1>3, <1>6, <1>8, <1>9, <1>10, <1>11, AppendedHas
  <1>13. LoadedWith(Reindex(copied, 1), both, n + 1)
    BY <1>1, <1>3, <1>6, <1>8, <1>9, <1>10, <1>11, AppendedHas
  <1>14. AppendTo(l, h) = Reindex(copied, 1)
    BY <1>7, <1>12 DEF AppendTo, roomy, copied, words
  <1> QED BY <1>13, <1>14, SoundEnds

-----------------------------------------------------------------------------
(* Writing the last fragment's payload, and resizing it                    *)

LEMMA FilledFirst ==
  ASSUME NEW f, NEW md, NEW P, NEW seqs, NEW e, NEW n \in Nat, Filled(f, md, P, seqs, e, n), NEW j \in 0 .. n
  PROVE  Filled(f, md, P, seqs, [k \in 0 .. j |-> e[k]], j)
  <1> DEFINE d == [k \in 0 .. j |-> e[k]]
  <1>1. \A k \in 0 .. j : d[k] = e[k]
    OBVIOUS
  <1>2. \A k \in 1 .. j : k \in 1 .. n /\ k \in 0 .. j /\ k - 1 \in 0 .. j
    OBVIOUS
  <1>3. d = [k \in 0 .. j |-> d[k]]
    OBVIOUS
  <1> HIDE DEF d
  <1>4. /\ Keeps(f, ContainerOf(md, P)) /\ e[0] = 0
        /\ \A k \in 1 .. n : Headed(seqs[k]) /\ e[k] = e[k - 1] + Len(seqs[k])
        /\ \A k \in 1 .. n : \A w \in 1 .. Len(seqs[k]) : seqs[k][w] # Junk => P[e[k - 1] + w] = seqs[k][w]
    BY DEF Filled, Cuts, Blocks
  <1>5. d[0] = 0 /\ d[j] = e[j]
    BY <1>1, <1>4
  <1>6. Cuts(d, seqs, j)
    BY <1>1, <1>2, <1>3, <1>4, <1>5 DEF Cuts
  <1>7. Blocks(P, seqs, d, j)
    BY <1>1, <1>2, <1>4 DEF Blocks
  <1>8. e[j] <= Len(P)
    <2>1. e[j] \in Nat /\ e[n] \in Nat /\ e[j] <= e[n] /\ e[n] <= Len(P) /\ Len(P) \in Nat
      BY FilledHas
    <2> QED BY <2>1
  <1>9. Filled(f, md, P, seqs, d, j)
    BY <1>2, <1>4, <1>5, <1>6, <1>7, <1>8 DEF Filled
  <1> QED BY <1>9 DEF d

\* both is seqs but for the last.
ButLast(both, seqs, n, s) ==
    /\ \A k \in 1 .. n - 1 : both[k] = seqs[k]
    /\ both[n] = s

\* In Q the words follow the first a, but for what is Junk.
Begins(Q, a, s) == \A w \in 1 .. Len(s) : s[w] # Junk => Q[a + w] = s[w]

\* The last of the fragments has other words.
LEMMA LastReplaced ==
  ASSUME NEW f, NEW md, NEW P, NEW seqs, NEW e, NEW n \in Nat \ {0}, Filled(f, md, P, seqs, e, n),
         NEW s, Headed(s), NEW g, NEW md2, NEW Q, Keeps(g, ContainerOf(md2, Q)),
         e[n - 1] + Len(s) <= Len(Q), \A o \in 1 .. e[n - 1] : Q[o] = P[o], Begins(Q, e[n - 1], s),
         NEW both, ButLast(both, seqs, n, s)
  PROVE  \E e2 : /\ Filled(g, md2, Q, both, e2, n)
                 /\ \A k \in 0 .. n - 1 : e2[k] = e[k]
                 /\ e2[n] = e[n - 1] + Len(s)
  <1> DEFINE j == n - 1
             c == [k \in 0 .. j |-> e[k]]
             d == [k \in 0 .. 1 |-> IF k = 0 THEN 0 ELSE Len(s)]
             more == <<s>>
  <1>1. j \in Nat /\ j \in 0 .. n /\ j + 1 = n
    OBVIOUS
  <1>2. Filled(f, md, P, seqs, c, j)
    BY <1>1, FilledFirst
  <1>3. c[j] = e[j] /\ \A k \in 0 .. j : c[k] = e[k]
    BY <1>1
  <1>4. Lined(more, d, 1) /\ d[0] = 0 /\ d[1] = Len(s)
    BY OneLined
  <1>5. more[1] = s
    BY OneWord
  <1> HIDE DEF c, d, more
  <1>6. c[j] + d[1] <= Len(Q) /\ \A o \in 1 .. c[j] : Q[o] = P[o]
    BY <1>3, <1>4
  <1>7. Follows(Q, c[j], more, d, 1)
    <2> SUFFICES ASSUME NEW k \in 1 .. 1, NEW w \in 1 .. Len(more[k]), more[k][w] # Junk
                 PROVE  Q[c[j] + (d[k - 1] + w)] = more[k][w]
      BY DEF Follows
    <2>1. more[k] = s /\ d[k - 1] = 0 /\ Len(s) \in Nat
      BY <1>4, <1>5, HeadedHas
    <2>2. d[k - 1] + w = w
      BY <2>1
    <2> QED BY <1>3, <2>1, <2>2 DEF Begins
  <1>8. Both(both, seqs, j, more, 1)
    <2>1. \A k \in 1 .. 1 : k = 1 /\ j + k = n
      OBVIOUS
    <2> QED BY <1>5, <2>1 DEF Both, ButLast
  <1>9. \E e2 : /\ Filled(g, md2, Q, both, e2, j + 1)
                /\ \A k \in 0 .. j : e2[k] = c[k]
                /\ e2[j + 1] = c[j] + d[1]
    <2> HIDE DEF j
    <2> QED BY <1>1, <1>2, <1>4, <1>6, <1>7, <1>8, FilledMore
  <1> QED BY <1>1, <1>3, <1>4, <1>9

LEMMA FillLastHas ==
  ASSUME NEW l, NEW seqs, NEW n \in Nat \ {0}, LoadedWith(l, seqs, n),
         NEW words, IsSeq(words), Len(seqs[n]) = NumWords("current") + Len(words),
         NEW both, ButLast(both, seqs, n, SubSeq(seqs[n], 1, NumWords("current")) \o words)
  PROVE  Ended(Store(l, LastHeader(l) + NumWords("current"), words), seqs, n, both, n)
  <1> DEFINE last == seqs[n]
             head == SubSeq(last, 1, 2)
             p == Len(words)
             s == head \o words
  <1>1. NumWords("current") = 2
    BY DEF NumWords
  <1>2. PICK md, P, e : Loaded(l, md, P, seqs, e, n)
    BY DEF LoadedWith
  <1> DEFINE a == e[n - 1]
             b == e[n]
             r == Store(l, a + 2, words)
             Q == PutAt(P, a + 2, words)
  <1>3. /\ Sound(l) /\ Filled(l.f, md, P, seqs, e, n) /\ Indexed(md, P, e, n)
        /\ Keeps(l.f, ContainerOf(md, P)) /\ md \in IndexMetadata(n, b)
        /\ Len(P) \in Nat /\ b \in Nat /\ b + n + 1 <= Len(P) /\ LastHeader(l) = a
    BY <1>2, LoadedHas
  <1>4. n \in 1 .. n /\ n - 1 \in 0 .. n /\ p \in Nat
    BY SeqHas
  <1>5. /\ a \in Nat /\ Headed(last) /\ Len(last) = 2 + p /\ b = a + (2 + p) /\ IsSeq(last)
        /\ \A w \in 1 .. 2 + p : last[w] # Junk => P[a + w] = last[w]
    <2>1. a \in Nat /\ b = a + Len(last)
      BY <1>3, <1>4, FilledHas
    <2>2. Headed(last) /\ \A w \in 1 .. Len(last) : last[w] # Junk => P[a + w] = last[w]
      BY <1>3, <1>4 DEF Filled, Blocks
    <2> QED BY <1>1, <2>1, <2>2 DEF Headed
  <1>6. IsSeq(words) /\ Len(words) = p
    OBVIOUS
  <1>7. IsSeq(head) /\ Len(head) = 2 /\ head[1] = last[1] /\ head[2] = last[2]
    <2> HIDE DEF last
    <2>1. 1 \in Int /\ 2 \in Int /\ 1 <= 1 /\ 2 <= Len(last) /\ 1 <= 2 /\ 2 - 1 + 1 = 2
      BY <1>4, <1>5
    <2>2. IsSeq(head) /\ Len(head) = 2 /\ \A k \in 1 .. 2 : head[k] = last[1 + k - 1]
      BY <1>5, <2>1, SubSeqHas
    <2>3. 1 \in 1 .. 2 /\ 2 \in 1 .. 2 /\ 1 + 1 - 1 = 1 /\ 1 + 2 - 1 = 2
      OBVIOUS
    <2> QED BY <2>2, <2>3
  <1> HIDE DEF last, head, p, a, b
  <1>8. /\ IsSeq(s) /\ Len(s) = 2 + p
        /\ \A k \in 1 .. 2 + p : s[k] = IF k <= 2 THEN head[k] ELSE words[k - 2]
    <2>1. /\ IsSeq(s) /\ Len(s) = Len(head) + Len(words)
          /\ \A k \in 1 .. Len(head) + Len(words) : s[k] = IF k <= Len(head) THEN head[k] ELSE words[k - Len(head)]
      BY <1>6, <1>7, ConcatHas
    <2> HIDE DEF s
    <2> QED BY <1>6, <1>7, <2>1
  <1>9. ButLast(both, seqs, n, s)
    BY <1>1 DEF last, head
  <1> HIDE DEF s
  <1>10. Headed(s)
    <2>1. 1 \in 1 .. 2 + p /\ 1 <= 2 /\ 2 + p \in Nat \ {0}
      BY <1>4
    <2>2. s[1] = last[1]
      BY <1>7, <1>8, <2>1
    <2> QED BY <1>5, <1>8, <2>1, <2>2 DEF Headed
  <1>11. a + 2 \in Nat /\ (a + 2) + Len(words) <= Len(P) /\ b = (a + 2) + Len(words)
    BY <1>3, <1>4, <1>5, <1>6
  <1>12. Sound(r) /\ r.index_ptr = l.index_ptr /\ Keeps(r.f, ContainerOf(md, Q)) /\ SameAddress(r.f, l.f)
    <2> DEFINE at == a + 2
    <2>1. at \in Nat /\ at + Len(words) <= Len(P)
      BY <1>11
    <2> HIDE DEF at
    <2>2. /\ Sound(Store(l, at, words)) /\ Store(l, at, words).index_ptr = l.index_ptr
          /\ Keeps(Store(l, at, words).f, ContainerOf(md, PutAt(P, at, words)))
          /\ SameAddress(Store(l, at, words).f, l.f)
      BY <1>3, <1>6, <2>1, StoreHas
    <2> QED BY <2>2 DEF at
  <1>13. /\ Len(Q) = Len(P)
         /\ \A o \in 1 .. Len(P) : o <= a + 2 \/ o > b => Q[o] = P[o]
         /\ \A w \in 1 .. p : Q[(a + 2) + w] = words[w]
    <2> DEFINE at == a + 2
    <2>1. at \in Nat /\ at + Len(words) <= Len(P) /\ b = at + Len(words)
      BY <1>11
    <2> HIDE DEF at
    <2> DEFINE S == PutAt(P, at, words)
    <2>2. /\ Len(S) = Len(P)
          /\ \A o \in 1 .. Len(P) : o <= at \/ o > at + Len(words) => S[o] = P[o]
          /\ \A w \in 1 .. Len(words) : S[at + w] = words[w]
      <3>1. Differs(S, P, at, words)
        BY <1>3, <1>6, <2>1, PutDiffers
      <3> QED BY <3>1 DEF Differs
    <2>3. Q = S
      BY DEF at
    <2> HIDE DEF Q, S
    <2>4. Len(Q) = Len(P) /\ \A o \in 1 .. Len(P) : o <= at \/ o > b => Q[o] = P[o]
      BY <2>1, <2>2, <2>3
    <2>5. \A w \in 1 .. p : Q[at + w] = words[w]
      BY <1>6, <2>2, <2>3
    <2> QED BY <2>4, <2>5 DEF at
  <1> HIDE DEF r, Q
  <1>14. /\ a <= Len(P) /\ \A w \in 1 .. 2 : a + w \in 1 .. Len(P) /\ a + w <= a + 2
         /\ \A o \in 1 .. a : o \in 1 .. Len(P) /\ o <= a + 2
    <2> DEFINE c == Len(P)
    <2>1. a \in Nat /\ c \in Nat /\ b \in Nat /\ p \in Nat /\ b = a + (2 + p) /\ b + n + 1 <= c
      BY <1>3, <1>4, <1>5
    <2> HIDE DEF c
    <2>2. a + 2 <= c
      BY <2>1
    <2>3. /\ a <= c /\ \A w \in 1 .. 2 : a + w \in 1 .. c /\ a + w <= a + 2
          /\ \A o \in 1 .. a : o \in 1 .. c /\ o <= a + 2
      BY <2>1, <2>2
    <2> QED BY <2>3 DEF c
  <1>15. Begins(Q, a, s)
    <2> SUFFICES ASSUME NEW w \in 1 .. 2 + p, s[w] # Junk PROVE Q[a + w] = s[w]
      BY <1>8 DEF Begins
    <2>1. CASE w <= 2
      <3>1. a + w \in 1 .. Len(P) /\ a + w <= a + 2 /\ (w = 1 \/ w = 2)
        <4>1. w \in 1 .. 2
          BY <2>1
        <4> QED BY <1>14, <4>1
      <3>2. s[w] = last[w]
        BY <1>7, <1>8, <2>1, <3>1
      <3>3. Q[a + w] = P[a + w]
        BY <1>13, <3>1
      <3> QED BY <1>5, <3>2, <3>3
    <2>2. CASE ~(w <= 2)
      <3>1. PICK i \in 1 .. p : i = w - 2 /\ (a + 2) + i = a + w
        <4>1. w - 2 \in 1 .. p /\ (a + 2) + (w - 2) = a + w
          BY <1>4, <1>5, <2>2
        <4> QED BY <4>1
      <3>2. Q[(a + 2) + i] = words[i]
        BY <1>13
      <3>3. s[w] = words[i]
        BY <1>8, <2>2, <3>1
      <3> QED BY <3>1, <3>2, <3>3
    <2> QED BY <2>1, <2>2
  <1>16. PICK e2 : Filled(r.f, md, Q, both, e2, n) /\ (\A k \in 0 .. n - 1 : e2[k] = e[k]) /\ e2[n] = a + Len(s)
    <2>1. a + Len(s) <= Len(Q)
      BY <1>3, <1>5, <1>8, <1>13
    <2>2. \A o \in 1 .. a : Q[o] = P[o]
      BY <1>13, <1>14
    <2> QED BY <1>3, <1>9, <1>10, <1>12, <1>15, <2>1, <2>2, LastReplaced DEF a
  <1>17. e2 = e
    <2>1. e2 = [k \in 0 .. n |-> e2[k]] /\ e = [k \in 0 .. n |-> e[k]]
      BY <1>3, <1>16 DEF Filled, Cuts
    <2>2. e2[n] = e[n] /\ \A k \in 0 .. n : k = n \/ k \in 0 .. n - 1
      BY <1>5, <1>8, <1>16 DEF b
    <2>3. \A k \in 0 .. n : e2[k] = e[k]
      BY <1>16, <2>2
    <2> QED BY <2>1, <2>3
  <1>18. Indexed(md, Q, e, n)
    <2>1. b + n + 1 \in 1 .. Len(P) /\ b + n + 1 > b /\ \A k \in 1 .. n : b + k \in 1 .. Len(P) /\ b + k > b
      <3>1. b \in Nat /\ b + n + 1 <= Len(P)
        BY <1>3
      <3> QED BY <1>3, <3>1
    <2>2. P[b + n + 1] = Magic /\ \A k \in 1 .. n : P[b + k] = [offset |-> e[k]]
      BY <1>3 DEF Indexed, b
    <2>3. Q[b + n + 1] = Magic /\ \A k \in 1 .. n : Q[b + k] = [offset |-> e[k]]
      BY <1>13, <2>1, <2>2
    <2> QED BY <1>3, <1>13, <2>3 DEF Indexed, b
  <1>19. Loaded(r, md, Q, both, e, n)
    BY <1>2, <1>3, <1>12, <1>16, <1>17, <1>18, StoredStays DEF b
  <1>20. LoadedWith(r, both, n)
    BY <1>19 DEF LoadedWith
  <1>21. Ended(r, seqs, n, both, n)
    BY <1>20, SoundEnds
  <1> QED BY <1>1, <1>3, <1>21 DEF r, a

\* The words of a fragment after it was resized to so many words in all.
ResizedWords(last, size) ==
    [w \in 1 .. size |->
        CASE w = 1 -> [last[1] EXCEPT !.word_count = size]
          [] w \in 2 .. Len(last) -> last[w]
          [] OTHER -> Junk]

LEMMA ResizedWordsHave ==
  ASSUME NEW last, Headed(last), NEW size \in Nat, 2 <= size
  PROVE  LET s == ResizedWords(last, size)
             h == [last[1] EXCEPT !.word_count = size]
         IN  /\ Headed(s) /\ Len(s) = size /\ s[1] = h
             /\ h \in HeaderWord /\ h # Junk
             /\ \A w \in 2 .. size : s[w] # Junk => w \in 2 .. Len(last) /\ s[w] = last[w]
  <1> DEFINE s == ResizedWords(last, size)
             h == [last[1] EXCEPT !.word_count = size]
             l == Len(last)
  <1>1. l \in Nat /\ last[1] \in HeaderWord
    BY HeadedHas
  <1>2. h \in HeaderWord /\ h.word_count = size
    <2> DEFINE g == last[1]
    <2>1. g \in HeaderWord
      BY <1>1
    <2> HIDE DEF g
    <2>2. [g EXCEPT !.word_count = size] \in HeaderWord /\ [g EXCEPT !.word_count = size].word_count = size
      BY <2>1 DEF HeaderWord
    <2> QED BY <2>2 DEF g
  <1>3. \A w \in 1 .. size : s[w] = CASE w = 1 -> h [] w \in 2 .. l -> last[w] [] OTHER -> Junk
    BY DEF ResizedWords
  <1>4. s = [w \in 1 .. size |-> s[w]]
    BY DEF ResizedWords
  <1>5. h # Junk
    BY <1>2, ContainerAssumption
  <1> HIDE DEF s, h, l
  <1>6. IsSeq(s) /\ Len(s) = size
    BY <1>4, FcnIsSeq
  <1>7. 1 \in 1 .. size /\ size \in Nat \ {0}
    OBVIOUS
  <1>8. s[1] = h
    BY <1>3, <1>7
  <1>9. ASSUME NEW w \in 2 .. size, s[w] # Junk PROVE w \in 2 .. l /\ s[w] = last[w]
    <2>1. w \in 1 .. size /\ w # 1
      OBVIOUS
    <2>2. CASE w \in 2 .. l
      BY <1>3, <2>1, <2>2
    <2>3. CASE ~(w \in 2 .. l)
      BY <1>3, <1>9, <2>1, <2>3
    <2> QED BY <2>2, <2>3
  <1>10. Headed(s)
    BY <1>2, <1>6, <1>7, <1>8 DEF Headed
  <1> QED BY <1>2, <1>5, <1>6, <1>8, <1>9, <1>10 DEF s, h, l

LEMMA ResizeLastHas ==
  ASSUME NEW l, NEW seqs, NEW n \in Nat \ {0}, LoadedWith(l, seqs, n), n < CountLimit, NEW payload \in Nat,
         NumWords("current") <= Len(seqs[n]),
         NEW both, ButLast(both, seqs, n, ResizedWords(seqs[n], payload + NumWords("current")))
  PROVE  Ended(ResizeLast(l, payload), seqs, n, both, n)
  <1>1. PICK md, P, e : Loaded(l, md, P, seqs, e, n)
    BY DEF LoadedWith
  <1> DEFINE last == seqs[n]
             length == Len(last)
             size == payload + 2
             s == ResizedWords(last, size)
             old == last[1]
             h == [old EXCEPT !.word_count = size]
             one == <<h>>
             a == e[n - 1]
             b == e[n]
             c == Len(P)
             x == Lacking(old, payload)
             resized == Store(l, a, one)
             roomy == IF x > 0 THEN AddSpace(resized, x) ELSE resized
             Q0 == PutAt(P, a, one)
  <1>2. NumWords("current") = 2
    BY DEF NumWords
  <1>3. /\ Sound(l) /\ Filled(l.f, md, P, seqs, e, n) /\ Indexed(md, P, e, n)
        /\ Keeps(l.f, ContainerOf(md, P)) /\ md \in IndexMetadata(n, b)
        /\ c \in Nat /\ b \in Nat /\ b + n + 1 <= c /\ LastHeader(l) = a
    BY <1>1, LoadedHas
  <1>4. n \in 1 .. n /\ n - 1 \in 0 .. n /\ size \in Nat /\ 2 <= size
    OBVIOUS
  <1>5. /\ a \in Nat /\ Headed(last) /\ b = a + length /\ length \in Nat /\ 2 <= length
        /\ old.word_count = length /\ old # Junk
        /\ \A w \in 1 .. length : last[w] # Junk => P[a + w] = last[w]
    <2>1. a \in Nat /\ b = a + Len(last) /\ Len(last) \in Nat
      BY <1>3, <1>4, FilledHas
    <2>2. Headed(last) /\ \A w \in 1 .. Len(last) : last[w] # Junk => P[a + w] = last[w]
      BY <1>3, <1>4 DEF Filled, Blocks
    <2>3. old.word_count = length /\ old # Junk
      BY <2>2, HeadedHas
    <2> QED BY <1>2, <2>1, <2>2, <2>3
  <1>6. /\ Headed(s) /\ Len(s) = size /\ s[1] = h /\ h # Junk
        /\ \A w \in 2 .. size : s[w] # Junk => w \in 2 .. length /\ s[w] = last[w]
    BY <1>4, <1>5, ResizedWordsHave
  <1>7. ButLast(both, seqs, n, s)
    BY <1>2
  <1>8. IsSeq(one) /\ Len(one) = 1 /\ one[1] = h
    BY OneWord
  <1>9. P[a + 1] = old
    <2>1. 1 \in 1 .. length
      BY <1>5
    <2> QED BY <1>5, <2>1
  <1> HIDE DEF last, length, s, old, h, one, a, b, c, Q0
  <1>10. x \in Nat /\ size <= length + x
    BY <1>2, <1>4, <1>5 DEF Lacking
  <1> HIDE DEF x, size
  <1>11. /\ a <= c /\ a < c /\ a + 1 <= c /\ a + size <= c + x /\ a + size + n + 1 <= c + x
         /\ \A o \in 1 .. a : o \in 1 .. c /\ o <= a
         /\ \A w \in 1 .. length : a + w \in 1 .. c
         /\ b + n + 1 \in 1 .. c /\ b + n + 1 > a + 1 /\ c + x \in Nat
    <2>1. b + n + 1 <= c /\ b = a + length /\ 2 <= length
      BY <1>3, <1>5
    <2>2. b <= c /\ a + 2 <= b
      BY <1>3, <1>5, <2>1
    <2>3. a <= c /\ a < c /\ a + 1 <= c /\ b + n + 1 \in 1 .. c /\ b + n + 1 > a + 1
      BY <1>3, <1>5, <2>1, <2>2
    <2>4. a + size <= b + x
      BY <1>3, <1>4, <1>5, <1>10, <2>1
    <2>5. a + size <= c + x /\ a + size + n + 1 <= c + x /\ c + x \in Nat
      BY <1>3, <1>4, <1>5, <1>10, <2>2, <2>1, <2>4
    <2>6. \A w \in 1 .. length : a + w \in 1 .. c
      BY <1>3, <1>5, <2>1, <2>2
    <2>7. \A o \in 1 .. a : o \in 1 .. c /\ o <= a
      BY <1>3, <1>5, <2>3
    <2> QED BY <2>3, <2>5, <2>6, <2>7
  <1>12. WordAt(l.f, LastHeader(l)) = old
    <2>1. \A o \in Nat : o < Len(P) /\ P[o + 1] # Junk => WordAt(l.f, o) = P[o + 1]
      BY <1>3, ContainerReads
    <2> QED BY <1>3, <1>5, <1>9, <1>11, <2>1 DEF c
  <1>13. Sound(resized) /\ Keeps(resized.f, ContainerOf(md, Q0))
    <2>1. a + Len(one) <= Len(P)
      BY <1>8, <1>11 DEF c
    <2> QED BY <1>3, <1>5, <1>8, <2>1, StoreHas DEF Q0
  <1>14. /\ Len(Q0) = c /\ Q0[a + 1] = h
         /\ \A o \in 1 .. c : o <= a \/ o > a + 1 => Q0[o] = P[o]
    <2>1. Differs(Q0, P, a, one)
      <3>1. a + Len(one) <= Len(P) /\ Len(P) \in Nat
        BY <1>3, <1>8, <1>11 DEF c
      <3> QED BY <1>5, <1>8, <3>1, PutDiffers DEF Q0
    <2>2. 1 \in 1 .. Len(one)
      BY <1>8
    <2> QED BY <1>8, <2>1, <2>2 DEF Differs, c
  <1>15. ResizeLast(l, payload) = IF Failed(roomy) THEN roomy ELSE Reindex(roomy, 0)
    BY <1>2, <1>3, <1>12 DEF ResizeLast, resized, roomy, x, one, h, size
  <1> HIDE DEF resized
  <1>16. PICK Q : /\ Sound(roomy) /\ Keeps(roomy.f, ContainerOf(md, Q)) /\ Len(Q) = c + x
                  /\ \A o \in 1 .. c : Q[o] = Q0[o]
    <2>1. CASE x > 0
      <3>1. Q0[b + n + 1] = Magic
        <4>1. P[b + n + 1] = Magic
          BY <1>3 DEF Indexed, b
        <4> QED BY <1>11, <1>14, <4>1
      <3>2. b + n + 1 <= Len(Q0)
        BY <1>3, <1>14
      <3>3. Grown(AddSpace(resized, x), md, Q0, x)
        BY <1>3, <1>10, <1>13, <3>1, <3>2, AddSpaceHas
      <3> QED BY <1>14, <2>1, <3>3 DEF Grown
    <2>2. CASE ~(x > 0)
      <3>1. c + x = c
        BY <1>3, <1>10, <2>2
      <3> QED BY <1>13, <1>14, <2>2, <3>1
    <2> QED BY <2>1, <2>2
  <1> HIDE DEF roomy
  <1>17. Begins(Q, a, s)
    <2> SUFFICES ASSUME NEW w \in 1 .. size, s[w] # Junk PROVE Q[a + w] = s[w]
      BY <1>6 DEF Begins
    <2>1. CASE w = 1
      <3>1. 1 \in 1 .. length /\ a + 1 \in 1 .. c
        BY <1>5, <1>11
      <3> QED BY <1>6, <1>14, <1>16, <2>1, <3>1
    <2>2. CASE w # 1
      <3>1. w \in 2 .. size
        BY <1>4, <2>2
      <3>2. w \in 2 .. length /\ s[w] = last[w]
        BY <1>6, <3>1
      <3>3. w \in 1 .. length /\ a + w > a + 1
        BY <1>5, <3>2
      <3>4. a + w \in 1 .. c /\ P[a + w] = last[w]
        BY <1>5, <1>11, <3>2, <3>3
      <3> QED BY <1>14, <1>16, <3>2, <3>3, <3>4
    <2> QED BY <2>1, <2>2
  <1>18. PICK e2 : Filled(roomy.f, md, Q, both, e2, n) /\ e2[n] = a + size
    <2>1. a + Len(s) <= Len(Q)
      BY <1>6, <1>11, <1>16
    <2>2. \A o \in 1 .. a : Q[o] = P[o]
      BY <1>11, <1>14, <1>16
    <2> QED BY <1>3, <1>6, <1>7, <1>16, <1>17, <2>1, <2>2, LastReplaced DEF a
  <1>19. LoadedWith(Reindex(roomy, 0), both, n)
    <2>1. e2[n] + n + 1 <= Len(Q)
      BY <1>11, <1>16, <1>18
    <2>2. n \in Nat /\ 0 \in Nat /\ n + 0 = n /\ 1 <= n
      OBVIOUS
    <2> QED BY <1>3, <1>16, <1>18, <2>1, <2>2, ReindexLoads
  <1>20. ResizeLast(l, payload) = Reindex(roomy, 0)
    BY <1>15, <1>16 DEF Sound, Failed
  <1> QED BY <1>19, <1>20, SoundEnds

-----------------------------------------------------------------------------
(* Reading a container                                                     *)

LEMMA AtHas ==
  ASSUME NEW f, NEW md, NEW P, NEW seqs, NEW e, NEW n \in Nat, Filled(f, md, P, seqs, e, n),
         NEW k \in 1 .. n, FragmentIndex(f, IndexOf(f), k - 1) = e[k - 1],
         FragmentIndex(f, IndexOf(f), k) = e[k]
  PROVE  Holds(SubSeq(At(f, k - 1).vals.mem, 1, Len(BlockWords(f, k - 1))), seqs[k])
  <1> DEFINE s == seqs[k]
             l == Len(s)
             a == e[k - 1]
             words == BlockWords(f, k - 1)
             m == IF l < 2 THEN 0 ELSE l - 2
             new == NewFragment(m)
             g == WriteWords(new, 0, words)
             read == SubSeq(g.vals.mem, 1, l)
  <1>1. /\ a \in Nat /\ l \in Nat /\ 1 <= l /\ e[k] = a + l /\ a + l <= Len(P) /\ Len(P) \in Nat
        /\ IsSeq(s) /\ Keeps(f, ContainerOf(md, P))
    <2>1. /\ a \in Nat /\ l \in Nat /\ 1 <= l /\ e[k] = a + l /\ e[k] <= e[n] /\ e[n] <= Len(P)
          /\ e[n] \in Nat /\ Len(P) \in Nat /\ Keeps(f, ContainerOf(md, P))
      BY FilledHas
    <2>2. IsSeq(s)
      BY DEF Filled, Headed
    <2> QED BY <2>1, <2>2
  <1>2. \A w \in 1 .. l : s[w] # Junk => P[a + w] = s[w]
    BY DEF Filled, Blocks
  <1>3. words = [w \in 1 .. l |-> WordAt(f, a + w - 1)]
    <2>1. k - 1 + 1 = k
      OBVIOUS
    <2>2. words = [w \in 1 .. e[k] - e[k - 1] |-> WordAt(f, e[k - 1] + w - 1)]
      BY <2>1 DEF BlockWords
    <2>3. e[k] - e[k - 1] = l
      BY <1>1
    <2> QED BY <2>2, <2>3
  <1> HIDE DEF words, s, l, a
  <1>4. IsSeq(words) /\ Len(words) = l
    <2>1. words = [w \in 1 .. l |-> words[w]]
      BY <1>3
    <2> QED BY <1>1, <2>1, FcnIsSeq
  <1>5. ASSUME NEW w \in 1 .. l, s[w] # Junk PROVE words[w] = s[w]
    <2> DEFINE o == a + w - 1
    <2>1. o \in Nat /\ o < Len(P) /\ o + 1 = a + w
      BY <1>1
    <2> HIDE DEF o
    <2>2. P[o + 1] = s[w]
      BY <1>2, <1>5, <2>1
    <2>3. WordAt(f, o) = s[w]
      BY <1>1, <1>5, <2>1, <2>2, ContainerReads
    <2> QED BY <1>3, <2>3 DEF o
  <1>6. m \in Nat /\ l <= m + 2
    BY <1>1
  <1>7. At(f, k - 1) = g
    BY <1>4 DEF At, NumWords, words
  <1> HIDE DEF m
  <1>8. /\ IsFrag(new) /\ new.vals.size = m + 2 /\ new \in Frags(new.vals, NoHeader)
    <2> DEFINE v == [type |-> "Invalid", id |-> 0, metadata |-> <<>>, payload |-> AllJunk(m)]
    <2>1. Keeps(new, v) /\ HeaderSizeWords(new) = 2 /\ new \in Frags(new.vals, NoHeader)
      BY <1>6, NewKeeps
    <2>2. v.metadata = <<>> /\ v.payload = AllJunk(m)
      OBVIOUS
    <2>3. Len(AllJunk(m)) = m
      BY <1>6, FcnIsSeq DEF AllJunk
    <2> HIDE DEF new, v
    <2>4. /\ IsFrag(new) /\ DataBegin(new) = HeaderSizeWords(new) + Len(v.metadata)
          /\ new.vals.size = DataBegin(new) + Len(v.payload)
      BY <2>1, KeepsHas
    <2>5. new.vals.size = m + 2
      BY <1>6, <2>1, <2>2, <2>3, <2>4, NoWords
    <2> QED BY <2>1, <2>4, <2>5
  <1> HIDE DEF new
  <1>9. /\ IsVec(new.vals) /\ new.vals.capacity \in Nat /\ l <= new.vals.capacity
        /\ new \in Frags(new.vals, new.upgraded_header)
    <2>1. IsVec(new.vals) /\ new.vals.size <= new.vals.capacity /\ new.vals.capacity \in Nat
      BY <1>8, FragHas
    <2>2. new.upgraded_header = NoHeader
      BY <1>8, FragsHas
    <2> QED BY <1>1, <1>6, <1>8, <2>1, <2>2
  <1>10. /\ SamePlaces(g.vals, new.vals)
         /\ \A w \in 1 .. new.vals.capacity : g.vals.mem[w] =
               IF w \in 0 + 1 .. 0 + Len(words) THEN words[w - 0] ELSE new.vals.mem[w]
    BY <1>4, <1>9, WriteWordsHas
  <1> HIDE DEF g
  <1>11. IsSeq(g.vals.mem) /\ l <= Len(g.vals.mem)
    BY <1>9, <1>10, VecHas DEF SamePlaces
  <1>12. \A w \in 1 .. l : g.vals.mem[w] = words[w]
    <2> SUFFICES ASSUME NEW w \in 1 .. l PROVE g.vals.mem[w] = words[w]
      OBVIOUS
    <2>1. w \in 1 .. new.vals.capacity /\ w \in 0 + 1 .. 0 + l /\ w - 0 = w
      BY <1>1, <1>9
    <2> QED BY <1>4, <1>10, <2>1
  <1>13. Len(read) = l /\ \A w \in 1 .. l : read[w] = g.vals.mem[w]
    <2>1. 1 \in Int /\ l \in Int /\ 1 <= 1 /\ l - 1 + 1 = l
      BY <1>1
    <2> DEFINE mem == g.vals.mem
    <2>2. IsSeq(mem) /\ l <= Len(mem)
      BY <1>11
    <2> HIDE DEF mem
    <2>3. Len(SubSeq(mem, 1, l)) = l /\ \A w \in 1 .. l : SubSeq(mem, 1, l)[w] = mem[1 + w - 1]
      BY <1>1, <2>1, <2>2, SubSeqHas
    <2>4. \A w \in 1 .. l : 1 + w - 1 = w
      OBVIOUS
    <2>5. \A w \in 1 .. l : SubSeq(mem, 1, l)[w] = mem[w]
      BY <2>3, <2>4
    <2> QED BY <2>3, <2>5 DEF mem
  <1> HIDE DEF read
  <1>14. DOMAIN s = 1 .. l
    BY <1>1, SeqHas DEF l
  <1>15. Holds(read, s)
    BY <1>5, <1>12, <1>13, <1>14 DEF Holds, l
  <1> QED BY <1>4, <1>7, <1>15 DEF read, s, words

\* The words that were promised.
WordsOf(promises) == [k \in 1 .. Len(promises) |-> promises[k].words]

IsPromise(p) == p \in [words : {p.words}, payload : Nat]

IsPromises(promises) == IsSeq(promises) /\ \A k \in 1 .. Len(promises) : IsPromise(promises[k])

LEMMA ReadsHas ==
  ASSUME NEW f, NEW promises, IsSeq(promises), NEW md, NEW P, NEW e,
         Filled(f, md, P, WordsOf(promises), e, Len(promises)), Readable(f), md.block_count = Len(promises),
         \A k \in 0 .. Len(promises) : FragmentIndex(f, IndexOf(f), k) = e[k]
  PROVE  Header(f).type = "Container" /\ ReadsAs(f, promises)
  <1> DEFINE n == Len(promises)
             seqs == WordsOf(promises)
  <1>1. n \in Nat /\ DOMAIN promises = 1 .. n
    BY SeqHas
  <1>2. Filled(f, md, P, seqs, e, n)
    OBVIOUS
  <1>3. \A k \in 1 .. n : seqs[k] = promises[k].words
    BY DEF WordsOf
  <1>4. \A k \in 0 .. n : FragmentIndex(f, IndexOf(f), k) = e[k]
    OBVIOUS
  <1> HIDE DEF n, seqs
  <1>5. Keeps(f, ContainerOf(md, P))
    BY <1>1, <1>2, FilledHas
  <1>6. Header(f).type = "Container" /\ ContainerMetadata(f) = md
    BY <1>5, ContainerReads
  <1>7. ASSUME NEW k \in 1 .. n
        PROVE  Holds(SubSeq(At(f, k - 1).vals.mem, 1, Len(BlockWords(f, k - 1))), promises[k].words)
    <2>1. k \in 0 .. n /\ k - 1 \in 0 .. n
      BY <1>1
    <2>2. FragmentIndex(f, IndexOf(f), k - 1) = e[k - 1] /\ FragmentIndex(f, IndexOf(f), k) = e[k]
      BY <1>4, <2>1
    <2>3. Holds(SubSeq(At(f, k - 1).vals.mem, 1, Len(BlockWords(f, k - 1))), seqs[k])
      BY <1>1, <1>2, <2>2, AtHas
    <2> QED BY <1>3, <2>3
  <1> QED BY <1>1, <1>6, <1>7 DEF ReadsAs, n

LEMMA LoadedReads ==
  ASSUME NEW f, NEW ptr, NEW promises, IsSeq(promises),
         LoadedWith(LoaderOn(f, ptr), WordsOf(promises), Len(promises))
  PROVE  Header(f).type = "Container" /\ ReadsAs(f, promises)
  <1> DEFINE n == Len(promises)
             l == LoaderOn(f, ptr)
  <1>1. n \in Nat
    BY SeqHas
  <1>2. l.f = f
    BY DEF LoaderOn
  <1>3. PICK md, P, e : Loaded(l, md, P, WordsOf(promises), e, n)
    BY DEF LoadedWith
  <1> HIDE DEF l
  <1>4. /\ Filled(f, md, P, WordsOf(promises), e, n) /\ Indexed(md, P, e, n)
        /\ md \in IndexMetadata(n, e[n])
    BY <1>1, <1>2, <1>3, LoadedHas
  <1> HIDE DEF n
  <1>5. HasIndex(f) /\ \A k \in 0 .. n : FragmentIndex(f, IndexOf(f), k) = e[k]
    BY <1>1, <1>4, IndexedReads
  <1>6. Readable(f) /\ md.block_count = n
    BY <1>4, <1>5 DEF Readable, IndexMetadata
  <1> QED BY <1>4, <1>5, <1>6, ReadsHas DEF n

-----------------------------------------------------------------------------
(* The fragments of the slots, as a container takes them                   *)

LEMMA StoredWordsHave ==
  ASSUME NEW f, NEW v, HoldsKept(f, v), HeaderStored(f)
  PROVE  Header(f).type \in Types /\ Headed(SentWords(f)) /\ DataSize(f) \in Nat
  <1> DEFINE raw == RawHeader(f)
             h == Header(f)
             mem == f.vals.mem
             n == h.word_count
  <1>1. Keeps(f, v) /\ v.id \in Slots /\ v.type \in UserTypes
    BY DEF HoldsKept, OfSlot
  <1>2. /\ IsFrag(f) /\ IsVec(f.vals) /\ IsHeader(raw) /\ n = f.vals.size /\ n \in Nat /\ DataSize(f) \in Nat
        /\ 1 \in 1 .. n
    BY <1>1, KeepsHas, FragHas, KeepsPlaces DEF IsFrag
  <1>3. h.type = v.type /\ h.id = v.id
    BY <1>1 DEF Keeps
  <1>4. IsSeq(mem) /\ n <= Len(mem)
    BY <1>2, VecHas
  <1>5. SentWords(f) = SubSeq(mem, 1, n)
    BY DEF SentWords
  <1>6. mem[1] = raw
    BY DEF RawHeader
  <1>7. h = raw \/ h = Upgrade(raw)
    BY DEF Header, HeaderStored
  <1>8. /\ raw.type = h.type /\ raw.id = h.id /\ raw.word_count = n
        /\ raw \in [version : {"old", "current"}, type : {raw.type}, id : {raw.id},
                    word_count : Nat, metadata_word_count : Nat]
    <2>1. SameHeader(Upgrade(raw), raw, {"version"})
      BY <1>2, HeaderChanged
    <2> HIDE DEF raw
    <2> QED BY <1>2, <1>7, <2>1 DEF SameHeader, IsHeader
  <1> HIDE DEF raw, h, n, mem
  <1>9. raw \in HeaderWord
    BY <1>1, <1>3, <1>8 DEF HeaderWord
  <1>10. h.type \in Types
    BY <1>1, <1>3 DEF Types
  <1> DEFINE words == SubSeq(mem, 1, n)
  <1>11. IsSeq(words) /\ Len(words) = n /\ n \in Nat \ {0} /\ words[1] = mem[1]
    <2>1. 0 \in Nat /\ n \in Nat /\ 0 <= n /\ n <= Len(mem) /\ 0 + 1 = 1 /\ n - 0 = n
      BY <1>2, <1>4
    <2>2. /\ IsSeq(SubSeq(mem, 0 + 1, n)) /\ Len(SubSeq(mem, 0 + 1, n)) = n - 0
          /\ \A k \in 1 .. n - 0 : SubSeq(mem, 0 + 1, n)[k] = mem[0 + k]
      BY <1>4, <2>1, PartHas
    <2>3. 1 \in 1 .. n - 0 /\ 0 + 1 = 1 /\ n # 0
      BY <1>2, <2>1
    <2> QED BY <2>1, <2>2, <2>3
  <1> HIDE DEF words
  <1>12. Headed(words)
    BY <1>6, <1>8, <1>9, <1>11 DEF Headed
  <1> QED BY <1>2, <1>5, <1>10, <1>12 DEF words, h

LEMMA SlotFits ==
  ASSUME FragmentInv, NEW i \in Slots, Held(i), HeaderStored(frag[i])
  PROVE  /\ Header(frag[i]).type \in Types /\ Headed(SentWords(frag[i]))
         /\ IsPromise(Promise(frag[i])) /\ Promise(frag[i]).words = SentWords(frag[i])
  <1>1. /\ Header(frag[i]).type \in Types /\ Headed(SentWords(frag[i])) /\ DataSize(frag[i]) \in Nat
    BY HeldHolds, StoredWordsHave
  <1> DEFINE s == SentWords(frag[i])
             d == DataSize(frag[i])
  <1>2. Promise(frag[i]) = [words |-> s, payload |-> d] /\ d \in Nat
    BY <1>1 DEF Promise
  <1> HIDE DEF s, d
  <1>3. IsPromise(Promise(frag[i])) /\ Promise(frag[i]).words = s
    BY <1>2 DEF IsPromise
  <1> QED BY <1>1, <1>3 DEF s

\* The fragments of a list that is added.
ListPromises(list) == [k \in DOMAIN list |-> Promise(Fragments(list)[k])]

LEMMA ListHas ==
  ASSUME FragmentInv, NEW list \in Lists, \A k \in DOMAIN list : Held(list[k]) /\ HeaderStored(frag[list[k]])
  PROVE  /\ Fit(Fragments(list)) /\ Len(list) \in Nat /\ DOMAIN list = 1 .. Len(list)
         /\ Len(Fragments(list)) = Len(list)
         /\ IsSeq(ListPromises(list)) /\ Len(ListPromises(list)) = Len(list)
         /\ \A k \in 1 .. Len(list) : /\ IsPromise(ListPromises(list)[k])
                                      /\ ListPromises(list)[k].words = SentWords(Fragments(list)[k])
         /\ TypesOf(Fragments(list)) = [k \in DOMAIN list |-> Header(Fragments(list)[k]).type]
  <1> DEFINE n == Len(list)
             fs == Fragments(list)
             ps == ListPromises(list)
  <1>1. list \in Seq(Slots)
    BY ContainerAssumption
  <1>2. IsSeq(list) /\ n \in Nat /\ DOMAIN list = 1 .. n /\ \A k \in 1 .. n : list[k] \in Slots
    BY <1>1, SeqIs, SeqHas
  <1>4. fs = [k \in 1 .. n |-> frag[list[k]]] /\ ps = [k \in 1 .. n |-> Promise(fs[k])]
    BY <1>2 DEF Fragments, ListPromises
  <1> HIDE DEF fs, ps
  <1>5. IsSeq(fs) /\ Len(fs) = n /\ IsSeq(ps) /\ Len(ps) = n
    <2>1. fs = [k \in 1 .. n |-> fs[k]] /\ ps = [k \in 1 .. n |-> ps[k]]
      BY <1>4
    <2> QED BY <1>2, <2>1, FcnIsSeq
  <1>6. DOMAIN fs = DOMAIN list
    BY <1>2, <1>4
  <1>7. ASSUME NEW k \in 1 .. n
        PROVE  /\ Header(fs[k]).type \in Types /\ Headed(SentWords(fs[k]))
               /\ IsPromise(ps[k]) /\ ps[k].words = SentWords(fs[k])
    <2>1. fs[k] = frag[list[k]] /\ ps[k] = Promise(fs[k]) /\ list[k] \in Slots /\ k \in DOMAIN list
      BY <1>2, <1>4
    <2> QED BY <2>1, SlotFits
  <1>8. Fit(fs)
    BY <1>5, <1>7 DEF Fit
  <1>9. TypesOf(fs) = [k \in DOMAIN list |-> Header(fs[k]).type]
    BY <1>6 DEF TypesOf
  <1> QED BY <1>2, <1>5, <1>7, <1>8, <1>9 DEF fs, ps

LEMMA NotEmpty ==
  ASSUME NEW S, NEW s \in Seq(S), s # <<>>
  PROVE  1 <= Len(s)
  OBVIOUS

-----------------------------------------------------------------------------
(* What a loader promises after each function                              *)

LEMMA WordsOfHas ==
  ASSUME NEW a, IsPromises(a)
  PROVE  Len(a) \in Nat /\ \A k \in 1 .. Len(a) : WordsOf(a)[k] = a[k].words
  BY SeqHas DEF IsPromises, WordsOf

LEMMA PromisesAppend ==
  ASSUME NEW a, IsPromises(a), NEW x, IsPromise(x)
  PROVE  /\ IsPromises(Append(a, x)) /\ Len(Append(a, x)) = Len(a) + 1
         /\ Both(WordsOf(Append(a, x)), WordsOf(a), Len(a), <<x.words>>, 1)
  <1> DEFINE b == Append(a, x)
             n == Len(a)
  <1>1. IsSeq(a) /\ n \in Nat /\ \A k \in 1 .. n : IsPromise(a[k])
    BY SeqHas DEF IsPromises
  <1>2. IsSeq(b) /\ Len(b) = n + 1 /\ (\A k \in 1 .. n : b[k] = a[k]) /\ b[n + 1] = x
    BY <1>1, AppendHas
  <1> HIDE DEF b
  <1>3. ASSUME NEW k \in 1 .. n + 1 PROVE IsPromise(b[k])
    <2>1. k \in 1 .. n \/ k = n + 1
      BY <1>1
    <2> QED BY <1>1, <1>2, <2>1
  <1>4. IsPromises(b)
    BY <1>2, <1>3 DEF IsPromises
  <1>5. ASSUME NEW k \in 1 .. n PROVE WordsOf(b)[k] = WordsOf(a)[k]
    <2>1. k \in 1 .. n + 1
      BY <1>1
    <2> QED BY <1>2, <1>4, <2>1, WordsOfHas
  <1>6. WordsOf(b)[n + 1] = x.words
    <2>1. n + 1 \in 1 .. n + 1
      BY <1>1
    <2> QED BY <1>2, <1>4, <2>1, WordsOfHas
  <1>7. ASSUME NEW k \in 1 .. 1 PROVE WordsOf(b)[n + k] = <<x.words>>[k]
    <2>1. k = 1
      OBVIOUS
    <2> QED BY <1>6, <2>1, OneWord
  <1>8. Both(WordsOf(b), WordsOf(a), n, <<x.words>>, 1)
    BY <1>5, <1>7 DEF Both
  <1> QED BY <1>2, <1>4, <1>8 DEF b

\* The promises of c are n like those of a, and m like those of b.
Promised(c, a, n, b, m) ==
    /\ IsPromises(c) /\ Len(c) = n + m
    /\ \A k \in 1 .. n : WordsOf(c)[k] = WordsOf(a)[k]
    /\ \A k \in 1 .. m : WordsOf(c)[n + k] = b[k].words

LEMMA PromisesConcat ==
  ASSUME NEW a, IsPromises(a), NEW b, IsPromises(b)
  PROVE  Promised(a \o b, a, Len(a), b, Len(b))
  <1> DEFINE c == a \o b
             n == Len(a)
             m == Len(b)
  <1>1. /\ IsSeq(a) /\ n \in Nat /\ \A k \in 1 .. n : IsPromise(a[k])
        /\ IsSeq(b) /\ m \in Nat /\ \A k \in 1 .. m : IsPromise(b[k])
    BY SeqHas DEF IsPromises
  <1>2. IsSeq(c) /\ Len(c) = n + m /\ \A k \in 1 .. n + m : c[k] = IF k <= n THEN a[k] ELSE b[k - n]
    BY <1>1, ConcatHas
  <1> HIDE DEF c
  <1>3. ASSUME NEW k \in 1 .. n PROVE k \in 1 .. n + m /\ c[k] = a[k]
    BY <1>1, <1>2
  <1>4. ASSUME NEW k \in 1 .. m PROVE n + k \in 1 .. n + m /\ c[n + k] = b[k]
    <2>1. n + k \in 1 .. n + m /\ ~(n + k <= n) /\ n + k - n = k
      BY <1>1
    <2> QED BY <1>2, <2>1
  <1>5. ASSUME NEW k \in 1 .. n + m PROVE IsPromise(c[k])
    <2>1. CASE k <= n
      <3>1. k \in 1 .. n
        BY <1>1, <2>1
      <3> QED BY <1>1, <1>3, <3>1
    <2>2. CASE ~(k <= n)
      <3>1. k - n \in 1 .. m /\ c[k] = b[k - n]
        BY <1>1, <1>2, <2>2
      <3> QED BY <1>1, <3>1
    <2> QED BY <2>1, <2>2
  <1>6. IsPromises(c)
    BY <1>2, <1>5 DEF IsPromises
  <1>7. ASSUME NEW k \in 1 .. n PROVE WordsOf(c)[k] = WordsOf(a)[k]
    BY <1>2, <1>3, <1>6, WordsOfHas
  <1>8. ASSUME NEW k \in 1 .. m PROVE WordsOf(c)[n + k] = b[k].words
    BY <1>2, <1>4, <1>6, WordsOfHas
  <1>9. Promised(c, a, n, b, m)
    BY <1>2, <1>6, <1>7, <1>8 DEF Promised
  <1> QED BY <1>9 DEF c

LEMMA LastPromise ==
  ASSUME NEW a, IsPromises(a), a # <<>>
  PROVE  Len(a) \in Nat \ {0} /\ IsPromise(a[Len(a)]) /\ WordsOf(a)[Len(a)] = a[Len(a)].words
  <1> DEFINE n == Len(a)
  <1>1. IsSeq(a) /\ n \in Nat /\ \A k \in 1 .. n : IsPromise(a[k])
    BY SeqHas DEF IsPromises
  <1>2. n \in Nat \ {0} /\ n \in 1 .. n
    BY <1>1
  <1>3. \A k \in 1 .. n : WordsOf(a)[k] = a[k].words
    BY WordsOfHas
  <1> HIDE DEF n
  <1>4. IsPromise(a[n]) /\ WordsOf(a)[n] = a[n].words
    BY <1>1, <1>2, <1>3
  <1> QED BY <1>2, <1>4 DEF n

LEMMA PromisesLast ==
  ASSUME NEW a, IsPromises(a), a # <<>>, NEW x, IsPromise(x)
  PROVE  /\ IsPromises([a EXCEPT ![Len(a)] = x]) /\ Len([a EXCEPT ![Len(a)] = x]) = Len(a)
         /\ ButLast(WordsOf([a EXCEPT ![Len(a)] = x]), WordsOf(a), Len(a), x.words)
  <1> DEFINE n == Len(a)
             b == [a EXCEPT ![n] = x]
  <1>1. /\ IsSeq(a) /\ n \in Nat /\ DOMAIN a = 1 .. n /\ a = [k \in 1 .. n |-> a[k]]
        /\ \A k \in 1 .. n : IsPromise(a[k])
    BY SeqHas DEF IsPromises
  <1>2. n \in Nat \ {0} /\ n \in 1 .. n
    BY <1>1
  <1> HIDE DEF n
  <1>3. b = [k \in 1 .. n |-> b[k]] /\ (\A k \in 1 .. n : b[k] = IF k = n THEN x ELSE a[k])
    BY <1>1
  <1> HIDE DEF b
  <1>4. IsSeq(b) /\ Len(b) = n
    BY <1>1, <1>3, FcnIsSeq
  <1>5. IsPromises(b)
    BY <1>1, <1>3, <1>4 DEF IsPromises
  <1>6. \A k \in 1 .. n : WordsOf(b)[k] = b[k].words
    BY <1>4, <1>5, WordsOfHas
  <1>7. \A k \in 1 .. n : WordsOf(a)[k] = a[k].words
    BY WordsOfHas DEF n
  <1>8. ASSUME NEW k \in 1 .. n - 1 PROVE WordsOf(b)[k] = WordsOf(a)[k]
    <2>1. k \in 1 .. n /\ k # n
      BY <1>1
    <2> QED BY <1>3, <1>6, <1>7, <2>1
  <1>9. WordsOf(b)[n] = x.words
    BY <1>2, <1>3, <1>6
  <1>10. ButLast(WordsOf(b), WordsOf(a), n, x.words)
    BY <1>8, <1>9 DEF ButLast
  <1> QED BY <1>1, <1>2, <1>4, <1>5, <1>7, <1>10 DEF b, n

\* The fragment is what a loader has made that was given so much.
Made(f, ptr, promises) ==
    IsPromises(promises) /\ LoadedWith(LoaderOn(f, ptr), WordsOf(promises), Len(promises))

\* A function of the loader that keeps its promise.
LEMMA LoadMakes ==
  ASSUME Made(container, index_ptr, added), NEW l, NEW promised, IsPromises(promised), Load(l, promised),
         Ended(l, WordsOf(added), Len(added), WordsOf(promised), Len(promised))
  PROVE  /\ Made(container', index_ptr', added') /\ wild' = FALSE
         /\ added' = added \/ added' = promised
  <1>1. /\ container' = l.f /\ index_ptr' = l.index_ptr /\ wild' = l.wild
        /\ added' = IF Failed(l) THEN added ELSE promised
    BY DEF Load
  <1>2. l.wild = FALSE
    BY DEF Ended
  <1>3. CASE l.threw
    <2>1. added' = added
      BY <1>1, <1>3 DEF Failed
    <2>2. LoadedWith(LoaderOn(l.f, l.index_ptr), WordsOf(added), Len(added))
      BY <1>3 DEF Ended
    <2> QED BY <1>1, <1>2, <2>1, <2>2 DEF Made
  <1>4. CASE ~l.threw
    <2>1. added' = promised
      BY <1>1, <1>2, <1>4 DEF Failed
    <2>2. LoadedWith(LoaderOn(l.f, l.index_ptr), WordsOf(promised), Len(promised))
      BY <1>4 DEF Ended
    <2> QED BY <1>1, <1>2, <2>1, <2>2 DEF Made
  <1> QED BY <1>3, <1>4

\* A step after which the loader has made what it promised, of so many
\* fragments more.
Makes(m) ==
    /\ Made(container', index_ptr', added')
    /\ wild' = FALSE
    /\ added' = added \/ Len(added') = Len(added) + m

LEMMA AddFragmentMakes ==
  ASSUME ~CopyOld, FragmentInv, Made(container, index_ptr, added), Len(added) + 1 < CountLimit,
         NEW i \in Slots, NEW allow \in BOOLEAN, AddFragment(i, allow)
  PROVE  Makes(1)
  <1> DEFINE f == frag[i]
             x == Promise(f)
             l == Loader
             seqs == WordsOf(added)
             n == Len(added)
             promised == Append(added, x)
             both == WordsOf(promised)
  <1>1. Held(i) /\ HeaderStored(f) /\ Load(AddOne(l, f, allow), promised)
    BY DEF AddFragment, Storable
  <1>2. /\ Header(f).type \in Types /\ Headed(SentWords(f)) /\ IsPromise(x) /\ x.words = SentWords(f)
    BY <1>1, SlotFits
  <1>3. IsPromises(added) /\ LoadedWith(l, seqs, n)
    BY DEF Made, Loader
  <1> HIDE DEF f, x, l
  <1>4. IsPromises(promised) /\ Len(promised) = n + 1 /\ Both(both, seqs, n, <<x.words>>, 1)
    BY <1>2, <1>3, PromisesAppend
  <1>5. n \in Nat
    BY <1>3, WordsOfHas
  <1> HIDE DEF promised, both, seqs
  <1>6. IsSeq(<<f>>) /\ Len(<<f>>) = 1 /\ \A k \in 1 .. 1 : <<f>>[k] = f
    <2>1. \A k \in 1 .. 1 : k = 1
      OBVIOUS
    <2> QED BY <2>1, OneWord
  <1> DEFINE list == <<f>>
  <1>7. IsSeq(list) /\ Len(list) = 1 /\ \A k \in 1 .. 1 : list[k] = f
    BY <1>6
  <1> HIDE DEF list
  <1>8. Fit(list)
    BY <1>2, <1>7 DEF Fit
  <1>9. Joins(both, seqs, n, list)
    <2>1. \A k \in 1 .. 1 : <<x.words>>[k] = SentWords(list[k])
      <3>1. \A k \in 1 .. 1 : <<x.words>>[k] = x.words
        OBVIOUS
      <3> QED BY <1>2, <1>7, <3>1
    <2> QED BY <1>4, <1>7, <2>1 DEF Both, Joins
  <1>10. Ended(AddOne(l, f, allow), seqs, n, both, n + 1)
    BY <1>3, <1>5, <1>8, <1>9, AddOneHas DEF list, n
  <1> QED BY <1>1, <1>4, <1>10, LoadMakes DEF Makes, both, seqs

LEMMA AddFragmentsMakes ==
  ASSUME ~CopyOld, ~EmptyFirst, ~MixedLists, FragmentInv, Made(container, index_ptr, added),
         NEW list \in Lists, Len(added) + Len(list) < CountLimit, NEW allow \in BOOLEAN, AddFragments(list, allow)
  PROVE  Makes(Len(list))
  <1> DEFINE fs == Fragments(list)
             ps == ListPromises(list)
             l == Loader
             seqs == WordsOf(added)
             n == Len(added)
             m == Len(list)
             promised == added \o ps
             both == WordsOf(promised)
             types == [k \in DOMAIN list |-> Header(fs[k]).type]
  <1>1. /\ \A k \in DOMAIN list : Held(list[k]) /\ HeaderStored(frag[list[k]])
        /\ allow \/ \A k \in 2 .. m : ~WrongType(l, types, k)
        /\ Load(AddAll(l, fs, allow), promised)
        /\ list # <<>> \/ added # <<>>
    BY DEF AddFragments, Storable, ListPromises
  <1>2. /\ Fit(fs) /\ m \in Nat /\ Len(fs) = m
        /\ IsSeq(ps) /\ Len(ps) = m
        /\ \A k \in 1 .. m : IsPromise(ps[k]) /\ ps[k].words = SentWords(fs[k])
        /\ TypesOf(fs) = types
    BY <1>1, ListHas
  <1>3. IsPromises(added) /\ LoadedWith(l, seqs, n)
    BY DEF Made, Loader
  <1> HIDE DEF fs, ps, l, m, types
  <1>4. IsPromises(ps)
    BY <1>2 DEF IsPromises
  <1>5. /\ IsPromises(promised) /\ Len(promised) = n + m
        /\ \A k \in 1 .. n : both[k] = seqs[k]
        /\ \A k \in 1 .. m : both[n + k] = ps[k].words
    <2>1. Promised(promised, added, n, ps, Len(ps))
      BY <1>3, <1>4, PromisesConcat
    <2>2. Promised(promised, added, n, ps, m)
      BY <1>2, <2>1
    <2> HIDE DEF promised, n
    <2> QED BY <2>2 DEF Promised
  <1>6. n \in Nat
    BY <1>3, WordsOfHas
  <1>12. 1 <= n + m
    <2>1. list # <<>> => 1 <= m
      BY ContainerAssumption, NotEmpty DEF m
    <2>2. added # <<>> => 1 <= n
      BY <1>3, NotEmpty DEF IsPromises, IsSeq
    <2> HIDE DEF n
    <2> QED BY <1>1, <1>2, <1>6, <2>1, <2>2
  <1> HIDE DEF promised, both, seqs
  <1>7. Joins(both, seqs, n, fs)
    BY <1>2, <1>5 DEF Joins
  <1>8. /\ 1 <= n + Len(fs) /\ n + Len(fs) < CountLimit
        /\ allow \/ \A k \in 2 .. Len(fs) : ~WrongType(l, TypesOf(fs), k)
    BY <1>1, <1>2, <1>12 DEF m
  <1>9. Ended(AddAll(l, fs, allow), seqs, n, both, n + Len(fs))
    BY <1>2, <1>3, <1>6, <1>7, <1>8, AddAllHas DEF n
  <1>10. Ended(AddAll(l, fs, allow), seqs, n, both, Len(promised))
    BY <1>2, <1>5, <1>9
  <1>11. Made(container', index_ptr', added') /\ wild' = FALSE /\ (added' = added \/ added' = promised)
    BY <1>1, <1>5, <1>10, LoadMakes DEF both, seqs
  <1> QED BY <1>5, <1>11 DEF Makes, m

\* The header is one that is read as a header, whatever it was not given.
LEMMA AppendFragmentMakes ==
  ASSUME Made(container, index_ptr, added), Len(added) + 1 < CountLimit,
         NEW p \in Nat, NEW garbage \in Garbage, AppendFragment(p, garbage)
  PROVE  Makes(1)
  <1> DEFINE l == Loader
             h == AppendedHeader(l, p, garbage)
             x == [words |-> HeaderAndRoom(h, p), payload |-> p]
             seqs == WordsOf(added)
             n == Len(added)
             promised == Append(added, x)
             both == WordsOf(promised)
  <1>1. Load(AppendTo(l, h), promised)
    BY DEF AppendFragment, HeaderAndRoom
  <1>2. IsPromises(added) /\ LoadedWith(l, seqs, n)
    BY DEF Made, Loader
  <1>3. n \in Nat
    BY <1>2, WordsOfHas
  <1> HIDE DEF l, seqs
  <1>4. h \in HeaderWord /\ h.version = "current" /\ h.word_count = p + NumWords("current")
    <2>1. PICK md, P, e : Loaded(l, md, P, seqs, e, n)
      BY <1>2 DEF LoadedWith
    <2> HIDE DEF n
    <2>2. md \in IndexMetadata(n, e[n]) /\ ContainerMetadata(l.f) = md /\ Keeps(l.f, ContainerOf(md, P))
      BY <1>3, <2>1, LoadedHas
    <2>3. Header(l.f).id = 0
      BY <2>2, ContainerReads
    <2> DEFINE t == ContainerMetadata(l.f).fragment_type
               c == p + NumWords("current")
    <2>4. t \in UserTypes \cup {"Empty"}
      BY <2>2 DEF IndexMetadata
    <2>5. c \in Nat /\ garbage \in Nat
      BY ContainerAssumption DEF NumWords
    <2>6. h = HeaderOf("current", t, 0, c, garbage)
      BY <2>3 DEF AppendedHeader
    <2> HIDE DEF t, c, h
    <2>7. h \in HeaderWord /\ h.version = "current" /\ h.word_count = c
      BY <2>4, <2>5, <2>6 DEF HeaderOf, HeaderWord
    <2> QED BY <2>7 DEF c
  <1> HIDE DEF h
  <1>5. IsPromise(x) /\ x.words = HeaderAndRoom(h, p)
    <2> DEFINE s == HeaderAndRoom(h, p)
    <2>1. x = [words |-> s, payload |-> p]
      OBVIOUS
    <2> HIDE DEF s, x
    <2>2. IsPromise(x) /\ x.words = s
      BY <2>1 DEF IsPromise
    <2> QED BY <2>2 DEF s
  <1> HIDE DEF x
  <1>6. IsPromises(promised) /\ Len(promised) = n + 1 /\ Both(both, seqs, n, <<x.words>>, 1)
    BY <1>2, <1>5, PromisesAppend DEF seqs
  <1> HIDE DEF promised, both
  <1>7. Both(both, seqs, n, <<HeaderAndRoom(h, p)>>, 1)
    BY <1>5, <1>6
  <1>8. Ended(AppendTo(l, h), seqs, n, both, n + 1)
    BY <1>2, <1>3, <1>4, <1>7, AppendToHas DEF n
  <1> QED BY <1>1, <1>6, <1>8, LoadMakes DEF Makes, both, seqs

LEMMA FillLastMakes ==
  ASSUME Made(container, index_ptr, added), NEW d, FillLast(d)
  PROVE  Makes(0)
  <1> DEFINE n == Len(added)
             last == added[n]
             p == last.payload
             filled == [k \in 1 .. p |-> d]
             w == SubSeq(last.words, 1, NumWords("current")) \o filled
             x == [last EXCEPT !.words = w]
             l == Loader
             r == Store(l, LastHeader(l) + NumWords("current"), filled)
             promised == [added EXCEPT ![n] = x]
             seqs == WordsOf(added)
             both == WordsOf(promised)
  <1>1. IsPromises(added) /\ LoadedWith(l, seqs, n) /\ added # <<>>
    BY DEF Made, Loader, FillLast
  <1>2. n \in Nat \ {0} /\ IsPromise(last) /\ seqs[n] = last.words
    BY <1>1, LastPromise
  <1>3. Len(last.words) = NumWords("current") + p
    BY DEF FillLast
  <1>4. Load(r, promised)
    <2>1. n \in 1 .. n /\ added = [k \in 1 .. n |-> added[k]]
      BY <1>1, <1>2, SeqHas DEF IsPromises
    <2>2. Load(r, [added EXCEPT ![n].words = SubSeq(@, 1, NumWords("current")) \o filled])
      BY DEF FillLast
    <2> HIDE DEF r, filled
    <2>3. [added EXCEPT ![n].words = SubSeq(@, 1, NumWords("current")) \o filled] = promised
      BY <2>1
    <2> QED BY <2>2, <2>3
  <1> HIDE DEF last, r
  <1>5. p \in Nat
    BY <1>2 DEF IsPromise
  <1> HIDE DEF w
  <1>6. IsPromise(x) /\ x.words = w
    <2>1. x \in [words : {w}, payload : Nat]
      BY <1>2 DEF IsPromise
    <2> HIDE DEF x
    <2> QED BY <2>1 DEF IsPromise
  <1> HIDE DEF x
  <1>7. IsPromises(promised) /\ Len(promised) = n /\ ButLast(both, seqs, n, x.words)
    BY <1>1, <1>6, PromisesLast
  <1> HIDE DEF promised, both, seqs, l, n
  <1> HIDE DEF p
  <1>8. IsSeq(filled) /\ Len(filled) = p
    BY <1>5, FcnIsSeq
  <1> HIDE DEF filled
  <1>9. /\ ButLast(both, seqs, n, SubSeq(seqs[n], 1, NumWords("current")) \o filled)
        /\ Len(seqs[n]) = NumWords("current") + Len(filled)
    BY <1>2, <1>3, <1>6, <1>7, <1>8 DEF w, p
  <1>10. Ended(r, seqs, n, both, n)
    <2>1. Ended(Store(l, LastHeader(l) + NumWords("current"), filled), seqs, n, both, n)
      BY <1>1, <1>2, <1>8, <1>9, FillLastHas
    <2> QED BY <2>1 DEF r
  <1>11. Ended(r, WordsOf(added), Len(added), WordsOf(promised), Len(promised))
    BY <1>7, <1>10 DEF seqs, both, n
  <1>12. Made(container', index_ptr', added') /\ wild' = FALSE /\ (added' = added \/ added' = promised)
    BY <1>4, <1>7, <1>11, LoadMakes
  <1>13. Len(promised) = Len(added) + 0
    BY <1>2, <1>7 DEF n
  <1> QED BY <1>12, <1>13 DEF Makes

LEMMA ResizeLastMakes ==
  ASSUME Made(container, index_ptr, added), Len(added) < CountLimit, NEW p \in Nat, ResizeLastFragment(p)
  PROVE  Makes(0)
  <1> DEFINE n == Len(added)
             last == added[n]
             size == p + NumWords("current")
             w == ResizedWords(last.words, size)
             x == [words |-> w, payload |-> p]
             l == Loader
             promised == [added EXCEPT ![n] = x]
             seqs == WordsOf(added)
             both == WordsOf(promised)
  <1>1. IsPromises(added) /\ LoadedWith(l, seqs, n) /\ added # <<>>
    BY DEF Made, Loader, ResizeLastFragment
  <1>2. n \in Nat \ {0} /\ IsPromise(last) /\ seqs[n] = last.words
    BY <1>1, LastPromise
  <1>3. NumWords("current") <= Len(last.words)
    BY DEF ResizeLastFragment
  <1>4. Load(ResizeLast(l, p), promised)
    BY DEF ResizeLastFragment, ResizedWords
  <1> HIDE DEF last, w
  <1>5. IsPromise(x) /\ x.words = w
    BY DEF IsPromise
  <1> HIDE DEF x
  <1>6. IsPromises(promised) /\ Len(promised) = n /\ ButLast(both, seqs, n, x.words)
    BY <1>1, <1>5, PromisesLast
  <1> HIDE DEF promised, both, seqs, l
  <1>7. NumWords("current") <= Len(seqs[n]) /\ n < CountLimit
    BY <1>2, <1>3
  <1> HIDE DEF n
  <1>8. ButLast(both, seqs, n, ResizedWords(seqs[n], p + NumWords("current")))
    BY <1>2, <1>5, <1>6 DEF w
  <1>9. Ended(ResizeLast(l, p), seqs, n, both, n)
    BY <1>1, <1>2, <1>7, <1>8, ResizeLastHas
  <1>10. Ended(ResizeLast(l, p), WordsOf(added), Len(added), WordsOf(promised), Len(promised))
    BY <1>6, <1>9 DEF seqs, both, n
  <1>11. Made(container', index_ptr', added') /\ wild' = FALSE /\ (added' = added \/ added' = promised)
    BY <1>4, <1>6, <1>10, LoadMakes
  <1>12. Len(promised) = Len(added) + 0
    BY <1>2, <1>6 DEF n
  <1> QED BY <1>11, <1>12 DEF Makes

\* The constructor: an empty container, of which the index is its mark alone.
LEMMA OpenContainerMakes ==
  ASSUME OpenContainer
  PROVE  /\ Made(container', index_ptr', added')
         /\ wild' = wild /\ loading' = TRUE /\ added' = <<>> /\ ops < MaxOps /\ ops' = ops + 1
  <1>1. PICK type \in UserTypes \cup {"Empty"} :
           LET md   == [version |-> 1, block_count |-> 0, fragment_type |-> type,
                        has_index |-> TRUE, index_offset |-> 0]
               room == ResizeData(SetMetadata(SetType(NewFragment(0), "Container"), <<md>>), 1)
           IN  container' = WriteWords(room, DataBegin(room), <<Magic>>)
    BY DEF OpenContainer
  <1> DEFINE md == [version |-> 1, block_count |-> 0, fragment_type |-> type,
                    has_index |-> TRUE, index_offset |-> 0]
             m == <<md>>
             v0 == [type |-> "Invalid", id |-> 0, metadata |-> <<>>, payload |-> AllJunk(0)]
             v1 == [v0 EXCEPT !.type = "Container"]
             v2 == [v1 EXCEPT !.metadata = m]
             v3 == Resized(v2, 1)
             P == [k \in 1 .. 1 |-> IF k <= Len(v2.payload) THEN v2.payload[k] ELSE Junk]
             f0 == NewFragment(0)
             f1 == SetType(f0, "Container")
             f2 == SetMetadata(f1, m)
             f3 == ResizeData(f2, 1)
             l == LoaderOn(f3, NullPtr)
             words == <<Magic>>
             r == Store(l, 0, words)
             Q == PutAt(P, 0, words)
             e == [k \in 0 .. 0 |-> 0]
  <1>2. container' = WriteWords(f3, DataBegin(f3), words)
    BY <1>1
  <1>3. /\ index_ptr' = NullPtr /\ added' = <<>> /\ wild' = wild /\ loading' = TRUE
        /\ ops < MaxOps /\ ops' = ops + 1
    BY DEF OpenContainer, Call
  <1>4. md \in IndexMetadata(0, 0)
    BY DEF IndexMetadata
  <1> HIDE DEF md
  <1>5. IsSeq(m) /\ IsSeq(words) /\ Len(words) = 1 /\ words[1] = Magic
    BY OneWord
  <1>6. v1 \in [type : {"Container"}, id : {0}, metadata : {<<>>}, payload : {AllJunk(0)}]
    OBVIOUS
  <1>7. Keeps(f0, v0)
    BY NewKeeps
  <1> HIDE DEF f0, v0
  <1>8. Keeps(f1, v1)
    BY <1>7, SetTypeKeeps
  <1> HIDE DEF f1, v1
  <1>9. ~HasMetadata(f1)
    <2>1. Header(f1).metadata_word_count = Len(v1.metadata)
      BY <1>8, KeepsHas
    <2>2. v1.metadata = <<>>
      BY <1>6
    <2> QED BY <2>1, <2>2, NoWords DEF HasMetadata
  <1>10. v2 \in [type : {"Container"}, id : {0}, metadata : {m}, payload : {AllJunk(0)}]
    BY <1>6
  <1>11. Keeps(f2, v2)
    BY <1>5, <1>8, <1>9, SetMetadataKeeps
  <1> HIDE DEF f2, v2
  <1>12. Keeps(f3, v3)
    BY <1>11, ResizeKeeps
  <1>13. v3 = ContainerOf(md, P)
    <2>1. v3 = [v2 EXCEPT !.payload = P]
      BY DEF Resized
    <2> HIDE DEF P, v3
    <2>2. v3 \in [type : {"Container"}, id : {0}, metadata : {m}, payload : {P}]
      BY <1>10, <2>1
    <2> QED BY <2>2 DEF ContainerOf
  <1>14. Keeps(f3, ContainerOf(md, P))
    BY <1>12, <1>13
  <1>15. Len(P) = 1
    BY FcnIsSeq
  <1> HIDE DEF f3, v3, P, m, words
  <1>16. Sound(l) /\ l.f = f3
    BY DEF Sound, LoaderOn
  <1> HIDE DEF l
  <1>17. /\ Keeps(r.f, ContainerOf(md, Q))
         /\ IsSeq(Q) /\ Len(Q) = 1 /\ Q[1] = Magic
    <2>1. 0 \in Nat /\ Len(P) \in Nat /\ 0 + Len(words) <= Len(P)
      BY <1>5, <1>15
    <2>2. Keeps(r.f, ContainerOf(md, Q))
      BY <1>5, <1>14, <1>16, <2>1, StoreHas
    <2>3. Differs(Q, P, 0, words)
      BY <1>5, <2>1, PutDiffers
    <2> HIDE DEF Q, r
    <2>4. 1 \in 1 .. Len(words) /\ 0 + 1 = 1
      BY <1>5
    <2>5. Q[1] = Magic
      BY <1>5, <2>3, <2>4 DEF Differs
    <2>6. IsSeq(Q)
      BY <2>2, ContainerReads
    <2> QED BY <1>15, <2>2, <2>3, <2>5, <2>6 DEF Differs
  <1>18. r.f = container'
    <2>1. DataBegin(f3) \in Nat /\ DataSize(f3) = 1
      BY <1>14, <1>15, ContainerReads
    <2>2. ~(0 = Wild \/ 0 + Len(words) > DataSize(l.f))
      BY <1>5, <1>16, <2>1 DEF Wild
    <2>3. DataBegin(f3) + 0 = DataBegin(f3)
      BY <2>1
    <2> DEFINE g == WriteWords(l.f, DataBegin(l.f) + 0, words)
    <2>4. r = [l EXCEPT !.f = g]
      BY <2>2 DEF Store
    <2> HIDE DEF g, r
    <2>5. r.f = g
      BY <1>16, <2>4, SoundSet
    <2> QED BY <1>2, <1>16, <2>3, <2>5 DEF g
  <1> DEFINE f == container'
             opened == LoaderOn(f, NullPtr)
             seqs == WordsOf(<<>>)
  <1>19. Keeps(f, ContainerOf(md, Q))
    BY <1>17, <1>18
  <1> HIDE DEF r, Q, f, seqs
  <1>20. Filled(opened.f, md, Q, seqs, e, 0)
    <2>1. opened.f = f
      BY DEF LoaderOn
    <2>2. Cuts(e, seqs, 0)
      BY DEF Cuts
    <2>3. e[0] <= Len(Q)
      BY <1>17
    <2> HIDE DEF e, opened
    <2> QED BY <1>19, <2>1, <2>2, <2>3 DEF Filled, Blocks
  <1>21. Indexed(md, Q, e, 0)
    <2>1. e[0] = 0 /\ e[0] + 0 + 1 = 1
      OBVIOUS
    <2> HIDE DEF e
    <2> QED BY <1>4, <1>17, <2>1 DEF Indexed
  <1>22. Sound(opened)
    BY DEF Sound, LoaderOn
  <1> HIDE DEF opened, e
  <1>23. LoadedWith(opened, seqs, 0)
    <2>1. Loaded(opened, md, Q, seqs, e, 0)
      BY <1>20, <1>21, <1>22 DEF Loaded
    <2> QED BY <2>1 DEF LoadedWith
  <1>24. IsPromises(<<>>) /\ Len(<<>>) = 0
    BY NoWords DEF IsPromises
  <1>25. Made(f, NullPtr, <<>>)
    BY <1>23, <1>24 DEF Made, opened, seqs
  <1> QED BY <1>3, <1>25 DEF f

\* An index of version 0 says where the fragments end.
LEMMA EndsOfParts ==
  ASSUME NEW words, IsSeq(words), \A k \in 1 .. Len(words) : IsSeq(words[k]),
         NEW d, Cuts(d, words, Len(words)), NEW k \in 1 .. Len(words)
  PROVE  Len(FlattenSeq(SubSeq(words, 1, k))) = d[k]
  <1> DEFINE part == SubSeq(words, 1, k)
             dk == [j \in 0 .. k |-> d[j]]
             n == Len(words)
  <1>1. n \in Nat /\ k \in Nat /\ k <= n
    BY SeqHas
  <1>2. IsSeq(part) /\ Len(part) = k /\ \A j \in 1 .. k : part[j] = words[j]
    <2>1. 0 \in Nat /\ 0 <= k /\ 0 + 1 = 1 /\ k - 0 = k
      BY <1>1
    <2>2. /\ IsSeq(SubSeq(words, 0 + 1, k)) /\ Len(SubSeq(words, 0 + 1, k)) = k - 0
          /\ \A j \in 1 .. k - 0 : SubSeq(words, 0 + 1, k)[j] = words[0 + j]
      BY <1>1, <2>1, PartHas
    <2>3. \A j \in 1 .. k : 0 + j = j
      OBVIOUS
    <2> QED BY <2>1, <2>2, <2>3
  <1>3. \A j \in 1 .. k : j \in 1 .. n /\ j \in 0 .. k /\ j - 1 \in 0 .. k
    BY <1>1
  <1> HIDE DEF part
  <1>4. \A j \in 1 .. Len(part) : IsSeq(part[j])
    BY <1>2, <1>3
  <1>5. PICK c : Cuts(c, part, Len(part)) /\ Len(FlattenSeq(part)) = c[Len(part)]
    BY <1>2, <1>4, FlattenHas
  <1>6. Cuts(dk, part, k)
    <2>1. d[0] = 0 /\ \A j \in 1 .. n : d[j] = d[j - 1] + Len(words[j])
      BY DEF Cuts
    <2>2. dk = [j \in 0 .. k |-> dk[j]] /\ dk[0] = 0
      BY <1>1, <2>1
    <2>3. ASSUME NEW j \in 1 .. k PROVE dk[j] = dk[j - 1] + Len(part[j])
      <3>1. dk[j] = d[j] /\ dk[j - 1] = d[j - 1] /\ part[j] = words[j] /\ j \in 1 .. n
        BY <1>2, <1>3
      <3> QED BY <2>1, <3>1
    <2> HIDE DEF dk
    <2> QED BY <2>2, <2>3 DEF Cuts
  <1>7. dk[k] = d[k] /\ k \in 0 .. k
    BY <1>1
  <1> HIDE DEF dk
  <1>8. Cuts(c, part, k)
    BY <1>2, <1>5
  <1>9. c[k] = dk[k]
    BY <1>1, <1>6, <1>7, <1>8, CutsSame
  <1> QED BY <1>2, <1>5, <1>7, <1>9 DEF part

LEMMA Version0Keeps ==
  ASSUME NEW md, NEW all, IsSeq(all)
  PROVE  Keeps(Received(HeaderWords(HeaderOf("current", "Container", 0, NumWords("current") + 1 + Len(all), 1))
                            \o <<md>> \o all),
               ContainerOf(md, all))
  <1> DEFINE n == Len(all)
             total == NumWords("current") + 1 + n
             h == HeaderOf("current", "Container", 0, total, 1)
             head == HeaderWords(h)
             m == <<md>>
             front == head \o m
             msg == front \o all
             v == ContainerOf(md, all)
  <1>1. n \in Nat /\ total = 3 + n /\ total \in Nat /\ NumWords("current") = 2
    BY SeqHas DEF NumWords
  <1> HIDE DEF n, total
  <1>2. /\ IsHeader(h) /\ h.version = "current" /\ h.type = "Container" /\ h.id = 0
        /\ h.word_count = total /\ h.metadata_word_count = 1
    BY <1>1, HeaderMade
  <1> HIDE DEF h
  <1>3. IsSeq(head) /\ Len(head) = 2 /\ head[1] = h
    <2>1. IsSeq(head) /\ Len(head) = NumWords(h.version) /\ head[1] = h
      BY <1>2, HeaderWordsHas
    <2> HIDE DEF head
    <2> QED BY <1>1, <1>2, <2>1
  <1>4. IsSeq(m) /\ Len(m) = 1 /\ m[1] = md
    BY OneWord
  <1>5. v \in [type : {"Container"}, id : {0}, metadata : {m}, payload : {all}]
    BY DEF ContainerOf
  <1> HIDE DEF head, m
  <1>6. /\ IsSeq(front) /\ Len(front) = 3 /\ front[1] = h /\ front[2 + 1] = md
    <2>1. /\ IsSeq(front) /\ Len(front) = Len(head) + Len(m)
          /\ \A k \in 1 .. Len(head) + Len(m) : front[k] = IF k <= Len(head) THEN head[k] ELSE m[k - Len(head)]
      BY <1>3, <1>4, ConcatHas
    <2> HIDE DEF front
    <2>2. Len(front) = 3 /\ \A k \in 1 .. 3 : front[k] = IF k <= 2 THEN head[k] ELSE m[k - 2]
      BY <1>3, <1>4, <2>1
    <2>3. 1 \in 1 .. 3 /\ 3 \in 1 .. 3 /\ 1 <= 2 /\ ~(3 <= 2) /\ 3 - 2 = 1 /\ 2 + 1 = 3
      OBVIOUS
    <2> QED BY <1>3, <1>4, <2>1, <2>2, <2>3
  <1> HIDE DEF front
  <1>7. /\ IsSeq(msg) /\ Len(msg) = 3 + n
        /\ \A k \in 1 .. 3 + n : msg[k] = IF k <= 3 THEN front[k] ELSE all[k - 3]
    <2>1. /\ IsSeq(msg) /\ Len(msg) = Len(front) + Len(all)
          /\ \A k \in 1 .. Len(front) + Len(all) : msg[k] = IF k <= Len(front) THEN front[k] ELSE all[k - Len(front)]
      BY <1>6, ConcatHas
    <2> HIDE DEF msg
    <2> QED BY <1>6, <2>1 DEF n
  <1> HIDE DEF msg
  <1>8. msg[1] = h /\ msg[2 + 1] = md
    <2>1. 1 \in 1 .. 3 + n /\ 2 + 1 \in 1 .. 3 + n /\ 1 <= 3 /\ 2 + 1 <= 3
      BY <1>1
    <2> QED BY <1>6, <1>7, <2>1
  <1>9. ASSUME NEW k \in 1 .. n PROVE msg[3 + k] = all[k]
    <2>1. 3 + k \in 1 .. 3 + n /\ ~(3 + k <= 3) /\ 3 + k - 3 = k
      BY <1>1
    <2> QED BY <1>7, <2>1
  <1>10. v.metadata = m /\ v.payload = all
           /\ v \in [type : {h.type}, id : {h.id}, metadata : {v.metadata}, payload : {v.payload}]
    BY <1>2, <1>5
  <1> HIDE DEF v
  <1>11. Describes(h, msg, 3, v)
    <2>1. 3 \in Nat /\ 3 = NumWords(h.version) + h.metadata_word_count /\ 3 <= Len(msg) /\ 2 <= Len(msg)
          /\ h.word_count = Len(msg) /\ Len(msg) - 3 = n
      BY <1>1, <1>2, <1>7
    <2>2. \A k \in 1 .. Len(v.metadata) : msg[NumWords(h.version) + k] = v.metadata[k]
      <3>1. \A k \in 1 .. 1 : k = 1
        OBVIOUS
      <3> QED BY <1>1, <1>2, <1>4, <1>8, <1>10, <3>1
    <2>3. \A k \in 1 .. Len(v.payload) : msg[3 + k] = v.payload[k]
      BY <1>9, <1>10 DEF n
    <2>4. IsSeq(v.metadata) /\ Len(v.metadata) = h.metadata_word_count
            /\ IsSeq(v.payload) /\ Len(v.payload) = Len(msg) - 3
      BY <1>2, <1>4, <1>10, <2>1 DEF n
    <2> QED BY <1>2, <1>7, <1>8, <1>10, <2>1, <2>2, <2>3, <2>4 DEF Describes
  <1>12. Keeps(Received(msg), v)
    BY <1>11, ReceivedKeeps
  <1> QED BY <1>12 DEF msg, front, head, m, h, total, n, v

\* An old container that was read from a file.
LEMMA Version0Reads ==
  ASSUME FragmentInv, NEW list \in Lists \ {<<>>},
         \A k \in DOMAIN list : Held(list[k]) /\ HeaderStored(frag[list[k]])
  PROVE  /\ Header(Version0Of(Fragments(list))).type = "Container"
         /\ ReadsAs(Version0Of(Fragments(list)), ListPromises(list))
  <1> DEFINE fs == Fragments(list)
             ps == ListPromises(list)
             m == Len(list)
             words == [k \in DOMAIN fs |-> SentWords(fs[k])]
             all == FlattenSeq(words)
             ends == [k \in DOMAIN words |-> Len(FlattenSeq(SubSeq(words, 1, k)))]
             md == [version |-> 0, block_count |-> Len(words),
                    fragment_type |-> Header(fs[1]).type, index |-> ends]
             c == Version0Of(fs)
  <1>1. /\ Fit(fs) /\ m \in Nat /\ 1 <= m /\ Len(fs) = m
        /\ IsSeq(ps) /\ Len(ps) = m
        /\ \A k \in 1 .. m : ps[k].words = SentWords(fs[k])
    BY ListHas, ContainerAssumption, NotEmpty
  <1>2. c = Received(HeaderWords(HeaderOf("current", "Container", 0, NumWords("current") + 1 + Len(all), 1))
                         \o <<md>> \o all)
    BY DEF Version0Of
  <1> HIDE DEF c, fs, ps, m
  <1>3. DOMAIN fs = 1 .. m /\ \A k \in 1 .. m : Headed(SentWords(fs[k]))
    BY <1>1, SeqHas DEF Fit
  <1>4. /\ IsSeq(words) /\ Len(words) = m /\ DOMAIN words = 1 .. m
        /\ \A k \in 1 .. m : words[k] = SentWords(fs[k])
    <2>1. words = [k \in 1 .. m |-> SentWords(fs[k])]
      BY <1>3
    <2> HIDE DEF words
    <2>2. words = [k \in 1 .. m |-> words[k]]
      BY <2>1
    <2>3. IsSeq(words) /\ Len(words) = m
      BY <1>1, <2>2, FcnIsSeq
    <2> QED BY <2>1, <2>3
  <1>5. WordsOf(ps) = words
    BY <1>1, <1>3 DEF WordsOf
  <1> HIDE DEF words
  <1>6. \A k \in 1 .. m : Headed(words[k]) /\ IsSeq(words[k])
    BY <1>3, <1>4 DEF Headed
  <1>7. PICK d : /\ Cuts(d, words, m) /\ IsSeq(all) /\ Len(all) = d[m] /\ Joined(all, words, d, m)
    BY <1>4, <1>6, FlattenHas
  <1>8. ASSUME NEW k \in 1 .. m PROVE ends[k] = d[k]
    <2>1. Len(FlattenSeq(SubSeq(words, 1, k))) = d[k]
      BY <1>4, <1>6, <1>7, EndsOfParts
    <2> QED BY <1>4, <2>1
  <1> HIDE DEF all, ends
  <1>9. md.version = 0 /\ md.block_count = m /\ md.index = ends
    BY <1>4
  <1> HIDE DEF md
  <1>10. Keeps(c, ContainerOf(md, all))
    BY <1>2, <1>7, Version0Keeps
  <1>11. ContainerMetadata(c) = md /\ IsSeq(all) /\ Len(all) \in Nat
    BY <1>10, ContainerReads
  <1>12. IsVersion0(c) /\ Readable(c)
    BY <1>9, <1>11 DEF IsVersion0, Readable
  <1>13. Blocks(all, words, d, m) /\ d[0] = 0
    BY <1>7 DEF Joined, Blocks, Cuts
  <1>14. Filled(c, md, all, words, d, m)
    <2>1. d[m] <= Len(all)
      BY <1>7, <1>11
    <2> QED BY <1>6, <1>7, <1>10, <1>13, <2>1 DEF Filled
  <1>15. ASSUME NEW k \in 0 .. m PROVE FragmentIndex(c, IndexOf(c), k) = d[k]
    <2>1. CASE k = 0
      BY <1>13, <2>1 DEF FragmentIndex
    <2>2. CASE k # 0
      <3>1. k \in 1 .. m
        BY <1>1, <2>2
      <3>2. FragmentIndex(c, IndexOf(c), k) = md.index[k]
        BY <1>11, <1>12, <2>2 DEF FragmentIndex
      <3> QED BY <1>8, <1>9, <3>1, <3>2
    <2> QED BY <2>1, <2>2
  <1>16. Header(c).type = "Container" /\ ReadsAs(c, ps)
    BY <1>1, <1>5, <1>9, <1>12, <1>14, <1>15, ReadsHas
  <1> QED BY <1>16 DEF c, fs, ps

-----------------------------------------------------------------------------
(* Containers are whole                                                    *)

\* The program calls no function often enough to fill a container, of which
\* block_count cannot count more: so many fragments are the most a call adds.
NeverFills(most) ==
    /\ most \in Nat \ {0}
    /\ \A list \in Lists : Len(list) <= most
    /\ MaxOps * most < CountLimit

ContainerInv(most) ==
    /\ wild = FALSE
    /\ ops \in 0 .. MaxOps
    /\ loading => Made(container, index_ptr, added) /\ Len(added) <= ops * most
    /\ ~loading => ContainerHolds

LEMMA Products ==
  ASSUME NEW o \in Nat, NEW m \in Nat, NEW b \in Nat, o < m
  PROVE  o * b \in Nat /\ (o + 1) * b = o * b + b /\ (o + 1) * b <= m * b
  <1> DEFINE r == m - (o + 1)
  <1>1. r \in Nat /\ m = (o + 1) + r
    OBVIOUS
  <1> HIDE DEF r
  <1>2. o * b \in Nat /\ r * b \in Nat
    BY <1>1
  <1>3. (o + 1) * b = o * b + b
    OBVIOUS
  <1>4. m * b = (o + 1) * b + r * b
    BY <1>1
  <1> QED BY <1>2, <1>3, <1>4

LEMMA ContainerInvHolds ==
  ASSUME NEW most, ContainerInv(most)
  PROVE  ContainerHolds /\ NothingWild
  <1>1. CASE loading
    <2>1. Header(container).type = "Container" /\ ReadsAs(container, added)
      BY <1>1, LoadedReads DEF ContainerInv, Made, IsPromises
    <2> QED BY <2>1 DEF ContainerInv, ContainerHolds, NothingWild
  <1> QED BY <1>1 DEF ContainerInv, NothingWild

LEMMA ContainerInitInv ==
  ASSUME Init, NEW most
  PROVE  ContainerInv(most)
  <1>1. FragmentInv /\ \A i \in Slots : HeaderStored(frag[i])
    BY FragmentInitInv
  <1>2. \A i \in Slots : Held(i)
    <2>1. \A i \in Slots : want[i].id = i
      BY DEF Init, FragmentInit
    <2>2. 0 \notin Slots /\ NoValue.id = 0
      BY FragmentAssumption DEF NoValue
    <2> QED BY <2>1, <2>2 DEF Held
  <1>3. wild = FALSE /\ loading = FALSE /\ ops = 0 /\ 0 \in 0 .. MaxOps
    BY FragmentAssumption DEF Init, FragmentInit, ContainerInit
  <1>4. ContainerHolds
    <2>1. CASE container = NoContainer
      BY <2>1 DEF ContainerHolds
    <2>2. ASSUME NEW list \in Lists \ {<<>>}, container = Version0Of(Fragments(list)),
                 added = [k \in DOMAIN list |-> Promise(frag[list[k]])]
          PROVE  ContainerHolds
      <3>1. list \in Seq(Slots)
        BY ContainerAssumption
      <3>2. \A k \in DOMAIN list : list[k] \in Slots
        BY <3>1
      <3>3. \A k \in DOMAIN list : Held(list[k]) /\ HeaderStored(frag[list[k]])
        BY <1>1, <1>2, <3>2
      <3>4. added = ListPromises(list)
        BY <2>2 DEF ListPromises, Fragments
      <3>5. /\ Header(Version0Of(Fragments(list))).type = "Container"
            /\ ReadsAs(Version0Of(Fragments(list)), ListPromises(list))
        BY <1>1, <3>3, Version0Reads
      <3> QED BY <2>2, <3>4, <3>5 DEF ContainerHolds
    <2> QED BY <2>1, <2>2 DEF Init, ContainerInit
  <1> QED BY <1>3, <1>4 DEF ContainerInv

\* A loader has made so many fragments more with a call.
LEMMA MadeInv ==
  ASSUME NEW most, NeverFills(most), ContainerInv(most), loading, NEW m \in Nat, m <= most, Makes(m),
         loading' = loading, ops < MaxOps, ops' = ops + 1
  PROVE  ContainerInv(most)'
  <1> DEFINE o == ops
             a == Len(added)
             b == Len(added')
  <1>1. o \in Nat /\ MaxOps \in Nat /\ most \in Nat /\ o < MaxOps
    BY FragmentAssumption DEF ContainerInv, NeverFills
  <1>2. Made(container, index_ptr, added) /\ a <= o * most
    BY DEF ContainerInv
  <1>3. a \in Nat
    BY <1>2, WordsOfHas DEF Made
  <1>4. Made(container', index_ptr', added') /\ wild' = FALSE /\ (b = a \/ b = a + m)
    BY DEF Makes
  <1> HIDE DEF a, b, o
  <1>5. o * most \in Nat /\ (o + 1) * most = o * most + most
    BY <1>1, Products
  <1>6. b <= (o + 1) * most
    BY <1>1, <1>2, <1>3, <1>4, <1>5
  <1>7. ops' \in 0 .. MaxOps
    BY <1>1 DEF o
  <1> QED BY <1>4, <1>6, <1>7 DEF ContainerInv, o, b

LEMMA RoomForMore ==
  ASSUME NEW most, NeverFills(most), ContainerInv(most), loading, NEW m \in Nat, m <= most, ops < MaxOps
  PROVE  Made(container, index_ptr, added) /\ Len(added) + m < CountLimit
  <1> DEFINE o == ops
             a == Len(added)
  <1>1. o \in Nat /\ MaxOps \in Nat /\ most \in Nat /\ o < MaxOps /\ MaxOps * most < CountLimit /\ CountLimit \in Nat
    BY FragmentAssumption, ContainerAssumption DEF ContainerInv, NeverFills
  <1>2. Made(container, index_ptr, added) /\ a <= o * most
    BY DEF ContainerInv
  <1>3. a \in Nat
    BY <1>2, WordsOfHas DEF Made
  <1> HIDE DEF a, o
  <1>4. o * most \in Nat /\ (o + 1) * most = o * most + most /\ (o + 1) * most <= MaxOps * most
    BY <1>1, Products
  <1> DEFINE x == o * most
             y == MaxOps * most
  <1>5. x \in Nat /\ x + most <= y /\ y < CountLimit /\ y \in Int
    BY <1>1, <1>4
  <1> HIDE DEF x, y
  <1>6. a <= x
    BY <1>2 DEF x
  <1>7. a + m < CountLimit
    BY <1>1, <1>3, <1>5, <1>6
  <1> QED BY <1>2, <1>7 DEF a

LEMMA OpenedInv ==
  ASSUME NEW most, NeverFills(most), ContainerInv(most), OpenContainer
  PROVE  ContainerInv(most)'
  <1>1. /\ Made(container', index_ptr', added')
        /\ wild' = wild /\ loading' = TRUE /\ added' = <<>> /\ ops < MaxOps /\ ops' = ops + 1
    BY OpenContainerMakes
  <1>2. ops \in Nat /\ MaxOps \in Nat /\ most \in Nat
    BY FragmentAssumption DEF ContainerInv, NeverFills
  <1>3. ops' * most \in Nat
    <2>1. (ops + 1) * most \in Nat
      BY <1>2
    <2> QED BY <1>1, <2>1
  <1>4. Len(added') <= ops' * most
    BY <1>1, <1>3
  <1>5. ops' \in 0 .. MaxOps
    BY <1>1, <1>2
  <1>6. wild' = FALSE
    BY <1>1 DEF ContainerInv
  <1> QED BY <1>1, <1>4, <1>5, <1>6 DEF ContainerInv

\* A call that has to do with no container.
LEMMA ElsewhereInv ==
  ASSUME NEW most, NeverFills(most), ContainerInv(most), UNCHANGED containerVars,
         UNCHANGED ops \/ Call
  PROVE  ContainerInv(most)'
  <1>1. container' = container /\ loading' = loading /\ index_ptr' = index_ptr /\ wild' = wild /\ added' = added
    BY DEF containerVars
  <1>2. ops \in Nat /\ MaxOps \in Nat /\ most \in Nat
    BY FragmentAssumption DEF ContainerInv, NeverFills
  <1>3. ops' \in 0 .. MaxOps
    BY <1>2 DEF ContainerInv, Call
  <1>4. ASSUME loading PROVE Made(container', index_ptr', added') /\ Len(added') <= ops' * most
    <2>1. Made(container, index_ptr, added) /\ Len(added) <= ops * most
      BY <1>4 DEF ContainerInv
    <2>2. CASE ops' = ops
      BY <1>1, <2>1, <2>2
    <2>3. CASE ops < MaxOps /\ ops' = ops + 1
      <3> DEFINE n == Len(added)
                 x == ops * most
                 y == (ops + 1) * most
      <3>1. x \in Nat /\ y = x + most
        BY <1>2, <2>3, Products
      <3>2. n \in Nat
        BY <2>1, WordsOfHas DEF Made
      <3>3. n <= x /\ y = ops' * most
        BY <2>1, <2>3
      <3> HIDE DEF n, x, y
      <3>4. n <= y
        BY <1>2, <3>1, <3>2, <3>3
      <3> QED BY <1>1, <2>1, <3>3, <3>4 DEF n
    <2> QED BY <2>2, <2>3 DEF Call
  <1>5. ASSUME ~loading PROVE ContainerHolds'
    BY <1>1, <1>5 DEF ContainerInv, ContainerHolds
  <1> QED BY <1>1, <1>3, <1>4, <1>5 DEF ContainerInv

\* Each function of the loader, when it has to do with a loaded container.
LEMMA LoaderInv ==
  ASSUME ~CopyOld, ~EmptyFirst, ~MixedLists, NEW most, NeverFills(most), FragmentInv, ContainerInv(most),
         ContainerNext
  PROVE  ContainerInv(most)'
  <1>1. CASE OpenContainer
    BY <1>1, OpenedInv
  <1>2. ASSUME NEW i \in Slots, NEW allow \in BOOLEAN, AddFragment(i, allow)
        PROVE  ContainerInv(most)'
    <2>1. loading /\ loading' = loading /\ ops < MaxOps /\ ops' = ops + 1
      BY <1>2 DEF AddFragment, Usable, Load, Call
    <2>2. 1 \in Nat /\ 1 <= most
      BY DEF NeverFills
    <2>3. Made(container, index_ptr, added) /\ Len(added) + 1 < CountLimit
      BY <2>1, <2>2, RoomForMore
    <2>4. Makes(1)
      BY <1>2, <2>3, AddFragmentMakes
    <2> QED BY <2>1, <2>2, <2>4, MadeInv
  <1>3. ASSUME NEW list \in Lists, NEW allow \in BOOLEAN, AddFragments(list, allow)
        PROVE  ContainerInv(most)'
    <2>1. loading /\ loading' = loading /\ ops < MaxOps /\ ops' = ops + 1
      BY <1>3 DEF AddFragments, Usable, Load, Call
    <2>2. Len(list) \in Nat /\ Len(list) <= most
      BY ContainerAssumption DEF NeverFills
    <2>3. Made(container, index_ptr, added) /\ Len(added) + Len(list) < CountLimit
      BY <2>1, <2>2, RoomForMore
    <2>4. Makes(Len(list))
      BY <1>3, <2>3, AddFragmentsMakes
    <2> QED BY <2>1, <2>2, <2>4, MadeInv
  <1>4. ASSUME NEW n \in 0 .. MaxPayload, NEW garbage \in Garbage, AppendFragment(n, garbage)
        PROVE  ContainerInv(most)'
    <2>1. loading /\ loading' = loading /\ ops < MaxOps /\ ops' = ops + 1
      BY <1>4 DEF AppendFragment, Usable, Load, Call
    <2>2. 1 \in Nat /\ 1 <= most /\ n \in Nat
      BY DEF NeverFills
    <2>3. Made(container, index_ptr, added) /\ Len(added) + 1 < CountLimit
      BY <2>1, <2>2, RoomForMore
    <2>4. Makes(1)
      BY <1>4, <2>2, <2>3, AppendFragmentMakes
    <2> QED BY <2>1, <2>2, <2>4, MadeInv
  <1>5. ASSUME NEW n \in 0 .. MaxPayload, ResizeLastFragment(n) PROVE ContainerInv(most)'
    <2>1. loading /\ loading' = loading /\ ops < MaxOps /\ ops' = ops + 1
      BY <1>5 DEF ResizeLastFragment, Usable, Load, Call
    <2>2. 0 \in Nat /\ 0 <= most /\ n \in Nat
      BY DEF NeverFills
    <2>3. Made(container, index_ptr, added) /\ Len(added) + 0 < CountLimit
      BY <2>1, <2>2, RoomForMore
    <2>4. Len(added) < CountLimit
      BY <2>3, WordsOfHas DEF Made
    <2>5. Makes(0)
      BY <1>5, <2>2, <2>3, <2>4, ResizeLastMakes
    <2> QED BY <2>1, <2>2, <2>5, MadeInv
  <1>6. ASSUME NEW d \in Data, FillLast(d) PROVE ContainerInv(most)'
    <2>1. loading /\ loading' = loading /\ ops < MaxOps /\ ops' = ops + 1
      BY <1>6 DEF FillLast, Usable, Load, Call
    <2>2. 0 \in Nat /\ 0 <= most
      BY DEF NeverFills
    <2>3. Made(container, index_ptr, added)
      BY <2>1, <2>2, RoomForMore
    <2>4. Makes(0)
      BY <1>6, <2>3, FillLastMakes
    <2> QED BY <2>1, <2>2, <2>4, MadeInv
  <1> QED BY <1>1, <1>2, <1>3, <1>4, <1>5, <1>6 DEF ContainerNext

LEMMA ContainerInvKept ==
  ASSUME ~CopyOld, ~EmptyFirst, ~MixedLists, NEW most, NeverFills(most), FragmentInv, ContainerInv(most), [Next]_vars
  PROVE  ContainerInv(most)'
  <1>1. CASE FragmentNext /\ UNCHANGED containerVars
    <2>1. Call
      BY <1>1 DEF FragmentNext, ResizeFragment, ResizeFragmentFilled, ReadFragment, ClearFragment, ReserveFragment,
                  SetUserType, WritePayload, SetFragmentMetadata, UpdateFragmentMetadata, MakeFragment,
                  CopyFragment, MoveFragment, SwapFragments, Change, FragmentCall
    <2> QED BY <1>1, <2>1, ElsewhereInv
  <1>2. CASE ContainerNext
    BY <1>2, LoaderInv
  <1>3. ASSUME NEW i \in Slots, InsertFragment(i) PROVE ContainerInv(most)'
    BY <1>3, ElsewhereInv DEF InsertFragment
  <1>4. CASE InsertContainer
    <2>1. ops < MaxOps /\ ops' = ops + 1 /\ container' = NoContainer /\ loading' = FALSE /\ wild' = wild
      BY <1>4 DEF InsertContainer, Call
    <2>2. ops' \in 0 .. MaxOps
      BY <2>1, FragmentAssumption DEF ContainerInv
    <2> QED BY <2>1, <2>2 DEF ContainerInv, ContainerHolds
  <1>5. CASE ReleaseProduct \/ \E type : ReleaseType(type)
    BY <1>5, ElsewhereInv DEF ReleaseProduct, ReleaseType
  <1>6. CASE UNCHANGED vars
    BY <1>6, ElsewhereInv DEF vars, containerVars
  <1> QED BY <1>1, <1>2, <1>3, <1>4, <1>5, <1>6 DEF Next

\* The containers stay within what block_count can count.
NeverFull == \E most : NeverFills(most)

LEMMA ContainerAlways ==
  ASSUME ~CopyOld, ~EmptyFirst, ~MixedLists, NEW most, NeverFills(most)
  PROVE  Spec => [](ContainerHolds /\ NothingWild)
  <1>1. Init => FragmentInv /\ ContainerInv(most)
    BY FragmentInitInv, ContainerInitInv
  <1>2. FragmentInv /\ ContainerInv(most) /\ [Next]_vars => FragmentInv' /\ ContainerInv(most)'
    BY FragmentInvKept, ContainerInvKept
  <1>3. ContainerInv(most) => ContainerHolds /\ NothingWild
    BY ContainerInvHolds
  <1> QED BY <1>1, <1>2, <1>3, PTL DEF Spec

\* ContainerHolds: however often the loader grows the container, whichever of
\* its functions throw, and whatever is added, appended, filled or resized, the
\* index finds every fragment that was put in, in order, with its words.  This
\* is for programs that copy no fragment whose upgraded header says what its
\* words do not and swap none that has one, that give addFragments no list it
\* stops in the middle of, and no empty one for a container without fragments,
\* and that make fewer fragments than block_count can count.
THEOREM ContainersHold == ASSUME ~CopyOld, ~EmptyFirst, ~MixedLists, NeverFull PROVE Spec => []ContainerHolds
  <1>1. PICK most : NeverFills(most)
    BY DEF NeverFull
  <1>2. Spec => [](ContainerHolds /\ NothingWild)
    BY <1>1, ContainerAlways
  <1> QED BY <1>2, PTL

\* NothingWild: for the same programs, no function of the loader takes a place
\* or a size from memory that is not the container's or that nobody wrote,
\* although each keeps a pointer into a payload that the next one may move.
THEOREM LoaderNeverWild == ASSUME ~CopyOld, ~EmptyFirst, ~MixedLists, NeverFull PROVE Spec => []NothingWild
  <1>1. PICK most : NeverFills(most)
    BY DEF NeverFull
  <1>2. Spec => [](ContainerHolds /\ NothingWild)
    BY <1>1, ContainerAlways
  <1> QED BY <1>2, PTL

\* EventKeeps, with the containers that the loader makes: for the same
\* programs an event has what was inserted and not asked for, and gives what
\* is asked for, none lost, none twice, in order, the containers among them
\* with the fragments that were put in.
THEOREM EventKeepsAll == ASSUME ~CopyOld, ~EmptyFirst, ~MixedLists, NeverFull PROVE Spec => []EventKeeps
  <1>1. Spec => []ContainerHolds
    BY ContainersHold
  <1>2. Spec /\ []ContainerHolds => []EventKeeps
    BY EventKeepsFragments
  <1> QED BY <1>1, <1>2, PTL
=============================================================================
