------------------------------ MODULE QuickVec ------------------------------
(* Core/QuickVec.hh: an array of words that grows and does not initialize. *)
(*                                                                         *)
(* A QuickVec is a record: "mem" is the block data_ points to, one entry   *)
(* per allocated word; "block" tells one allocation of this array from the *)
(* next, so that pointers into a block that was freed can be recognized.   *)
(* A QuickVec that was moved from keeps its size_ and capacity_ and has a  *)
(* null data_: an empty "mem".                                             *)
EXTENDS Integers, Sequences, FiniteSetsExt

CONSTANTS
    Junk,        \* what a word holds that nothing has written
    GrowthSteps  \* the capacities resizeWithCushion steps through

ASSUME GrowthAssumption == GrowthSteps \subseteq Nat

\* QV_MEMALIGN(n words), then memcpy of the first k words of mem.
Allocate(n, mem, k) == [w \in 1 .. n |-> IF w <= k THEN mem[w] ELSE Junk]

\* QuickVec(sz)
NewVec(n) == [size |-> n, capacity |-> n, mem |-> Allocate(n, <<>>, 0), block |-> 1]

Reserve(v, n) ==
    IF n > v.capacity
    THEN [v EXCEPT !.mem = Allocate(n, v.mem, v.size), !.capacity = n, !.block = @ + 1]
    ELSE v

\* resize(size): words that come in are whatever the block holds.
Resize(v, n) == [Reserve(v, n) EXCEPT !.size = n]

\* resize(size, val): old_size is taken from the argument, so the loop that
\* would write val is never entered.
ResizeFilled(v, n, val) ==
    LET old_size == n
        r        == Resize(v, n)
    IN  [r EXCEPT !.mem = [w \in DOMAIN @ |->
            IF n > old_size /\ w \in old_size + 1 .. n THEN val ELSE @[w]]]

\* The capacity resizeWithCushion reserves: capacity_ * 1.3 rounded, at least
\* the size asked for, then up to the next of the steps.
Cushioned(capacity, n) ==
    LET scaled == (13 * capacity + 5) \div 10
        wanted == IF scaled < n THEN n ELSE scaled
        above  == {step \in GrowthSteps : wanted < step}
    IN  IF above = {} THEN wanted ELSE Min(above)

ResizeWithCushion(v, n) ==
    Resize(IF n > v.capacity THEN Reserve(v, Cushioned(v.capacity, n)) ELSE v, n)

\* Mutant of Insert: what follows is copied forwards, over itself.
InsertForwards(v, offset, nn, val) ==
    LET r == Reserve(v, v.size + nn)
    IN  [r EXCEPT
            !.size = @ + nn,
            !.mem  = [w \in DOMAIN @ |->
                CASE w <= offset \/ w > v.size + nn -> @[w]
                  [] w \in offset + 1 .. offset + nn -> val
                  [] OTHER -> @[offset + 1 + ((w - offset - 1) % nn)]]]

\* insert(begin() + offset, nn, val)
Insert(v, offset, nn, val) ==
    LET r == Reserve(v, v.size + nn)
    IN  [r EXCEPT
            !.size = @ + nn,
            !.mem  = [w \in DOMAIN @ |->
                CASE w <= offset \/ w > v.size + nn -> @[w]
                  [] w \in offset + 1 .. offset + nn -> val
                  [] OTHER -> @[w - nn]]]

\* erase(begin() + first, begin() + last)
Erase(v, first, last) ==
    [v EXCEPT
        !.size = @ - (last - first),
        !.mem  = [w \in DOMAIN @ |->
            IF w \in first + 1 .. v.size - (last - first) THEN @[w + last - first] ELSE @[w]]]

\* push_back(val): "adds 10% capacity".
PushBack(v, val) ==
    LET r == IF v.size = v.capacity THEN Reserve(v, v.size + v.size \div 10 + 1) ELSE v
    IN  [r EXCEPT !.mem[v.size + 1] = val, !.size = @ + 1]

\* One push_back after the other.
PushAll(v, vals) ==
    LET pushed[k \in 0 .. Len(vals)] == IF k = 0 THEN v ELSE PushBack(pushed[k - 1], vals[k])
    IN  pushed[Len(vals)]

\* QuickVec(const QuickVec&): the same capacity, a block of its own.
CopyVec(v) == [v EXCEPT !.mem = Allocate(v.capacity, @, v.size), !.block = 1]

\* operator=(const QuickVec&): resize, then memcpy into what is there.
AssignVec(v, other) ==
    [Resize(v, other.size) EXCEPT !.mem = [w \in DOMAIN @ |->
        IF w <= other.size THEN other.mem[w] ELSE @[w]]]

\* What a move leaves behind; the target has what v had.
MovedVec(v) == [v EXCEPT !.mem = <<>>]
=============================================================================
