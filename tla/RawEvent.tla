------------------------------ MODULE RawEvent ------------------------------
(* Data/RawEvent.hh: the fragments of an event, inserted one by one by the *)
(* program that builds it and released to the one that stores it.          *)
EXTENDS ContainerFragmentLoader

VARIABLES
    fragments,  \* the list of an event
    result,     \* the fragments that releaseProduct returned
    kept,       \* what was inserted and not yet asked for
    given       \* what was asked for

vars == <<frag, want, ops, container, loading, index_ptr, wild, added,
          fragments, result, kept, given>>

-----------------------------------------------------------------------------
Type(f) == Header(f).type

\* Mutant of Released: the iterator moves on after erase(), too.
ReleasedSkipping(s, type) ==
    IF s.iter > Len(s.left) THEN s
    ELSE IF Type(s.left[s.iter]) = type
    THEN [left |-> RemoveAt(s.left, s.iter), iter |-> s.iter + 1, out |-> Append(s.out, s.left[s.iter])]
    ELSE [s EXCEPT !.iter = @ + 1]

\* The loop of releaseProduct(type), an iteration: erase() returns the
\* iterator to the next fragment.
Released(s, type) ==
    IF s.iter > Len(s.left) THEN s
    ELSE IF Type(s.left[s.iter]) = type
    THEN [s EXCEPT !.out = Append(@, s.left[s.iter]), !.left = RemoveAt(@, s.iter)]
    ELSE [s EXCEPT !.iter = @ + 1]

ReleaseLoop(list, type) ==
    LET loop[k \in 0 .. Len(list)] ==
            IF k = 0 THEN [left |-> list, iter |-> 1, out |-> <<>>]
            ELSE Released(loop[k - 1], type)
    IN  loop[Len(list)]

\* The promises of one type and the others, each in their order.
ByType(promises, type) ==
    LET split[k \in 0 .. Len(promises)] ==
            IF k = 0 THEN [asked |-> <<>>, other |-> <<>>]
            ELSE IF promises[k].value.type = type
            THEN [split[k - 1] EXCEPT !.asked = Append(@, promises[k])]
            ELSE [split[k - 1] EXCEPT !.other = Append(@, promises[k])]
    IN  split[Len(promises)]

Init ==
    /\ FragmentInit
    /\ ContainerInit
    /\ fragments = <<>>
    /\ result = <<>>
    /\ kept = <<>>
    /\ given = <<>>

\* insertFragment(std::move(pfrag)), where pfrag was moved from a slot.
InsertFragment(i) ==
    /\ Call
    /\ Held(i)
    /\ fragments' = Append(fragments, frag[i])
    /\ kept' = Append(kept, [value |-> want[i], contained |-> <<>>])
    /\ frag' = [frag EXCEPT ![i] = Plundered(@)]
    /\ want' = [want EXCEPT ![i] = NoValue]
    /\ UNCHANGED <<containerVars, result, given>>

ContainerValue == [NoValue EXCEPT !.type = "Container"]

InsertContainer ==
    /\ Call
    /\ container # NoContainer
    /\ ~wild
    /\ fragments' = Append(fragments, container)
    /\ kept' = Append(kept, [value |-> ContainerValue, contained |-> added])
    /\ container' = NoContainer
    /\ added' = <<>>
    /\ loading' = FALSE
    /\ index_ptr' = NullPtr
    /\ UNCHANGED <<frag, want, wild, result, given>>

ReleaseProduct ==
    /\ Call
    /\ result' = result \o fragments
    /\ fragments' = <<>>
    /\ given' = given \o kept
    /\ kept' = <<>>
    /\ UNCHANGED <<frag, want, containerVars>>

\* Its loop tests the first fragment before it tests that there is one.  It
\* asks each for its type().
ReleaseType(type) ==
    LET asked    == [k \in DOMAIN fragments |-> Accessed(fragments[k])]
        released == ReleaseLoop(asked, type)
    IN  /\ Call
        /\ fragments # <<>>
        /\ result' = result \o released.out
        /\ fragments' = released.left
        /\ given' = given \o ByType(kept, type).asked
        /\ kept' = ByType(kept, type).other
        /\ UNCHANGED <<frag, want, containerVars>>

Next ==
    \/ FragmentNext /\ UNCHANGED <<containerVars, fragments, result, kept, given>>
    \/ ContainerNext /\ UNCHANGED <<fragments, result, kept, given>>
    \/ \E i \in Slots : InsertFragment(i)
    \/ InsertContainer
    \/ ReleaseProduct
    \/ \E type \in UserTypes \cup {"Container"} : ReleaseType(type)

Spec == Init /\ [][Next]_vars

-----------------------------------------------------------------------------
(* Properties.                                                             *)

\* A fragment is the one that was promised.
Matches(f, promise) ==
    IF promise.value = ContainerValue
    THEN Type(f) = "Container" /\ ReadsAs(f, promise.contained)
    ELSE WellFormed(f) /\ Agrees(Value(f), promise.value)

AllMatch(list, promises) ==
    /\ Len(list) = Len(promises)
    /\ \A k \in DOMAIN list : Matches(list[k], promises[k])

\* The event has what was inserted and not asked for, and what was asked for
\* was returned: none lost, none twice, in order, each with its contents.
EventKeeps == AllMatch(fragments, kept) /\ AllMatch(result, given)
=============================================================================
