------------------------------ MODULE BufferPool ------------------------------
(***************************************************************************)
(* What the users of a shared memory segment may rely on: a buffer goes    *)
(* round Empty, Writing, Full, Reading, in steps that are atomic, and      *)
(* while it is Writing or Reading it has one holder, who alone decides     *)
(* what becomes of it.  SharedMemoryManager does this with two atomics per *)
(* buffer and no lock.                                                     *)
(***************************************************************************)
EXTENDS Integers

CONSTANTS Buffers, Managers, NoOne, Destructive, Forcers

VARIABLES state, holder

vars == <<state, holder>>

Init ==
    /\ state = [b \in Buffers |-> "Empty"]
    /\ holder = [b \in Buffers |-> NoOne]

Becomes(b, s, p) ==
    /\ state' = [state EXCEPT ![b] = s]
    /\ holder' = [holder EXCEPT ![b] = p]

\* GetBufferForWriting
Fill(p, b) == state[b] = "Empty" /\ Becomes(b, "Writing", p)

\* MarkBufferFull
Publish(p, b) == state[b] = "Writing" /\ holder[b] = p /\ Becomes(b, "Full", NoOne)

\* GetBufferForReading
Take(p, b) == state[b] = "Full" /\ Becomes(b, "Reading", p)

\* MarkBufferEmpty: in broadcast mode the buffer stays for the other readers.
Finish(p, b) ==
    /\ state[b] = "Reading" /\ holder[b] = p
    /\ Becomes(b, IF Destructive THEN "Empty" ELSE "Full", NoOne)

\* MarkBufferEmpty with force
Discard(p, b) ==
    /\ p \in Forcers /\ holder[b] = p
    /\ Becomes(b, "Empty", NoOne)

\* Detach: what was being written is dropped, what was being read is kept.
Abandon(p, b) ==
    /\ holder[b] = p
    /\ Becomes(b, IF state[b] = "Writing" THEN "Empty" ELSE "Full", NoOne)

Next == \E p \in Managers, b \in Buffers :
    \/ Fill(p, b) \/ Publish(p, b) \/ Take(p, b)
    \/ Finish(p, b) \/ Discard(p, b) \/ Abandon(p, b)

Spec == Init /\ [][Next]_vars
===============================================================================
