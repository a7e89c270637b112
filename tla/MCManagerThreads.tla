-------------------------- MODULE MCManagerThreads --------------------------
(* Instances of ManagerThreads for TLC. *)
EXTENDS ManagerThreads, TLC

CONSTANTS w1, w2, r1, r2    \* threads

\* One process with two threads that write, one with two that read.
TwoProcesses == [t \in Threads |-> IF t \in {w1, w2} THEN 0 ELSE 1]

\* MarkBufferFull(buffer): for any reader.
AnyReader == {NoOne}

\* The threads of a process that do the same.
Twins == Permutations({w1, w2}) \cup Permutations({r1, r2})
=============================================================================
