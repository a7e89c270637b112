----------------------------- MODULE BroadcastOrder -----------------------------
(***************************************************************************)
(* The events that the readers of a broadcast segment get, in the order in *)
(* which they get them.  A reader chooses an event by the sequence_id of   *)
(* its buffer, claims the buffer with two compare-exchanges, neither of    *)
(* which looks at the id, and remembers the id it chose by                 *)
(* (last_seen_id_).  If the buffer was emptied and filled again in         *)
(* between, it is given another event than it chose, and does not know it. *)
(*                                                                         *)
(* met is a history variable: what a reader was really given is compared   *)
(* with what it was really given before, whatever last_seen_id_ says.      *)
(***************************************************************************)
EXTENDS SharedMemoryManager

VARIABLE met    \* met[p]: the id of the last event that p was given as chosen

orderVars == <<vars, met>>

\* The event that p is given in this step is the one that it chose.
GetsChosen(p) == \E b \in Buffers : Acquires(p, b) /\ sequence_id[b] = frame[p].seq

OrderInit == Init /\ met = [p \in Managers |-> 0]

OrderNext ==
    /\ Next
    /\ met' = [p \in Managers |-> IF GetsChosen(p) THEN frame[p].seq ELSE met[p]]

OrderSpec == OrderInit /\ [][OrderNext]_orderVars

-----------------------------------------------------------------------------
(* Properties *)

\* Every event that a reader of a broadcast segment is given, also one that took
\* the place of the event it chose, is newer than all the events that it chose
\* and got before: those it meets in order, and never again.
ChosenInOrder ==
    [][\A p \in Readers, b \in Buffers : Acquires(p, b) => sequence_id[b] > met[p]]_orderVars
=============================================================================
