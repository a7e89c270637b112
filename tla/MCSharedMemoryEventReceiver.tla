---------------------- MODULE MCSharedMemoryEventReceiver ----------------------
(* Instances of SharedMemoryEventReceiver for TLC. *)
EXTENDS SharedMemoryEventReceiver

CONSTANTS p, q      \* receivers

\* One buffer for data, which is used again, and one for each broadcast.
FewBuffers == [data |-> {1}, broadcasts |-> {1, 2}]
OneAndTwo == [data |-> 1, broadcasts |-> 2]
=============================================================================
