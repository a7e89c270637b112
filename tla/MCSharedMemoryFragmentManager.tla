--------------------- MODULE MCSharedMemoryFragmentManager ---------------------
(* Instances of SharedMemoryFragmentManager for TLC. *)
EXTENDS SharedMemoryFragmentManager

CONSTANTS receiver, one, two       \* managers: the receiver owns the segment
=============================================================================
