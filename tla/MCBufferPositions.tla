-------------------------- MODULE MCBufferPositions --------------------------
(* Instances of BufferPositions for TLC. *)
EXTENDS BufferPositions

CONSTANTS one, two      \* managers
=============================================================================
