-------------------------- MODULE MCReaderRoundRobin --------------------------
(* Instances of ReaderRoundRobin for TLC. *)
EXTENDS ReaderRoundRobin

CONSTANTS one, two      \* readers
=============================================================================
