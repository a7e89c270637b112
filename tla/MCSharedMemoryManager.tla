------------------------ MODULE MCSharedMemoryManager ------------------------
(* Instances of SharedMemoryManager for TLC. *)
EXTENDS SharedMemoryManagerRefinement

\* MarkBufferFull(buffer): for any reader.
AnyReader == {NoOne}
\* MarkBufferFull(buffer, 2): for the reader whose manager id is 2.
AddressedTo2 == {NoOne, 2}
=============================================================================
