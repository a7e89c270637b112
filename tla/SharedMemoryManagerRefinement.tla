-------------------- MODULE SharedMemoryManagerRefinement --------------------
(***************************************************************************)
(* SharedMemoryManager as an implementation of BufferPool.  The state of a *)
(* buffer is sem; the owner that sem_id names counts as its holder only    *)
(* while sem is Writing or Reading, for sem_id is claimed before sem on    *)
(* the way in and cleared after it on the way out.                         *)
(***************************************************************************)
EXTENDS SharedMemoryManager

holder == [b \in Buffers |-> IF sem[b] \in {"Writing", "Reading"} THEN sem_id[b] ELSE NoOne]

Pool == INSTANCE BufferPool WITH state <- sem, holder <- holder

\* Every step of the dual semaphore protocol is one atomic move of one buffer by
\* its holder, or invisible: two processes never race for a buffer and both win.
PoolSpec == Pool!Spec
===============================================================================
