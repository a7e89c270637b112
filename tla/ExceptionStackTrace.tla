--------------------------- MODULE ExceptionStackTrace ---------------------------
(***************************************************************************)
(* The stack traces of exceptions: __cxa_throw is replaced by one that     *)
(* collects a trace under the thread's id, and ExceptionHandler prints the *)
(* trace that is under the id of the thread that handles.  The threads     *)
(* throw, throw and catch inside their handlers, hand exceptions to other  *)
(* threads (std::current_exception and std::rethrow_exception, as a future *)
(* does) and handle them.  This is the build with USE_EXCEPTIONSTACKTRACE. *)
(*                                                                         *)
(* A throw from a library goes through the same __cxa_throw.  A thread     *)
(* that locks the mutex it holds waits for ever.                           *)
(***************************************************************************)
CONSTANTS
    Threads,
    Types,          \* the types of exceptions
    None,           \* no exception, no trace, nobody
    HasThrown       \* the threads that have thrown something before

ASSUME ThreadsAssumption == None \notin Threads /\ None \notin Types /\ HasThrown \subseteq Threads

VARIABLES
    stack_traces_, stack_traces_mutex_,
    pc,
    caught,         \* the exception that the thread handles
    thrown,         \* the one on its way through __cxa_throw
    handed,         \* the one that is handed to another thread
    printed         \* the type in the message of print_stacktrace

traceVars == <<stack_traces_, stack_traces_mutex_, pc, caught, thrown, handed, printed>>

TraceInit ==
    /\ \E e \in Types : stack_traces_ = [t \in Threads |-> IF t \in HasThrown THEN e ELSE None]
    /\ stack_traces_mutex_ = None
    /\ pc = [t \in Threads |-> "run"]
    /\ caught = [t \in Threads |-> None]
    /\ thrown = [t \in Threads |-> None]
    /\ handed = None
    /\ printed = [t \in Threads |-> None]

Goes(t, label) == pc' = [pc EXCEPT ![t] = label]

-----------------------------------------------------------------------------
(* __cxa_throw *)

\* The library's std::out_of_range is one of the types.
CallThrow(t, e, label) ==
    /\ Goes(t, label)
    /\ thrown' = [thrown EXCEPT ![t] = e]

Throw(t) ==
    /\ pc[t] = "run"
    /\ \E e \in Types : CallThrow(t, e, "throw")
    /\ UNCHANGED <<stack_traces_, stack_traces_mutex_, caught, handed, printed>>

\* What the handler calls throws, and catches.
ThrowInHandler(t) ==
    /\ pc[t] = "handle"
    /\ \E e \in Types : CallThrow(t, e, "nested")
    /\ UNCHANGED <<stack_traces_, stack_traces_mutex_, caught, handed, printed>>

Insert(t) == stack_traces_' = [stack_traces_ EXCEPT ![t] = thrown[t]]

\* A mutant of Collect: the exception leaves with the lock.
CollectKeeps(t) ==
    /\ stack_traces_mutex_ = None
    /\ stack_traces_mutex_' = t
    /\ Insert(t)
\* collect_stacktrace: the lock, the insertion, the end of the lock.
Collect(t) ==
    /\ stack_traces_mutex_ = None
    /\ UNCHANGED stack_traces_mutex_
    /\ Insert(t)

Catch(t) ==
    /\ pc[t] \in {"throw", "nested", "missing"}
    /\ Collect(t)
    /\ Goes(t, IF pc[t] = "missing" THEN "printed" ELSE "handle")
    /\ caught' = IF pc[t] = "throw" THEN [caught EXCEPT ![t] = thrown[t]] ELSE caught
    /\ thrown' = [thrown EXCEPT ![t] = None]
    /\ UNCHANGED <<handed, printed>>

-----------------------------------------------------------------------------
(* Exceptions that change threads: neither side calls __cxa_throw *)

HandOver(t) ==
    /\ pc[t] = "handle"
    /\ handed' = caught[t]
    /\ caught' = [caught EXCEPT ![t] = None]
    /\ Goes(t, "run")
    /\ UNCHANGED <<stack_traces_, stack_traces_mutex_, thrown, printed>>

TakeOver(t) ==
    /\ pc[t] = "run" /\ handed # None
    /\ caught' = [caught EXCEPT ![t] = handed]
    /\ handed' = None
    /\ Goes(t, "handle")
    /\ UNCHANGED <<stack_traces_, stack_traces_mutex_, thrown, printed>>

-----------------------------------------------------------------------------
(* ExceptionHandler *)

Unlocked(t) == IF stack_traces_mutex_ = t THEN None ELSE stack_traces_mutex_

LockForPrint(t) ==
    /\ pc[t] = "handle"
    /\ stack_traces_mutex_ = None
    /\ stack_traces_mutex_' = t
    /\ Goes(t, "print")
    /\ UNCHANGED <<stack_traces_, caught, thrown, handed, printed>>

\* If there is no trace, at() throws; what catches that is outside of the lock.  A trace
\* stays in the map: a handler further up prints it again.
PrintStacktrace(t) ==
    /\ pc[t] = "print"
    /\ IF stack_traces_[t] # None
       THEN /\ printed' = [printed EXCEPT ![t] = stack_traces_[t]]
            /\ stack_traces_mutex_' = Unlocked(t)
            /\ Goes(t, "printed")
            /\ UNCHANGED thrown
       ELSE /\ \E e \in Types : CallThrow(t, e, "missing")
            /\ UNCHANGED <<stack_traces_mutex_, printed>>
    /\ UNCHANGED <<stack_traces_, caught, handed>>

\* The exception is dropped, or thrown again (__cxa_rethrow) to the next handler.
EndHandler(t) ==
    /\ pc[t] = "printed"
    /\ printed' = [printed EXCEPT ![t] = None]
    /\ \/ caught' = [caught EXCEPT ![t] = None] /\ Goes(t, "run")
       \/ UNCHANGED caught /\ Goes(t, "handle")
    /\ UNCHANGED <<stack_traces_, stack_traces_mutex_, thrown, handed>>

-----------------------------------------------------------------------------
\* The steps of one thread.
TraceStep(t) ==
    \/ Throw(t) \/ ThrowInHandler(t) \/ Catch(t) \/ HandOver(t) \/ TakeOver(t)
    \/ LockForPrint(t) \/ PrintStacktrace(t) \/ EndHandler(t)

-----------------------------------------------------------------------------
(* Properties *)

\* The types, and who holds the mutex: nobody but a thread that prints.
TypeOK ==
    /\ stack_traces_ \in [Threads -> Types \cup {None}]
    /\ stack_traces_mutex_ \in Threads \cup {None}
    /\ pc \in [Threads -> {"run", "throw", "nested", "handle", "print", "missing", "printed"}]
    /\ caught \in [Threads -> Types \cup {None}]
    /\ thrown \in [Threads -> Types \cup {None}]
    /\ handed \in Types \cup {None}
    /\ printed \in [Threads -> Types \cup {None}]
    /\ \A t \in Threads : stack_traces_mutex_ = t <=> pc[t] \in {"print", "missing"}

\* "Overloads _cxa_throw and captures stack frames": what is thrown still gets to
\* its handler, no thread waits for ever in __cxa_throw for one that prints.
\* (It holds if every thread has thrown before it prints what another one threw:
\* else at() throws with the mutex held, and __cxa_throw waits for it.)
ThrowsArrive == \A t \in Threads : (pc[t] \in {"throw", "nested"}) ~> (pc[t] = "handle")
=============================================================================
