------------------------------- MODULE Utilities -------------------------------
(***************************************************************************)
(* A process that sets its log up and then handles exceptions:             *)
(* configureMessageFacility starts the message facility, which constructs  *)
(* the GenFile destination (GenFile) and opens the file; the threads that  *)
(* come after it throw, and print the traces of what they catch to the log *)
(* (ExceptionStackTrace).                                                  *)
(***************************************************************************)
EXTENDS GenFile, ExceptionStackTrace

VARIABLE output_        \* the destination has its file

vars == <<nameVars, traceVars, output_>>

Init == NameInit /\ TraceInit /\ output_ = FALSE

\* One turn of the constructor's loop.
Construct ==
    /\ ~output_
    /\ NameNext
    /\ UNCHANGED <<traceVars, output_>>

\* The end of the constructor: the file is opened, and the locals are gone.
Open ==
    /\ ~output_
    /\ Done
    /\ output_' = TRUE
    /\ tokens' = <<>> /\ lead' = 0 /\ filePattern' = <<>> /\ pos' = 0
    /\ printed_as' = [letter \in Letters |-> <<>>]
    /\ UNCHANGED traceVars

Handled(A) == output_ /\ A /\ UNCHANGED <<nameVars, output_>>

Next == Construct \/ Open \/ \E t \in Threads : Handled(TraceStep(t))

Spec == Init /\ [][Next]_vars

\* The constructor runs; a thread in __cxa_throw or in print_stacktrace goes on; a
\* mutex is given in the end to a thread that waits while it is free again and
\* again.
Fairness ==
    /\ WF_vars(Construct \/ Open)
    /\ \A t \in Threads :
        SF_vars(Handled(Catch(t))) /\ WF_vars(Handled(PrintStacktrace(t)))

FairSpec == Spec /\ Fairness

-----------------------------------------------------------------------------
(* Properties *)

\* "Supported parameters are: ...  Format is parsed left-to-right.": the file that
\* is opened has the name that the documentation gives for the pattern, though
\* the loop goes back over the text it has written, and searches what is still
\* to come.  Not so with %%, or where another printed '%' is found again; not
\* where pos wraps in front of the pattern, and not where an optional name is
\* spelled out further on.
NameAsDocumented ==
    [][Open => \/ filePattern = Documented
               \/ Contains(tokens, "%%") \/ ~PlainTexts
               \/ InFront
               \/ NamedAhead]_vars

\* The loop ends for every pattern if nothing that is printed has a '%' in it,
\* also where pos wraps, and the process has its log.
LogOpens == PlainTexts => <>output_
=============================================================================
