------------------------------ MODULE MCUtilities ------------------------------
(* Instances of Utilities for TLC. *)
EXTENDS Utilities

CONSTANTS
    main, worker,       \* threads
    range, logic        \* types of exceptions

\* A program "a.out" and one with a directive in its name; a time, and what
\* strftime makes of "%%p".
TwoPrograms == {<<"e">>, <<"%", "N">>}
TwoTimes == {<<"2">>, <<"%", "p">>}
=============================================================================
