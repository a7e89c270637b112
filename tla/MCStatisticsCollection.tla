------------------------ MODULE MCStatisticsCollection ------------------------
(* Instances of StatisticsCollection for TLC. *)
EXTENDS StatisticsCollection

CONSTANTS a, c, r       \* threads
===============================================================================
