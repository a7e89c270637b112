-------------------------- MODULE StatisticsCollection --------------------------
(***************************************************************************)
(* artdaq::StatisticsCollection: a thread that calculates the statistics   *)
(* of the quantities in a map once per interval, and clients that add      *)
(* quantities, reset all of them and ask the thread to stop.  The calls on *)
(* the quantities are made under map_mutex_.  The quantities share nothing *)
(* but that mutex: one of them is modelled.  It may also be Alone, in no   *)
(* collection, its clients calling it directly and from any thread.        *)
(***************************************************************************)
EXTENDS MonitoredQuantity

CONSTANTS
    Collector       \* calculation_thread_

ASSUME CollectorAssumption ==
    Collector \in Calculators \ (Adders \cup Resetters \cup Switchers \cup Windowers)

VARIABLES
    map_mutex_,             \* the thread that holds it, or NoThread
    registered,             \* the quantity is in monitoredQuantityMap_
    thread_stop_requested_,
    running,                \* where run() is, "none" without a collection
    destroyed               \* the destructor has returned

collection == <<map_mutex_, registered, thread_stop_requested_, running, destroyed>>
allVars == <<vars, collection>>

CollectionInit ==
    /\ Init
    /\ map_mutex_ = NoThread
    /\ registered = FALSE
    /\ thread_stop_requested_ = FALSE
    /\ running \in {"none", "test"}
    /\ destroyed = FALSE

\* The quantity is in no collection.
Alone == running = "none"

-----------------------------------------------------------------------------
(* run *)

StopIgnored == FALSE        \* a mutant of StopSeen
StopSeen == thread_stop_requested_

TestStop ==
    /\ running = "test"
    /\ running' = IF StopSeen THEN "ended" ELSE "sleep"
    /\ UNCHANGED <<vars, map_mutex_, registered, thread_stop_requested_, destroyed>>

Unguarded == TRUE           \* a mutant of MapFree: the lock_guard is missing
MapFree == map_mutex_ = NoThread

LockMap ==
    /\ running = "sleep"
    /\ MapFree
    /\ map_mutex_' = Collector
    /\ running' = IF registered THEN "calculate" ELSE "unlock"
    /\ UNCHANGED <<vars, registered, thread_stop_requested_, destroyed>>

\* calculateStatistics of a disabled quantity returns at once.
CalculateQuantity ==
    /\ running = "calculate"
    /\ IF enabled THEN calculateStatistics(Collector) ELSE UNCHANGED vars
    /\ running' = "unlock"
    /\ UNCHANGED <<map_mutex_, registered, thread_stop_requested_, destroyed>>

UnlockMap ==
    /\ running = "unlock"
    /\ Idle(Collector)
    /\ map_mutex_' = NoThread
    /\ running' = "test"
    /\ UNCHANGED <<vars, registered, thread_stop_requested_, destroyed>>

-----------------------------------------------------------------------------
(* The clients *)

addMonitoredQuantity ==
    /\ ~Alone /\ MapFree
    /\ registered' = TRUE
    /\ UNCHANGED <<vars, map_mutex_, thread_stop_requested_, running, destroyed>>

ResetCollection(t) ==
    /\ t \in Resetters
    /\ MapFree
    /\ registered
    /\ map_mutex_' = t
    /\ reset(t)
    /\ UNCHANGED <<registered, thread_stop_requested_, running, destroyed>>

ResetCollectionEnd(t) ==
    /\ t \in Resetters
    /\ map_mutex_ = t
    /\ Idle(t)
    /\ map_mutex_' = NoThread
    /\ UNCHANGED <<vars, registered, thread_stop_requested_, running, destroyed>>

\* requestStop, which is also the first step of the destructor.
requestStop ==
    /\ ~Alone
    /\ thread_stop_requested_' = TRUE
    /\ UNCHANGED <<vars, map_mutex_, registered, running, destroyed>>

\* The destructor joins the thread.
Join ==
    /\ thread_stop_requested_
    /\ running = "ended"
    /\ destroyed' = TRUE
    /\ UNCHANGED <<vars, map_mutex_, registered, thread_stop_requested_, running>>

-----------------------------------------------------------------------------
Run == TestStop \/ LockMap \/ CalculateQuantity \/ UnlockMap

CollectionStep(t) == (Step(t) /\ UNCHANGED collection) \/ ResetCollectionEnd(t)

CollectionNext ==
    \/ Run
    \/ addMonitoredQuantity \/ requestStop \/ Join
    \/ \E t \in Threads : CollectionStep(t) \/ ResetCollection(t)
    \/ (Tick \/ \E t \in Threads : addSample(t)) /\ UNCHANGED collection
    \/ Alone /\ Next /\ UNCHANGED collection

\* Threads go on with their calls, time passes, and a mutex that is given back
\* again and again is got in the end.
CollectionFairness ==
    /\ WF_allVars(Run) /\ SF_allVars(LockMap)
    /\ WF_allVars(Tick /\ UNCHANGED collection)
    /\ WF_allVars(Join)
    /\ \A t \in Threads : WF_allVars(CollectionStep(t))

CollectionSpec == CollectionInit /\ [][CollectionNext]_allVars /\ CollectionFairness

-----------------------------------------------------------------------------
(* Properties *)

\* A sample is in the published results in the end, unless the collection is
\* reset or stopped first.  (The clock has to go on: MaxTime bounds it.)
SampleCounted ==
    \A s \in 1 .. MaxSamples :
        s \in working /\ registered /\ now < MaxTime
            ~> s \in full \/ s \in forgotten \/ thread_stop_requested_

\* The collection keeps resets and calculations apart: no results from before a
\* reset are published after it.
CollectedFresh == ~Alone => FreshStart
\* So do the times: no calculation in a collection meets a reset between its test
\* of the last calculation time and its use, and the end times go forwards.
CollectedInOrder == ~Alone => DurationsReal /\ EndTimesInOrder

\* "Stops the statistics calculation thread": the thread ends and the join of
\* the destructor with it, whatever the thread is waiting for.
StopsOnRequest == thread_stop_requested_ ~> destroyed
=================================================================================
