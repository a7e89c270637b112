--------------------------- MODULE MonitoredQuantity ---------------------------
(***************************************************************************)
(* artdaq::MonitoredQuantity: some threads add samples, some calculate the *)
(* statistics, some reset, enable, disable or change the recent window.    *)
(* calculateStatistics takes the working values under one mutex and adds   *)
(* them to the results under another; in between they are in its locals.   *)
(*                                                                         *)
(* A sample is a number, its rank among the samples added.  The counts,    *)
(* sums and extremes that the code accumulates are all functions of the    *)
(* set of samples accumulated, so each accumulator is that set (SampleOnce *)
(* says that no sample is accumulated twice).                              *)
(*                                                                         *)
(* A critical section is one action, but for the second one of             *)
(* calculateStatistics: it reads the atomic time of the last calculation   *)
(* twice, which the other mutex guards, and is two actions.                *)
(***************************************************************************)
EXTENDS Integers, Sequences, FiniteSets

CONSTANTS
    Threads,
    Adders,         \* the threads that call addSample
    Calculators,    \* the threads that call calculateStatistics
    Resetters,      \* the threads that call reset
    Switchers,      \* the threads that call enable and disable
    Windowers,      \* the threads that call setNewTimeWindowForRecentResults
    NoThread,       \* nobody holds a mutex
    BinCounts,      \* the values of _binCount: at least one bin
    Interval,       \* _expectedCalculationInterval
    StartTime,      \* the clock, which counts from the epoch, at the start
    MaxTime,        \* bound: the clock stops here
    MaxSamples      \* bound: the samples added

ASSUME ThreadsAssumption ==
    /\ Adders \subseteq Threads /\ Calculators \subseteq Threads
    /\ Resetters \subseteq Threads /\ Switchers \subseteq Threads
    /\ Windowers \subseteq Threads
    /\ NoThread \notin Threads
ASSUME BinsAssumption == BinCounts \subseteq Nat \ {0} /\ BinCounts # {}
ASSUME TimeAssumption ==
    StartTime \in Nat \ {0} /\ MaxTime \in Nat /\ StartTime <= MaxTime /\ Interval \in Nat \ {0}
ASSUME SamplesAssumption == MaxSamples \in Nat

VARIABLES
    now,                    \* gettimeofday
    enabled,
    latchTime,              \* _lastCalculationTime, 0 when there is none
    working,                \* the working count, sum, minimum and so on
    workingLast,            \* _workingLastSampleValue
    binCount, workingBinId,
    bins,                   \* the recentBinned and _bin vectors
    full, fullDuration,     \* the full results
    recent,                 \* the recent results
    lastSampleValue,
    lastCalculationTime,    \* nothing sets it before the first calculation
    resultsMutex,           \* the thread that holds _resultsMutex
    calls,                  \* per thread: the call it is in, and its locals
    added,                  \* history: how many samples were accumulated
    published,              \* history: the bins filled since the last reset
    forgotten               \* history: the samples added before a finished reset

accumulators == <<latchTime, working, workingLast>>
results == <<binCount, workingBinId, bins, full, fullDuration, recent,
             lastSampleValue, lastCalculationTime, published>>
vars == <<now, enabled, latchTime, working, workingLast,
          binCount, workingBinId, bins, full, fullDuration, recent,
          lastSampleValue, lastCalculationTime, published,
          resultsMutex, calls, added, forgotten>>

EmptyBin == [samples |-> {}, duration |-> 0, endTime |-> 0]
IdleCall == [pc |-> "idle", time |-> 0, samples |-> {}, duration |-> 0, last |-> 0,
             enabling |-> FALSE, seen |-> 0]

Init ==
    /\ now = StartTime
    /\ enabled = TRUE
    /\ latchTime = 0 /\ working = {} /\ workingLast = 0
    /\ binCount \in BinCounts
    /\ workingBinId = 0
    /\ bins = [i \in 0 .. (binCount - 1) |-> EmptyBin]
    /\ full = {} /\ fullDuration = 0 /\ recent = {}
    /\ lastSampleValue = 0
    /\ lastCalculationTime \in {0, MaxTime}
    /\ resultsMutex = NoThread
    /\ calls = [t \in Threads |-> IdleCall]
    /\ added = 0 /\ published = <<>> /\ forgotten = {}

At(t, point) == calls[t].pc = point
Idle(t) == At(t, "idle")
Goto(t, point) == calls' = [calls EXCEPT ![t].pc = point]
Begin(t, call) == calls' = [calls EXCEPT ![t] = call]
Return(t) == Begin(t, IdleCall)

-----------------------------------------------------------------------------
(* addSample *)

addSample(t) ==
    /\ t \in Adders /\ Idle(t)
    /\ enabled
    /\ added + Cardinality({u \in Threads : At(u, "add")}) < MaxSamples
    /\ Begin(t, [IdleCall EXCEPT !.pc = "add"])
    /\ UNCHANGED <<now, enabled, accumulators, results, resultsMutex, added, forgotten>>

\* The first sample after a reset starts the interval.
NotStarted == latchTime     \* a mutant
Started == IF latchTime <= 0 THEN now ELSE latchTime

Accumulate(t) ==
    /\ At(t, "add")
    /\ added' = added + 1
    /\ latchTime' = Started
    /\ working' = working \cup {added'}
    /\ workingLast' = added'
    /\ Return(t)
    /\ UNCHANGED <<now, enabled, results, resultsMutex, forgotten>>

-----------------------------------------------------------------------------
(* calculateStatistics *)

\* The argument currentTime defaults to the time of the call.
calculateStatistics(t) ==
    /\ Idle(t)
    /\ enabled
    /\ Begin(t, [IdleCall EXCEPT !.pc = "check", !.time = now])
    /\ UNCHANGED <<now, enabled, accumulators, results, resultsMutex, added, forgotten>>

CheckInterval(t) ==
    /\ At(t, "check")
    /\ IF latchTime > 0 /\ calls[t].time - latchTime >= Interval
       THEN Goto(t, "latch") ELSE Return(t)
    /\ UNCHANGED <<now, enabled, accumulators, results, resultsMutex, added, forgotten>>

Kept(s) == s            \* a mutant of Taken: the working values are not reset
Taken(s) == {}

Latch(t) ==
    /\ At(t, "latch")
    /\ Begin(t, [calls[t] EXCEPT !.pc = "publish", !.samples = working,
                                 !.duration = calls[t].time - latchTime,
                                 !.last = workingLast])
    /\ latchTime' = calls[t].time
    /\ working' = Taken(working)
    /\ UNCHANGED <<now, enabled, workingLast, results, resultsMutex, added, forgotten>>

PublishTime(t) ==
    /\ At(t, "publish")
    /\ resultsMutex = NoThread
    /\ resultsMutex' = t
    /\ lastSampleValue' = calls[t].last
    /\ lastCalculationTime' = latchTime
    /\ Goto(t, "publish_bins")
    /\ UNCHANGED <<now, enabled, accumulators, binCount, workingBinId, bins, full,
                   fullDuration, recent, published, added, forgotten>>

NextBinLate(i) == (i + 1) % (binCount + 1)      \* a mutant: > for >=
NextBin(i) == (i + 1) % binCount

Replaced(f, s) == s     \* a mutant of Combined: = for +=
Combined(f, s) == f \cup s

PublishBins(t) ==
    /\ At(t, "publish_bins")
    /\ resultsMutex' = NoThread
    /\ full' = Combined(full, calls[t].samples)
    /\ fullDuration' = fullDuration + calls[t].duration
    /\ bins' = [bins EXCEPT ![workingBinId] = [samples |-> calls[t].samples,
                                               duration |-> calls[t].duration,
                                               endTime |-> latchTime]]
    /\ recent' = UNION {bins'[i].samples : i \in DOMAIN bins}
    /\ workingBinId' = NextBin(workingBinId)
    /\ published' = Append(published, calls[t].samples)
    /\ Return(t)
    /\ UNCHANGED <<now, enabled, accumulators, binCount, lastSampleValue,
                   lastCalculationTime, added, forgotten>>

-----------------------------------------------------------------------------
(* reset, enable, disable, setNewTimeWindowForRecentResults *)

reset(t) ==
    /\ Idle(t)
    /\ Begin(t, [IdleCall EXCEPT !.pc = "reset_accumulators"])
    /\ UNCHANGED <<now, enabled, accumulators, results, resultsMutex, added, forgotten>>

enable(t) ==
    /\ t \in Switchers /\ Idle(t)
    /\ ~enabled
    /\ Begin(t, [IdleCall EXCEPT !.pc = "reset_accumulators", !.enabling = TRUE])
    /\ UNCHANGED <<now, enabled, accumulators, results, resultsMutex, added, forgotten>>

EnableEnd(t) ==
    /\ At(t, "enable")
    /\ enabled' = TRUE
    /\ Return(t)
    /\ UNCHANGED <<now, accumulators, results, resultsMutex, added, forgotten>>

disable(t) ==
    /\ t \in Switchers /\ Idle(t)
    /\ enabled' = FALSE
    /\ UNCHANGED <<now, accumulators, results, resultsMutex, calls, added, forgotten>>

setNewTimeWindowForRecentResults(t) ==
    /\ t \in Windowers /\ Idle(t)
    /\ Begin(t, [IdleCall EXCEPT !.pc = "window_results"])
    /\ UNCHANGED <<now, enabled, accumulators, results, resultsMutex, added, forgotten>>

ResetAccumulators(t) ==
    /\ calls[t].pc \in {"reset_accumulators", "window_accumulators"}
    /\ latchTime' = 0 /\ working' = {} /\ workingLast' = 0
    /\ IF At(t, "reset_accumulators")
       THEN Begin(t, [calls[t] EXCEPT !.pc = "reset_results", !.seen = added])
       ELSE Return(t)
    /\ UNCHANGED <<now, enabled, results, resultsMutex, added, forgotten>>

\* The last time of calculation is not among the results that are reset.
ResetResults(t) ==
    /\ calls[t].pc \in {"reset_results", "window_results"}
    /\ resultsMutex = NoThread
    /\ binCount' \in IF At(t, "window_results") THEN BinCounts ELSE {binCount}
    /\ workingBinId' = 0
    /\ bins' = [i \in 0 .. (binCount' - 1) |-> EmptyBin]
    /\ full' = {} /\ fullDuration' = 0 /\ recent' = {} /\ lastSampleValue' = 0
    /\ published' = <<>>
    /\ IF At(t, "window_results")
       THEN Goto(t, "window_accumulators") /\ UNCHANGED forgotten
       ELSE /\ IF calls[t].enabling THEN Goto(t, "enable") ELSE Return(t)
            /\ forgotten' = forgotten \cup 1 .. calls[t].seen
    /\ UNCHANGED <<now, enabled, accumulators, lastCalculationTime, resultsMutex, added>>

-----------------------------------------------------------------------------
Tick ==
    /\ now < MaxTime
    /\ now' = now + 1
    /\ UNCHANGED <<enabled, accumulators, results, resultsMutex, calls, added, forgotten>>

\* The next step of the call a thread is in.
Step(t) ==
    \/ Accumulate(t)
    \/ CheckInterval(t) \/ Latch(t) \/ PublishTime(t) \/ PublishBins(t)
    \/ ResetAccumulators(t) \/ ResetResults(t) \/ EnableEnd(t)

Next ==
    \/ Tick
    \/ \E t \in Threads : Step(t) \/ addSample(t) \/ enable(t) \/ disable(t)
                          \/ setNewTimeWindowForRecentResults(t)
    \/ \E t \in Calculators : calculateStatistics(t)
    \/ \E t \in Resetters : reset(t)

Spec == Init /\ [][Next]_vars

-----------------------------------------------------------------------------
(* Properties *)

Bin == [samples : SUBSET Nat, duration : Int, endTime : Nat]

Points == {"idle", "add", "check", "latch", "publish", "publish_bins",
           "reset_accumulators", "reset_results", "enable",
           "window_results", "window_accumulators"}

Call == [pc : Points, time : Nat, samples : SUBSET Nat, duration : Int, last : Nat,
         enabling : BOOLEAN, seen : Nat]

TypeOK ==
    /\ now \in Nat
    /\ enabled \in BOOLEAN
    /\ latchTime \in Nat /\ working \in SUBSET Nat /\ workingLast \in Nat
    /\ binCount \in BinCounts
    /\ workingBinId \in 0 .. (binCount - 1)
    /\ bins \in [0 .. (binCount - 1) -> Bin]
    /\ full \in SUBSET Nat /\ fullDuration \in Int /\ recent \in SUBSET Nat
    /\ lastSampleValue \in Nat /\ lastCalculationTime \in Nat
    /\ resultsMutex \in Threads \cup {NoThread}
    /\ calls \in [Threads -> Call]
    /\ added \in Nat
    /\ published \in Seq(SUBSET Nat)
    /\ forgotten \in SUBSET Nat

\* No sample is counted twice, whichever threads calculate at the same time: it
\* is in the working values, in the locals of one calculation, or in the results.
SampleOnce ==
    /\ working \cap full = {}
    /\ \A t \in Threads : calls[t].samples \cap (working \cup full) = {}
    /\ \A t, u \in Threads : t # u => calls[t].samples \cap calls[u].samples = {}

\* Why: samples are numbered as they are added, and a call has samples in its
\* locals only between its two critical sections.
CountInv ==
    /\ working \subseteq 1 .. added /\ full \subseteq 1 .. added
    /\ \A t \in Threads :
          /\ calls[t].samples \subseteq 1 .. added
          /\ calls[t].pc \notin {"publish", "publish_bins"} => calls[t].samples = {}
    /\ SampleOnce

Accounted == working \cup full \cup UNION {calls[t].samples : t \in Threads}
ResetPoints == {"reset_accumulators", "reset_results", "window_results",
                "window_accumulators"}

\* No sample is lost but to a reset: a calculation takes the working values and
\* resets them at once, so that a sample added meanwhile is in the next one.
NoSampleLost ==
    [][(\E s \in Accounted : s \notin Accounted')
          => \E t \in Threads : calls[t].pc \in ResetPoints /\ calls'[t] # calls[t]]_vars

\* The k-th bin that getStats copies out: it goes round from the working bin,
\* the oldest one.
StatsBin(k) == bins[(workingBinId + k) % binCount]

\* Whenever the results can be read, the recent bins are those of the last
\* _binCount calculations, oldest first, and the recent values are their total.
WindowIsHistory ==
    resultsMutex = NoThread =>
    /\ \A k \in 0 .. (binCount - 1) :
          LET n == Len(published) - binCount + k + 1 IN
          StatsBin(k).samples = IF n >= 1 THEN published[n] ELSE {}
    /\ recent = UNION {StatsBin(k).samples : k \in 0 .. (binCount - 1)}
    /\ recent \subseteq full

\* "Resets the monitor (zeroes out all counters and restarts the time interval)":
\* no sample from before a reset is counted after it.
FreshStart == full \cap forgotten = {}

\* The durations that the rates are divided by are time that has passed.
DurationsReal ==
    /\ 0 <= fullDuration /\ fullDuration <= now - StartTime
    /\ \A i \in DOMAIN bins : 0 <= bins[i].duration

\* Whenever the results can be read, the bins end in the order of their
\* calculations, and the newest one ends at the last calculation.
EndTimesInOrder ==
    resultsMutex = NoThread =>
    LET first == IF Len(published) < binCount THEN binCount - Len(published) ELSE 0 IN
    /\ \A k \in first .. (binCount - 2) : StatsBin(k).endTime < StatsBin(k + 1).endTime
    /\ published # <<>> => StatsBin(binCount - 1).endTime = lastCalculationTime
=============================================================================
