------------------------ MODULE MonitoredQuantityProofs ------------------------
(***************************************************************************)
(* Proofs about MonitoredQuantity, for any threads in any of the roles, and *)
(* for the calls that a StatisticsCollection makes.                        *)
(* Every sample is accumulated once: SampleOnce with the fact that samples *)
(* are numbered as they are added, and that a call has samples in its      *)
(* locals only between the two critical sections of a calculation.  The    *)
(* recent bins are those of the last calculations.                         *)
(***************************************************************************)
EXTENDS StatisticsCollection, TLAPS

\* A call that has just begun, or has none of the samples, is well formed.
LEMMA IdleCallType == IdleCall \in Call
  BY DEF IdleCall, Call, Points

\* A local variable of one thread's call changes within its type.
LEMMA BeginType ==
  ASSUME calls \in [Threads -> Call], NEW t \in Threads, NEW call \in Call, Begin(t, call)
  PROVE  calls' \in [Threads -> Call]
  BY DEF Begin

LEMMA GotoType ==
  ASSUME calls \in [Threads -> Call], NEW t \in Threads, NEW p \in Points, Goto(t, p)
  PROVE  calls' \in [Threads -> Call]
  BY DEF Goto, Call

\* The types hold at the start.
LEMMA TypeInit == Init => TypeOK
  <1> SUFFICES ASSUME Init PROVE TypeOK
    OBVIOUS
  <1>1. binCount \in Nat \ {0} /\ bins \in [0 .. (binCount - 1) -> Bin]
    BY BinsAssumption DEF Init, EmptyBin, Bin
  <1>2. calls \in [Threads -> Call]
    BY IdleCallType DEF Init
  <1> QED
    BY <1>1, <1>2, TimeAssumption DEF Init, TypeOK

\* What the calls that only move from one point to the next leave alone.
LEMMA TypeFrame ==
  ASSUME TypeOK, UNCHANGED <<now, enabled, accumulators, results, resultsMutex, added, forgotten>>,
         calls' \in [Threads -> Call]
  PROVE  TypeOK'
  BY DEF TypeOK, accumulators, results

\* The types are kept by the beginnings of the calls.
LEMMA TypeBegin ==
  ASSUME TypeOK, NEW t \in Threads,
         \/ addSample(t) \/ calculateStatistics(t) \/ reset(t) \/ enable(t) \/ disable(t)
         \/ setNewTimeWindowForRecentResults(t)
  PROVE  TypeOK'
  <1>0. calls \in [Threads -> Call] /\ now \in Nat
    BY DEF TypeOK
  <1>2. CASE addSample(t)
    <2>1. [IdleCall EXCEPT !.pc = "add"] \in Call
      BY IdleCallType DEF Call, Points
    <2>2. calls' \in [Threads -> Call]
      BY <1>0, <1>2, <2>1, BeginType DEF addSample
    <2> QED BY <1>2, <2>2, TypeFrame DEF addSample
  <1>3. CASE calculateStatistics(t)
    <2>1. [IdleCall EXCEPT !.pc = "check", !.time = now] \in Call
      BY <1>0, IdleCallType DEF Call, Points
    <2>2. calls' \in [Threads -> Call]
      BY <1>0, <1>3, <2>1, BeginType DEF calculateStatistics
    <2> QED BY <1>3, <2>2, TypeFrame DEF calculateStatistics
  <1>4. CASE reset(t)
    <2>1. [IdleCall EXCEPT !.pc = "reset_accumulators"] \in Call
      BY IdleCallType DEF Call, Points
    <2>2. calls' \in [Threads -> Call]
      BY <1>0, <1>4, <2>1, BeginType DEF reset
    <2> QED BY <1>4, <2>2, TypeFrame DEF reset
  <1>5. CASE enable(t)
    <2>1. [IdleCall EXCEPT !.pc = "reset_accumulators", !.enabling = TRUE] \in Call
      BY IdleCallType DEF Call, Points
    <2>2. calls' \in [Threads -> Call]
      BY <1>0, <1>5, <2>1, BeginType DEF enable
    <2> QED BY <1>5, <2>2, TypeFrame DEF enable
  <1>6. CASE disable(t)
    BY <1>6 DEF disable, TypeOK, accumulators, results
  <1>7. CASE setNewTimeWindowForRecentResults(t)
    <2>1. [IdleCall EXCEPT !.pc = "window_results"] \in Call
      BY IdleCallType DEF Call, Points
    <2>2. calls' \in [Threads -> Call]
      BY <1>0, <1>7, <2>1, BeginType DEF setNewTimeWindowForRecentResults
    <2> QED BY <1>7, <2>2, TypeFrame DEF setNewTimeWindowForRecentResults
  <1> QED
    BY <1>2, <1>3, <1>4, <1>5, <1>6, <1>7

\* The types are kept by the steps of addSample and calculateStatistics.
LEMMA TypeCalculate ==
  ASSUME TypeOK, NEW t \in Threads,
         Accumulate(t) \/ CheckInterval(t) \/ Latch(t) \/ PublishTime(t) \/ PublishBins(t)
  PROVE  TypeOK'
  <1>0. /\ calls \in [Threads -> Call] /\ now \in Nat /\ added \in Nat /\ latchTime \in Nat
        /\ working \in SUBSET Nat /\ workingLast \in Nat /\ calls[t] \in Call
    BY DEF TypeOK
  <1>1. /\ calls[t].time \in Nat /\ calls[t].samples \in SUBSET Nat
        /\ calls[t].duration \in Int /\ calls[t].last \in Nat
    BY <1>0 DEF Call
  <1>2. CASE Accumulate(t)
    <2>1. calls' \in [Threads -> Call]
      BY <1>0, <1>2, IdleCallType, BeginType DEF Accumulate, Return
    <2>2. added' \in Nat /\ latchTime' \in Nat /\ working' \in SUBSET Nat /\ workingLast' \in Nat
      BY <1>0, <1>2 DEF Accumulate, Started
    <2> QED BY <1>2, <2>1, <2>2 DEF Accumulate, TypeOK, results
  <1>3. CASE CheckInterval(t)
    <2>1. "latch" \in Points
      BY DEF Points
    <2>2. CASE latchTime > 0 /\ calls[t].time - latchTime >= Interval
      <3>1. Goto(t, "latch")
        BY <1>3, <2>2 DEF CheckInterval
      <3>2. calls' \in [Threads -> Call]
        BY <1>0, <2>1, <3>1, GotoType
      <3> QED BY <1>3, <3>2, TypeFrame DEF CheckInterval
    <2>3. CASE ~(latchTime > 0 /\ calls[t].time - latchTime >= Interval)
      <3>1. Return(t)
        BY <1>3, <2>3 DEF CheckInterval
      <3>2. calls' \in [Threads -> Call]
        BY <1>0, <3>1, IdleCallType, BeginType DEF Return
      <3> QED BY <1>3, <3>2, TypeFrame DEF CheckInterval
    <2> QED BY <2>2, <2>3
  <1>4. CASE Latch(t)
    <2>1. calls' \in [Threads -> Call]
      <3>1. [calls[t] EXCEPT !.pc = "publish", !.samples = working,
                             !.duration = calls[t].time - latchTime,
                             !.last = workingLast] \in Call
        <4>1. calls[t].time - latchTime \in Int
          BY <1>0, <1>1
        <4>2. "publish" \in Points
          BY DEF Points
        <4> QED BY <1>0, <4>1, <4>2 DEF Call
      <3> QED BY <1>0, <1>4, <3>1, BeginType DEF Latch
    <2> QED BY <1>0, <1>1, <1>4, <2>1 DEF Latch, Taken, TypeOK, results
  <1>5. CASE PublishTime(t)
    <2>1. "publish_bins" \in Points
      BY DEF Points
    <2>2. calls' \in [Threads -> Call]
      BY <1>0, <1>5, <2>1, GotoType DEF PublishTime
    <2> QED BY <1>0, <1>1, <1>5, <2>2 DEF PublishTime, TypeOK, accumulators
  <1>6. CASE PublishBins(t)
    <2>1. calls' \in [Threads -> Call]
      BY <1>0, <1>6, IdleCallType, BeginType DEF PublishBins, Return
    <2>2. binCount \in Nat \ {0} /\ workingBinId \in 0 .. (binCount - 1)
      BY BinsAssumption DEF TypeOK
    <2>3. workingBinId' \in 0 .. (binCount - 1)
      BY <1>6, <2>2 DEF PublishBins, NextBin
    <2>4. bins' \in [0 .. (binCount - 1) -> Bin]
      <3>1. [samples |-> calls[t].samples, duration |-> calls[t].duration,
             endTime |-> latchTime] \in Bin
        BY <1>0, <1>1 DEF Bin
      <3>2. bins \in [0 .. (binCount - 1) -> Bin]
        BY DEF TypeOK
      <3> QED BY <1>6, <3>1, <3>2 DEF PublishBins
    <2>5. recent' \in SUBSET Nat
      <3>1. DOMAIN bins = 0 .. (binCount - 1)
        BY DEF TypeOK
      <3>2. \A i \in 0 .. (binCount - 1) : bins'[i].samples \in SUBSET Nat
        BY <2>4 DEF Bin
      <3> QED BY <1>6, <3>1, <3>2 DEF PublishBins
    <2>6. published' \in Seq(SUBSET Nat)
      BY <1>1, <1>6 DEF PublishBins, TypeOK
    <2>7. full' \in SUBSET Nat /\ fullDuration' \in Int
      <3>1. full' = full \cup calls[t].samples /\ fullDuration' = fullDuration + calls[t].duration
        BY <1>6 DEF PublishBins, Combined
      <3>2. full \in SUBSET Nat /\ fullDuration \in Int
        BY DEF TypeOK
      <3>3. full' \in SUBSET Nat
        BY <1>1, <3>1, <3>2
      <3>4. fullDuration' \in Int
        BY <1>1, <3>1, <3>2
      <3> QED BY <3>3, <3>4
    <2> QED BY <1>6, <2>1, <2>3, <2>4, <2>5, <2>6, <2>7 DEF PublishBins, TypeOK, accumulators
  <1> QED
    BY <1>2, <1>3, <1>4, <1>5, <1>6

\* The types are kept by the steps of reset, enable and the change of window.
LEMMA TypeReset ==
  ASSUME TypeOK, NEW t \in Threads, ResetAccumulators(t) \/ ResetResults(t) \/ EnableEnd(t)
  PROVE  TypeOK'
  <1>0. calls \in [Threads -> Call] /\ calls[t] \in Call /\ added \in Nat /\ calls[t].seen \in Nat
    BY DEF TypeOK, Call
  <1>1. CASE ResetAccumulators(t)
    <2>1. calls' \in [Threads -> Call]
      <3>1. CASE At(t, "reset_accumulators")
        <4>1. [calls[t] EXCEPT !.pc = "reset_results", !.seen = added] \in Call
          BY <1>0 DEF Call, Points
        <4> QED BY <1>0, <1>1, <3>1, <4>1, BeginType DEF ResetAccumulators
      <3>2. CASE ~At(t, "reset_accumulators")
        <4>1. Return(t)
          BY <1>1, <3>2 DEF ResetAccumulators
        <4> QED BY <1>0, <4>1, IdleCallType, BeginType DEF Return
      <3> QED BY <3>1, <3>2
    <2> QED BY <1>1, <2>1 DEF ResetAccumulators, TypeOK, results
  <1>2. CASE ResetResults(t)
    <2>1. calls' \in [Threads -> Call] /\ forgotten' \in SUBSET Nat
      <3>0. "window_accumulators" \in Points /\ "enable" \in Points
        BY DEF Points
      <3>1. CASE At(t, "window_results")
        <4>1. Goto(t, "window_accumulators") /\ UNCHANGED forgotten
          BY <1>2, <3>1 DEF ResetResults
        <4> QED BY <1>0, <3>0, <4>1, GotoType DEF TypeOK
      <3>2. CASE ~At(t, "window_results")
        <4>1. forgotten' \in SUBSET Nat
          <5>1. forgotten' = forgotten \cup 1 .. calls[t].seen
            BY <1>2, <3>2 DEF ResetResults
          <5>2. forgotten \in SUBSET Nat
            BY DEF TypeOK
          <5>3. 1 .. calls[t].seen \subseteq Nat
            BY <1>0
          <5> QED BY <5>1, <5>2, <5>3
        <4>2. CASE calls[t].enabling
          <5>1. Goto(t, "enable")
            BY <1>2, <3>2, <4>2 DEF ResetResults
          <5> QED BY <1>0, <3>0, <4>1, <5>1, GotoType
        <4>3. CASE ~calls[t].enabling
          <5>1. Return(t)
            BY <1>2, <3>2, <4>3 DEF ResetResults
          <5> QED BY <1>0, <4>1, <5>1, IdleCallType, BeginType DEF Return
        <4> QED BY <4>2, <4>3
      <3> QED BY <3>1, <3>2
    <2>2. binCount' \in BinCounts
      BY <1>2 DEF ResetResults, TypeOK
    <2>3. \A n \in Nat \ {0} : 0 \in 0 .. (n - 1)
      OBVIOUS
    <2>4. bins' \in [0 .. (binCount' - 1) -> Bin]
      <3>1. EmptyBin \in Bin
        BY DEF EmptyBin, Bin
      <3> QED BY <1>2, <3>1 DEF ResetResults
    <2>5. workingBinId' \in 0 .. (binCount' - 1)
      <3>1. workingBinId' = 0
        BY <1>2 DEF ResetResults
      <3>2. 0 \in 0 .. (binCount' - 1)
        BY <2>2, <2>3, BinsAssumption
      <3> QED BY <3>1, <3>2
    <2> QED BY <1>2, <2>1, <2>2, <2>4, <2>5 DEF ResetResults, TypeOK, accumulators
  <1>3. CASE EnableEnd(t)
    <2>1. calls' \in [Threads -> Call]
      BY <1>0, <1>3, IdleCallType, BeginType DEF EnableEnd, Return
    <2> QED BY <1>3, <2>1 DEF EnableEnd, TypeOK, accumulators, results
  <1> QED
    BY <1>1, <1>2, <1>3

\* The types are kept by every step.
LEMMA TypeStep == TypeOK /\ [Next]_vars => TypeOK'
  <1> SUFFICES ASSUME TypeOK, [Next]_vars PROVE TypeOK'
    OBVIOUS
  <1>1. CASE Tick
    BY <1>1 DEF Tick, TypeOK, accumulators, results
  <1>2. ASSUME NEW t \in Threads, Step(t) PROVE TypeOK'
    BY <1>2, TypeCalculate, TypeReset DEF Step
  <1>3. ASSUME NEW t \in Threads, addSample(t) \/ enable(t) \/ disable(t)
                                  \/ setNewTimeWindowForRecentResults(t)
        PROVE  TypeOK'
    BY <1>3, TypeBegin
  <1>4. ASSUME NEW t \in Threads, calculateStatistics(t) \/ reset(t) PROVE TypeOK'
    BY <1>4, TypeBegin
  <1>5. CASE UNCHANGED vars
    BY <1>5 DEF vars, TypeOK
  <1> QED
    BY <1>1, <1>2, <1>3, <1>4, <1>5, ThreadsAssumption DEF Next

\* Every variable keeps its type, and the working bin is one of the bins.
THEOREM TypeCorrect == Spec => []TypeOK
  <1> QED BY TypeInit, TypeStep, PTL DEF Spec

-----------------------------------------------------------------------------
(* Every sample is counted once *)

\* Steps that move no samples.
LEMMA CountFrame ==
  ASSUME CountInv, UNCHANGED <<working, full, added>>,
         \A u \in Threads : /\ calls'[u].samples = calls[u].samples
                            /\ \/ calls'[u].samples = {}
                               \/ calls'[u].pc \in {"publish", "publish_bins"}
  PROVE  CountInv'
  BY DEF CountInv, SampleOnce

\* A call that ends, or goes to a point where it has no samples.
LEMMA CallEnds ==
  ASSUME TypeOK, CountInv, NEW t \in Threads, calls[t].pc \notin {"publish", "publish_bins"},
         NEW c \in Call, c.samples = {}, Begin(t, c)
  PROVE  \A u \in Threads : /\ calls'[u].samples = calls[u].samples
                            /\ \/ calls'[u].samples = {}
                               \/ calls'[u].pc \in {"publish", "publish_bins"}
  <1>1. calls \in [Threads -> Call] /\ calls' = [calls EXCEPT ![t] = c]
    BY DEF TypeOK, Begin
  <1>2. calls[t].samples = {} /\ calls'[t] = c
    BY <1>1 DEF CountInv
  <1>3. \A u \in Threads : u # t => calls'[u] = calls[u]
    BY <1>1
  <1> QED
    BY <1>2, <1>3 DEF CountInv

LEMMA CallMoves ==
  ASSUME TypeOK, CountInv, NEW t \in Threads, NEW p \in Points, Goto(t, p),
         \/ calls[t].pc \notin {"publish", "publish_bins"}
         \/ p \in {"publish", "publish_bins"}
  PROVE  \A u \in Threads : /\ calls'[u].samples = calls[u].samples
                            /\ \/ calls'[u].samples = {}
                               \/ calls'[u].pc \in {"publish", "publish_bins"}
  <1>1. calls \in [Threads -> Call] /\ calls' = [calls EXCEPT ![t].pc = p]
    BY DEF TypeOK, Goto
  <1>2. calls'[t].samples = calls[t].samples /\ calls'[t].pc = p
    BY <1>1 DEF Call
  <1>3. \A u \in Threads : u # t => calls'[u] = calls[u]
    BY <1>1
  <1> QED
    BY <1>2, <1>3 DEF CountInv

LEMMA CountInit == Init => CountInv
  BY DEF Init, IdleCall, CountInv, SampleOnce

\* The beginnings of calls, and the steps that only look.
LEMMA CountBegin ==
  ASSUME TypeOK, CountInv, NEW t \in Threads,
         \/ addSample(t) \/ calculateStatistics(t) \/ reset(t) \/ enable(t) \/ disable(t)
         \/ setNewTimeWindowForRecentResults(t) \/ CheckInterval(t) \/ PublishTime(t)
         \/ EnableEnd(t)
  PROVE  /\ CountInv' /\ UNCHANGED <<working, full, added>>
         /\ \A u \in Threads : calls'[u].samples = calls[u].samples
  <1> DEFINE Keeps == \A u \in Threads : /\ calls'[u].samples = calls[u].samples
                                        /\ \/ calls'[u].samples = {}
                                           \/ calls'[u].pc \in {"publish", "publish_bins"}
  <1>0. now \in Nat /\ IdleCall.samples = {}
    BY DEF TypeOK, IdleCall
  <1>1. UNCHANGED <<working, full, added>>
    BY DEF addSample, calculateStatistics, reset, enable, disable,
           setNewTimeWindowForRecentResults, CheckInterval, PublishTime, EnableEnd,
           accumulators, results
  <1>2. CASE addSample(t)
    <2>1. [IdleCall EXCEPT !.pc = "add"] \in Call
      BY IdleCallType DEF Call, Points
    <2>2. Begin(t, [IdleCall EXCEPT !.pc = "add"]) /\ calls[t].pc = "idle"
      BY <1>2 DEF addSample, Idle, At
    <2>3. [IdleCall EXCEPT !.pc = "add"].samples = {}
      BY DEF IdleCall
    <2>4. Keeps
      BY <2>1, <2>2, <2>3, CallEnds
    <2> QED BY <1>1, <2>4, CountFrame
  <1>3. CASE calculateStatistics(t)
    <2>1. [IdleCall EXCEPT !.pc = "check", !.time = now] \in Call
      BY <1>0, IdleCallType DEF Call, Points
    <2>2. Begin(t, [IdleCall EXCEPT !.pc = "check", !.time = now]) /\ calls[t].pc = "idle"
      BY <1>3 DEF calculateStatistics, Idle, At
    <2>3. [IdleCall EXCEPT !.pc = "check", !.time = now].samples = {}
      BY DEF IdleCall
    <2>4. Keeps
      BY <2>1, <2>2, <2>3, CallEnds
    <2> QED BY <1>1, <2>4, CountFrame
  <1>4. CASE reset(t)
    <2>1. [IdleCall EXCEPT !.pc = "reset_accumulators"] \in Call
      BY IdleCallType DEF Call, Points
    <2>2. Begin(t, [IdleCall EXCEPT !.pc = "reset_accumulators"]) /\ calls[t].pc = "idle"
      BY <1>4 DEF reset, Idle, At
    <2>3. [IdleCall EXCEPT !.pc = "reset_accumulators"].samples = {}
      BY DEF IdleCall
    <2>4. Keeps
      BY <2>1, <2>2, <2>3, CallEnds
    <2> QED BY <1>1, <2>4, CountFrame
  <1>5. CASE enable(t)
    <2>1. [IdleCall EXCEPT !.pc = "reset_accumulators", !.enabling = TRUE] \in Call
      BY IdleCallType DEF Call, Points
    <2>2. Begin(t, [IdleCall EXCEPT !.pc = "reset_accumulators", !.enabling = TRUE])
          /\ calls[t].pc = "idle"
      BY <1>5 DEF enable, Idle, At
    <2>3. [IdleCall EXCEPT !.pc = "reset_accumulators", !.enabling = TRUE].samples = {}
      BY DEF IdleCall
    <2>4. Keeps
      BY <2>1, <2>2, <2>3, CallEnds
    <2> QED BY <1>1, <2>4, CountFrame
  <1>6. CASE disable(t)
    <2>1. UNCHANGED calls
      BY <1>6 DEF disable
    <2> QED BY <1>1, <2>1 DEF CountInv, SampleOnce
  <1>7. CASE setNewTimeWindowForRecentResults(t)
    <2>1. [IdleCall EXCEPT !.pc = "window_results"] \in Call
      BY IdleCallType DEF Call, Points
    <2>2. Begin(t, [IdleCall EXCEPT !.pc = "window_results"]) /\ calls[t].pc = "idle"
      BY <1>7 DEF setNewTimeWindowForRecentResults, Idle, At
    <2>3. [IdleCall EXCEPT !.pc = "window_results"].samples = {}
      BY DEF IdleCall
    <2>4. Keeps
      BY <2>1, <2>2, <2>3, CallEnds
    <2> QED BY <1>1, <2>4, CountFrame
  <1>8. CASE CheckInterval(t)
    <2>1. calls[t].pc = "check" /\ "latch" \in Points
      BY <1>8 DEF CheckInterval, At, Points
    <2>2. Goto(t, "latch") \/ Begin(t, IdleCall)
      BY <1>8 DEF CheckInterval, Return
    <2>3. Keeps
      BY <1>0, <2>1, <2>2, IdleCallType, CallEnds, CallMoves
    <2> QED BY <1>1, <2>3, CountFrame
  <1>9. CASE PublishTime(t)
    <2>1. Goto(t, "publish_bins") /\ "publish_bins" \in Points
      BY <1>9 DEF PublishTime, Points
    <2>2. Keeps
      BY <2>1, CallMoves
    <2> QED BY <1>1, <2>2, CountFrame
  <1>10. CASE EnableEnd(t)
    <2>1. Begin(t, IdleCall) /\ calls[t].pc = "enable"
      BY <1>10 DEF EnableEnd, Return, At
    <2>2. Keeps
      BY <1>0, <2>1, IdleCallType, CallEnds
    <2> QED BY <1>1, <2>2, CountFrame
  <1> QED
    BY <1>2, <1>3, <1>4, <1>5, <1>6, <1>7, <1>8, <1>9, <1>10

\* The steps that move samples, and lose none.
LEMMA CountMove ==
  ASSUME TypeOK, CountInv, NEW t \in Threads, Accumulate(t) \/ Latch(t) \/ PublishBins(t)
  PROVE  CountInv' /\ (\A s \in Accounted : s \in Accounted')
  <1>0. /\ calls \in [Threads -> Call] /\ calls[t] \in Call /\ added \in Nat
        /\ working \in SUBSET Nat /\ full \in SUBSET Nat
    BY DEF TypeOK
  <1>1. CASE Accumulate(t)
    <2>1. calls[t].pc = "add" /\ Begin(t, IdleCall) /\ IdleCall.samples = {}
      BY <1>1 DEF Accumulate, At, Return, IdleCall
    <2>2. \A u \in Threads : /\ calls'[u].samples = calls[u].samples
                             /\ \/ calls'[u].samples = {}
                                \/ calls'[u].pc \in {"publish", "publish_bins"}
      BY <2>1, IdleCallType, CallEnds
    <2>3. added' = added + 1 /\ working' = working \cup {added + 1} /\ full' = full
      BY <1>1 DEF Accumulate, results
    <2>4. \A x \in 1 .. added : x \in 1 .. (added + 1) /\ x # added + 1
      BY <1>0
    <2>5. added + 1 \in 1 .. (added + 1)
      BY <1>0
    <2>6. CountInv'
      BY <2>2, <2>3, <2>4, <2>5 DEF CountInv, SampleOnce
    <2> QED BY <2>2, <2>3, <2>6 DEF Accounted
  <1>2. CASE Latch(t)
    <2>1. calls[t].pc = "latch" /\ calls[t].samples = {}
      BY <1>2 DEF Latch, At, CountInv
    <2>2. calls'[t].samples = working /\ calls'[t].pc = "publish"
      BY <1>0, <1>2 DEF Latch, Begin, Call
    <2>3. \A u \in Threads : u # t => calls'[u] = calls[u]
      BY <1>0, <1>2 DEF Latch, Begin
    <2>4. working' = {} /\ full' = full /\ added' = added
      BY <1>2 DEF Latch, Taken, results
    <2>5. CountInv'
      BY <2>1, <2>2, <2>3, <2>4 DEF CountInv, SampleOnce
    <2> QED BY <2>1, <2>2, <2>3, <2>4, <2>5 DEF Accounted
  <1>3. CASE PublishBins(t)
    <2>1. calls'[t].samples = {}
      BY <1>0, <1>3 DEF PublishBins, Return, Begin, IdleCall
    <2>2. \A u \in Threads : u # t => calls'[u] = calls[u]
      BY <1>0, <1>3 DEF PublishBins, Return, Begin
    <2>3. full' = full \cup calls[t].samples /\ working' = working /\ added' = added
      BY <1>3 DEF PublishBins, Combined, accumulators
    <2>4. CountInv'
      BY <2>1, <2>2, <2>3 DEF CountInv, SampleOnce
    <2> QED BY <2>1, <2>2, <2>3, <2>4 DEF Accounted
  <1> QED
    BY <1>1, <1>2, <1>3

\* The steps of a reset.
LEMMA CountReset ==
  ASSUME TypeOK, CountInv, NEW t \in Threads, ResetAccumulators(t) \/ ResetResults(t)
  PROVE  CountInv' /\ calls[t].pc \in ResetPoints /\ calls'[t] # calls[t]
  <1> DEFINE Keeps == \A u \in Threads : /\ calls'[u].samples = calls[u].samples
                                        /\ \/ calls'[u].samples = {}
                                           \/ calls'[u].pc \in {"publish", "publish_bins"}
  <1>0. /\ calls \in [Threads -> Call] /\ calls[t] \in Call /\ added \in Nat
        /\ IdleCall.samples = {} /\ IdleCall.pc = "idle"
    BY DEF TypeOK, IdleCall
  <1>1. calls[t].pc \in ResetPoints /\ calls[t].samples = {}
    BY DEF ResetAccumulators, ResetResults, ResetPoints, CountInv
  <1>2. added' = added /\ working' \subseteq working /\ full' \subseteq full
    BY DEF ResetAccumulators, ResetResults, accumulators, results
  <1>3. Keeps /\ calls'[t] # calls[t]
    <2>1. CASE ResetAccumulators(t) /\ At(t, "reset_accumulators")
      <3>1. Begin(t, [calls[t] EXCEPT !.pc = "reset_results", !.seen = added])
        BY <2>1 DEF ResetAccumulators
      <3>2. [calls[t] EXCEPT !.pc = "reset_results", !.seen = added] \in Call
        BY <1>0 DEF Call, Points
      <3>3. /\ [calls[t] EXCEPT !.pc = "reset_results", !.seen = added].samples = {}
            /\ [calls[t] EXCEPT !.pc = "reset_results", !.seen = added].pc = "reset_results"
        BY <1>0, <1>1 DEF Call
      <3>4. calls[t].pc = "reset_accumulators"
        BY <2>1 DEF At
      <3>5. Keeps
        BY <3>1, <3>2, <3>3, <3>4, CallEnds
      <3>6. calls'[t].pc = "reset_results"
        BY <1>0, <3>1, <3>3 DEF Begin
      <3> QED BY <3>4, <3>5, <3>6
    <2>2. CASE ResetAccumulators(t) /\ ~At(t, "reset_accumulators")
      <3>1. Begin(t, IdleCall) /\ calls[t].pc = "window_accumulators"
        BY <2>2 DEF ResetAccumulators, Return, At
      <3>2. Keeps
        BY <1>0, <3>1, IdleCallType, CallEnds
      <3>3. calls'[t].pc = "idle"
        BY <1>0, <3>1 DEF Begin
      <3> QED BY <3>1, <3>2, <3>3
    <2>3. CASE ResetResults(t)
      <3>1. /\ calls[t].pc \in {"reset_results", "window_results"}
            /\ \/ Goto(t, "window_accumulators") \/ Goto(t, "enable") \/ Begin(t, IdleCall)
        BY <2>3 DEF ResetResults, Return
      <3>2. "window_accumulators" \in Points /\ "enable" \in Points
        BY DEF Points
      <3>3. Keeps
        BY <1>0, <3>1, <3>2, IdleCallType, CallEnds, CallMoves
      <3>4. calls'[t].pc \in {"window_accumulators", "enable", "idle"}
        BY <1>0, <3>1 DEF Goto, Begin, Call
      <3> QED BY <3>1, <3>3, <3>4
    <2> QED BY <2>1, <2>2, <2>3
  <1>4. CountInv'
    BY <1>2, <1>3 DEF CountInv, SampleOnce
  <1> QED
    BY <1>1, <1>3, <1>4

\* What a step does to the samples.
LEMMA CountStep ==
  ASSUME TypeOK, CountInv, [Next]_vars
  PROVE  /\ CountInv'
         /\ (\E s \in Accounted : s \notin Accounted')
               => \E t \in Threads : calls[t].pc \in ResetPoints /\ calls'[t] # calls[t]
  <1>1. CASE Tick \/ UNCHANGED vars
    <2>1. UNCHANGED <<working, full, added, calls>>
      BY <1>1 DEF Tick, vars, accumulators, results
    <2> QED BY <2>1 DEF CountInv, SampleOnce, Accounted
  <1>2. ASSUME NEW t \in Threads,
               \/ addSample(t) \/ calculateStatistics(t) \/ reset(t) \/ enable(t) \/ disable(t)
               \/ setNewTimeWindowForRecentResults(t) \/ CheckInterval(t) \/ PublishTime(t)
               \/ EnableEnd(t)
        PROVE  CountInv' /\ Accounted' = Accounted
    <2>1. /\ CountInv' /\ UNCHANGED <<working, full, added>>
          /\ \A u \in Threads : calls'[u].samples = calls[u].samples
      BY <1>2, CountBegin
    <2> QED BY <2>1 DEF Accounted
  <1>3. ASSUME NEW t \in Threads, Accumulate(t) \/ Latch(t) \/ PublishBins(t)
        PROVE  CountInv' /\ (\A s \in Accounted : s \in Accounted')
    BY <1>3, CountMove
  <1>4. ASSUME NEW t \in Threads, ResetAccumulators(t) \/ ResetResults(t)
        PROVE  CountInv' /\ calls[t].pc \in ResetPoints /\ calls'[t] # calls[t]
    BY <1>4, CountReset
  <1>5. CASE \E t \in Threads : Step(t)
    <2>1. PICK t \in Threads : Step(t)
      BY <1>5
    <2> QED BY <2>1, <1>2, <1>3, <1>4 DEF Step
  <1>6. CASE \E t \in Threads : addSample(t) \/ enable(t) \/ disable(t)
                                \/ setNewTimeWindowForRecentResults(t)
    BY <1>2, <1>6
  <1>7. CASE \E t \in Threads : calculateStatistics(t) \/ reset(t)
    BY <1>2, <1>7
  <1> QED
    BY <1>1, <1>5, <1>6, <1>7, ThreadsAssumption DEF Next

\* The samples are numbered, and each one is in one place.
THEOREM CountInvariant == Spec => []CountInv
  <1>1. TypeOK /\ CountInv /\ [Next]_vars => CountInv'
    BY CountStep
  <1> QED BY <1>1, CountInit, TypeCorrect, PTL DEF Spec

\* No sample is ever counted twice, whichever threads calculate, reset, enable
\* or change the window at the same time.
THEOREM SampleOnceAlways == Spec => []SampleOnce
  <1>1. CountInv => SampleOnce
    BY DEF CountInv
  <1> QED BY <1>1, CountInvariant, PTL

\* No sample is ever lost but to a reset.
THEOREM NoSampleLostAlways == Spec => NoSampleLost
  <1>1. TypeOK /\ CountInv /\ [Next]_vars
          => [(\E s \in Accounted : s \notin Accounted')
                => \E t \in Threads : calls[t].pc \in ResetPoints /\ calls'[t] # calls[t]]_vars
    BY CountStep
  <1> QED BY <1>1, TypeCorrect, CountInvariant, PTL DEF Spec, NoSampleLost

-----------------------------------------------------------------------------
(* The recent window *)

\* The number of calculations that StatsBin(k) comes after, or less than 1.
Rank(k) == Len(published) - binCount + k + 1

\* Why: the bin that a calculation writes is the oldest one, and becomes the newest
\* when the working bin goes on.
WindowInv ==
    /\ \A k \in 0 .. (binCount - 1) :
          StatsBin(k).samples = IF Rank(k) >= 1 THEN published[Rank(k)] ELSE {}
    /\ recent = UNION {bins[i].samples : i \in 0 .. (binCount - 1)}
    /\ \A i \in 0 .. (binCount - 1) : bins[i].samples \subseteq full

\* The bins go round: what a position past the last bin is.
LEMMA GoesRound ==
  \A n \in Nat \ {0} : \A x \in 0 .. (2 * n - 1) : x % n = IF x < n THEN x ELSE x - n
  <1> TAKE n \in Nat \ {0}
  <1> TAKE x \in 0 .. (2 * n - 1)
  <1>1. CASE x < n
    BY <1>1
  <1>2. CASE ~(x < n)
    BY <1>2
  <1> QED BY <1>1, <1>2

\* The k-th bin from the working one, and every bin is one of these.
LEMMA BinAt ==
  \A n \in Nat \ {0} : \A w \in 0 .. (n - 1) :
    /\ \A k \in 0 .. (n - 1) :
          /\ (w + k) % n \in 0 .. (n - 1)
          /\ (w + k) % n = IF w + k < n THEN w + k ELSE w + k - n
    /\ (w + 1) % n = IF w + 1 < n THEN w + 1 ELSE 0
    /\ \A i \in 0 .. (n - 1) : \E k \in 0 .. (n - 1) : i = (w + k) % n
  <1> TAKE n \in Nat \ {0}
  <1> TAKE w \in 0 .. (n - 1)
  <1>1. ASSUME NEW k \in 0 .. (n - 1)
        PROVE  /\ (w + k) % n \in 0 .. (n - 1)
               /\ (w + k) % n = IF w + k < n THEN w + k ELSE w + k - n
    <2>1. w + k \in 0 .. (2 * n - 1)
      OBVIOUS
    <2>2. (w + k) % n = IF w + k < n THEN w + k ELSE w + k - n
      <3>1. \A x \in 0 .. (2 * n - 1) : x % n = IF x < n THEN x ELSE x - n
        BY GoesRound
      <3>2. PICK x \in 0 .. (2 * n - 1) : x = w + k
        BY <2>1
      <3>3. x % n = IF x < n THEN x ELSE x - n
        BY <3>1, Zenon
      <3> QED BY <3>2, <3>3
    <2> QED BY <2>2
  <1>2. (w + 1) % n = IF w + 1 < n THEN w + 1 ELSE 0
    <2>1. w + 1 \in 0 .. (2 * n - 1)
      OBVIOUS
    <2>2. (w + 1) % n = IF w + 1 < n THEN w + 1 ELSE w + 1 - n
      <3>1. \A x \in 0 .. (2 * n - 1) : x % n = IF x < n THEN x ELSE x - n
        BY GoesRound
      <3>2. PICK x \in 0 .. (2 * n - 1) : x = w + 1
        BY <2>1
      <3>3. x % n = IF x < n THEN x ELSE x - n
        BY <3>1, Zenon
      <3> QED BY <3>2, <3>3
    <2> QED BY <2>2
  <1>3. ASSUME NEW i \in 0 .. (n - 1)
        PROVE  \E k \in 0 .. (n - 1) : i = (w + k) % n
    <2>1. CASE i >= w
      <3>1. i - w \in 0 .. (n - 1) /\ w + (i - w) = i
        BY <2>1
      <3>2. (w + (i - w)) % n = i
        BY <3>1, <1>1
      <3> QED BY <3>1, <3>2
    <2>2. CASE ~(i >= w)
      <3>1. i - w + n \in 0 .. (n - 1) /\ w + (i - w + n) = i + n
        BY <2>2
      <3>2. (w + (i - w + n)) % n = i
        BY <3>1, <1>1
      <3> QED BY <3>1, <3>2
    <2> QED BY <2>1, <2>2
  <1> QED BY <1>1, <1>2, <1>3

\* At the start all bins are empty.
LEMMA WindowInit == Init => WindowInv
  <1> SUFFICES ASSUME Init PROVE WindowInv
    OBVIOUS
  <1>1. /\ binCount \in Nat \ {0} /\ workingBinId = 0
        /\ published = <<>> /\ recent = {}
        /\ \A i \in 0 .. (binCount - 1) : bins[i].samples = {}
    BY BinsAssumption DEF Init, EmptyBin
  <1>2. \A k \in 0 .. (binCount - 1) : StatsBin(k).samples = {} /\ ~(Rank(k) >= 1)
    <2> SUFFICES ASSUME NEW k \in 0 .. (binCount - 1)
                 PROVE  StatsBin(k).samples = {} /\ ~(Rank(k) >= 1)
      OBVIOUS
    <2>1. (workingBinId + k) % binCount \in 0 .. (binCount - 1)
      BY <1>1, BinAt
    <2>2. Len(published) = 0
      BY <1>1
    <2> QED BY <1>1, <2>1, <2>2 DEF StatsBin, Rank
  <1> QED BY <1>1, <1>2 DEF WindowInv

\* A calculation writes the oldest bin, and the working bin goes on: every bin
\* comes one place nearer to the oldest, and the written one is the newest.
LEMMA BinsTurn ==
  ASSUME TypeOK, NEW t \in Threads, PublishBins(t)
  PROVE  \A k \in 0 .. (binCount - 1) :
             StatsBin(k)' = IF k = binCount - 1
                            THEN [samples |-> calls[t].samples, duration |-> calls[t].duration,
                                  endTime |-> latchTime]
                            ELSE StatsBin(k + 1)
  <1> DEFINE n == binCount
             w == workingBinId
             bin == [samples |-> calls[t].samples, duration |-> calls[t].duration,
                     endTime |-> latchTime]
  <1>1. n \in Nat \ {0} /\ w \in 0 .. (n - 1) /\ bins \in [0 .. (n - 1) -> Bin]
    BY BinsAssumption DEF TypeOK
  <1>2. binCount' = n /\ workingBinId' = (w + 1) % n
    BY DEF PublishBins, NextBin
  <1>3. bins'[w] = bin /\ \A i \in 0 .. (n - 1) : i # w => bins'[i] = bins[i]
    BY <1>1 DEF PublishBins
  <1> HIDE DEF bin
  <1>4. ASSUME NEW k \in 0 .. (n - 1)
        PROVE  /\ k = n - 1 => StatsBin(k)' = bin
               /\ k # n - 1 => StatsBin(k)' = StatsBin(k + 1)
    <2>1. StatsBin(k)' = bins'[(workingBinId' + k) % n]
      BY <1>2 DEF StatsBin
    <2>2. workingBinId' = (IF w + 1 < n THEN w + 1 ELSE 0) /\ workingBinId' \in 0 .. (n - 1)
      <3>1. (w + 1) % n = IF w + 1 < n THEN w + 1 ELSE 0
        BY <1>1, BinAt, Zenon
      <3> QED BY <1>1, <1>2, <3>1
    <2>3. (workingBinId' + k) % n =
              IF workingBinId' + k < n THEN workingBinId' + k ELSE workingBinId' + k - n
      BY <1>1, <2>2, BinAt
    <2>5. CASE k = n - 1
      <3>1. (workingBinId' + k) % n = w
        BY <1>1, <2>2, <2>3, <2>5
      <3> QED BY <1>3, <2>1, <2>5, <3>1
    <2>6. CASE k # n - 1
      <3>1. k + 1 \in 0 .. (n - 1)
        BY <1>1, <2>6
      <3>2. (w + (k + 1)) % n = IF w + (k + 1) < n THEN w + (k + 1) ELSE w + (k + 1) - n
        BY <1>1, <3>1, BinAt
      <3>3. /\ (workingBinId' + k) % n = (w + (k + 1)) % n
            /\ (w + (k + 1)) % n # w /\ (w + (k + 1)) % n \in 0 .. (n - 1)
        BY <1>1, <2>2, <2>3, <3>1, <3>2
      <3> QED BY <1>3, <2>1, <2>6, <3>3 DEF StatsBin
    <2> QED BY <2>5, <2>6
  <1> QED BY <1>4 DEF bin

\* The end of a calculation: the oldest bin is written, and is the newest then.
LEMMA WindowPublish ==
  ASSUME TypeOK, WindowInv, NEW t \in Threads, PublishBins(t)
  PROVE  WindowInv'
  <1> DEFINE n == binCount
             w == workingBinId
             s == calls[t].samples
  <1>1. /\ n \in Nat \ {0} /\ w \in 0 .. (n - 1)
        /\ bins \in [0 .. (n - 1) -> Bin] /\ published \in Seq(SUBSET Nat)
        /\ s \in SUBSET Nat /\ Len(published) \in Nat
    BY BinsAssumption DEF TypeOK, Call
  <1>2. /\ binCount' = n /\ workingBinId' = (w + 1) % n /\ full' = full \cup s
        /\ published' = Append(published, s)
        /\ recent' = UNION {bins'[i].samples : i \in 0 .. (n - 1)}
    BY <1>1 DEF PublishBins, NextBin, Combined
  <1>3. /\ bins'[w].samples = s
        /\ \A i \in 0 .. (n - 1) : i # w => bins'[i] = bins[i]
    BY <1>1 DEF PublishBins
  <1>4. /\ Len(published') = Len(published) + 1
        /\ published'[Len(published) + 1] = s
        /\ \A i \in 1 .. Len(published) : published'[i] = published[i]
    BY <1>1, <1>2
  <1>5. ASSUME NEW k \in 0 .. (n - 1)
        PROVE  StatsBin(k)'.samples =
                   IF Rank(k)' >= 1 THEN published'[Rank(k)'] ELSE {}
    <2>1. Rank(k)' = Len(published) - n + k + 2
      BY <1>1, <1>2, <1>4 DEF Rank
    <2>2. CASE k = n - 1
      <3>1. StatsBin(k)'.samples = s
        BY <1>1, <2>2, BinsTurn
      <3>2. Rank(k)' = Len(published) + 1
        BY <1>1, <2>1, <2>2
      <3> QED BY <1>1, <1>4, <3>1, <3>2
    <2>3. CASE k # n - 1
      <3>1. k + 1 \in 0 .. (n - 1) /\ StatsBin(k)' = StatsBin(k + 1)
        BY <1>1, <2>3, BinsTurn
      <3>2. Rank(k)' = Rank(k + 1) /\ Rank(k + 1) \in Int /\ Rank(k + 1) <= Len(published)
        BY <1>1, <2>1, <3>1 DEF Rank
      <3>3. StatsBin(k + 1).samples =
                IF Rank(k + 1) >= 1 THEN published[Rank(k + 1)] ELSE {}
        BY <3>1 DEF WindowInv
      <3>4. Rank(k + 1) >= 1 => published'[Rank(k + 1)] = published[Rank(k + 1)]
        BY <1>1, <1>4, <3>2
      <3> QED BY <3>1, <3>2, <3>3, <3>4
    <2> QED BY <2>2, <2>3
  <1>6. \A i \in 0 .. (n - 1) : bins'[i].samples \subseteq full'
    BY <1>2, <1>3 DEF WindowInv
  <1> QED BY <1>2, <1>5, <1>6 DEF WindowInv

\* A reset and a change of the window leave bins that are all empty.
LEMMA WindowReset ==
  ASSUME TypeOK, NEW t \in Threads, ResetResults(t)
  PROVE  WindowInv'
  <1>1. binCount' \in Nat \ {0}
    BY BinsAssumption DEF ResetResults, TypeOK
  <1>2. /\ workingBinId' = 0 /\ published' = <<>> /\ recent' = {}
        /\ \A i \in 0 .. (binCount' - 1) : bins'[i].samples = {}
    BY DEF ResetResults, EmptyBin
  <1>3. \A k \in 0 .. (binCount' - 1) : StatsBin(k)'.samples = {} /\ ~(Rank(k)' >= 1)
    <2> SUFFICES ASSUME NEW k \in 0 .. (binCount' - 1)
                 PROVE  StatsBin(k)'.samples = {} /\ ~(Rank(k)' >= 1)
      OBVIOUS
    <2>1. (workingBinId' + k) % binCount' \in 0 .. (binCount' - 1)
      <3>1. workingBinId' \in 0 .. (binCount' - 1)
        BY <1>1, <1>2
      <3> QED BY <1>1, <3>1, BinAt, Zenon
    <2>2. Len(published') = 0
      BY <1>2
    <2> QED BY <1>1, <1>2, <2>1, <2>2 DEF StatsBin, Rank
  <1> QED BY <1>2, <1>3 DEF WindowInv

\* No other step changes the bins.
LEMMA WindowStep == TypeOK /\ WindowInv /\ [Next]_vars => WindowInv'
  <1> SUFFICES ASSUME TypeOK, WindowInv, [Next]_vars PROVE WindowInv'
    OBVIOUS
  <1> DEFINE Quiet == UNCHANGED <<binCount, workingBinId, bins, full, recent, published>>
  <1>1. Quiet => WindowInv'
    BY DEF WindowInv, StatsBin, Rank
  <1>2. CASE Tick \/ UNCHANGED vars
    BY <1>1, <1>2 DEF Tick, vars, results
  <1>3. ASSUME NEW t \in Threads,
               \/ addSample(t) \/ calculateStatistics(t) \/ reset(t) \/ enable(t) \/ disable(t)
               \/ setNewTimeWindowForRecentResults(t)
        PROVE  WindowInv'
    BY <1>1, <1>3 DEF addSample, calculateStatistics, reset, enable, disable,
                      setNewTimeWindowForRecentResults, results
  <1>4. ASSUME NEW t \in Threads, Step(t) PROVE WindowInv'
    <2>1. CASE PublishBins(t)
      BY <2>1, WindowPublish
    <2>2. CASE ResetResults(t)
      BY <2>2, WindowReset
    <2>3. CASE Accumulate(t) \/ CheckInterval(t) \/ Latch(t) \/ PublishTime(t)
               \/ ResetAccumulators(t) \/ EnableEnd(t)
      BY <1>1, <2>3 DEF Accumulate, CheckInterval, Latch, PublishTime, ResetAccumulators,
                        EnableEnd, results
    <2> QED BY <1>4, <2>1, <2>2, <2>3 DEF Step
  <1> QED BY <1>2, <1>3, <1>4, ThreadsAssumption DEF Next

\* The bins that can be read are those of the last calculations, oldest first, and
\* the recent values are their total, for any number of bins, however often it is
\* changed, and any threads that calculate and reset.
THEOREM WindowIsHistoryAlways == Spec => []WindowIsHistory
  <1>1. TypeOK /\ WindowInv => WindowIsHistory
    <2> SUFFICES ASSUME TypeOK, WindowInv PROVE WindowIsHistory
      OBVIOUS
    <2>1. binCount \in Nat \ {0} /\ workingBinId \in 0 .. (binCount - 1)
      BY BinsAssumption DEF TypeOK
    <2>2. {bins[i].samples : i \in 0 .. (binCount - 1)}
              = {StatsBin(k).samples : k \in 0 .. (binCount - 1)}
      <3>1. \A k \in 0 .. (binCount - 1) :
                (workingBinId + k) % binCount \in 0 .. (binCount - 1)
        BY <2>1, BinAt, Zenon
      <3>2. \A i \in 0 .. (binCount - 1) :
                \E k \in 0 .. (binCount - 1) : i = (workingBinId + k) % binCount
        BY <2>1, BinAt, Zenon
      <3> QED BY <3>1, <3>2, Zenon DEF StatsBin
    <2>3. recent = UNION {StatsBin(k).samples : k \in 0 .. (binCount - 1)}
      BY <2>2 DEF WindowInv
    <2>4. recent \subseteq full
      BY DEF WindowInv
    <2> QED BY <2>3, <2>4 DEF WindowIsHistory, WindowInv, Rank
  <1> QED BY <1>1, WindowInit, WindowStep, TypeCorrect, PTL DEF Spec

-----------------------------------------------------------------------------
(* In a collection *)

Collected == calls[Collector]
Collecting == {"check", "latch", "publish", "publish_bins"}
Publishing == {"publish", "publish_bins"}
Resetting(t) == calls[t].pc \in {"reset_accumulators", "reset_results"}

\* In a collection the calls on the quantity that take or reset its values are
\* made one after the other: by run() or by the holder of map_mutex_.
Exclusive ==
    /\ running \in {"calculate", "unlock"} <=> map_mutex_ = Collector
    /\ running # "none"
    /\ Collected.pc \in Collecting \cup {"idle"}
    /\ Collected.pc \in Collecting => running = "unlock"
    /\ \A t \in Threads \ {Collector} :
          /\ calls[t].pc \in {"idle", "add", "reset_accumulators", "reset_results"}
          /\ Resetting(t) => map_mutex_ = t /\ ~calls[t].enabling
    /\ resultsMutex = IF Collected.pc = "publish_bins" THEN Collector ELSE NoThread

\* What was added before a reset is nowhere but in the results about to be reset.
Forgotten ==
    /\ forgotten \subseteq 1 .. added
    /\ forgotten \cap (working \cup full \cup Collected.samples) = {}
    /\ \A t \in Threads : At(t, "reset_results") =>
          calls[t].seen <= added /\ working \cap 1 .. calls[t].seen = {}

\* The time up to which time is accounted for.
Base == IF latchTime > 0 THEN latchTime ELSE now

Times ==
    /\ StartTime <= Base /\ Base <= now
    /\ 0 <= fullDuration /\ fullDuration <= Base - StartTime
    /\ \A i \in DOMAIN bins : 0 <= bins[i].duration
    /\ Collected.pc \in {"check", "latch"} => Collected.time <= now
    /\ Collected.pc = "latch" => latchTime > 0 /\ Collected.time - latchTime >= Interval
    /\ Collected.pc \in Publishing =>
          /\ latchTime > 0 /\ 0 <= Collected.duration
          /\ fullDuration + Collected.duration <= latchTime - StartTime

FirstBin == IF Len(published) < binCount THEN binCount - Len(published) ELSE 0
NewestEnd == StatsBin(binCount - 1).endTime

EndTimes ==
    /\ \A k \in FirstBin .. (binCount - 2) : StatsBin(k).endTime < StatsBin(k + 1).endTime
    /\ published # <<>> =>
          /\ NewestEnd <= Base
          /\ Collected.pc \in Publishing => NewestEnd < latchTime
          /\ Collected.pc # "publish_bins" => NewestEnd = lastCalculationTime
    /\ Collected.pc = "publish_bins" => lastCalculationTime = latchTime

Separate == Exclusive /\ Forgotten /\ Times /\ EndTimes
CollectionInv == ~Alone => Separate

\* Every step of the collection is a step of the quantity.
LEMMA CollectionSteps == CollectionNext => [Next]_vars
  <1> SUFFICES ASSUME CollectionNext PROVE [Next]_vars
    OBVIOUS
  <1>1. CASE Run
    BY <1>1, CollectorAssumption
    DEF Run, TestStop, LockMap, CalculateQuantity, UnlockMap, Next
  <1>2. CASE addMonitoredQuantity \/ requestStop \/ Join
    BY <1>2 DEF addMonitoredQuantity, requestStop, Join
  <1>3. ASSUME NEW t \in Threads, CollectionStep(t) \/ ResetCollection(t)
        PROVE  [Next]_vars
    BY <1>3 DEF CollectionStep, ResetCollectionEnd, ResetCollection, Next
  <1>4. CASE Tick \/ \E t \in Threads : addSample(t)
    BY <1>4 DEF Next
  <1> QED BY <1>1, <1>2, <1>3, <1>4 DEF CollectionNext

LEMMA CollectionRefines == CollectionSpec => Spec
  <1>1. CollectionInit => Init
    BY DEF CollectionInit
  <1>2. [CollectionNext]_allVars => [Next]_vars
    BY CollectionSteps DEF allVars
  <1> QED BY <1>1, <1>2, PTL DEF CollectionSpec, Spec

Quantity == TypeOK /\ CountInv

LEMMA Facts ==
  ASSUME Quantity
  PROVE  /\ now \in Nat /\ latchTime \in Nat /\ added \in Nat
         /\ working \subseteq 1 .. added /\ full \subseteq 1 .. added
         /\ binCount \in Nat \ {0} /\ workingBinId \in 0 .. (binCount - 1)
         /\ bins \in [0 .. (binCount - 1) -> Bin]
         /\ fullDuration \in Int /\ published \in Seq(SUBSET Nat) /\ Len(published) \in Nat
         /\ Collector \in Threads /\ Collected \in Call /\ Collected.samples \subseteq 1 .. added
         /\ calls \in [Threads -> Call]
         /\ \A k \in 0 .. (binCount - 1) : StatsBin(k) \in Bin
  <1>1. Collector \in Threads
    BY CollectorAssumption, ThreadsAssumption
  <1>2. binCount \in Nat \ {0} /\ workingBinId \in 0 .. (binCount - 1) /\ bins \in [0 .. (binCount - 1) -> Bin]
    BY BinsAssumption DEF Quantity, TypeOK
  <1>3. ASSUME NEW k \in 0 .. (binCount - 1) PROVE StatsBin(k) \in Bin
    <2>1. (workingBinId + k) % binCount \in 0 .. (binCount - 1)
      BY <1>2, BinAt
    <2> QED BY <1>2, <2>1 DEF StatsBin
  <1> QED BY <1>1, <1>2, <1>3 DEF Quantity, TypeOK, CountInv, Collected

\* What a thread's next call or next point leaves alone.
LEMMA CallBegun ==
  ASSUME Quantity, NEW t \in Threads, NEW call, Begin(t, call)
  PROVE  calls'[t] = call /\ \A u \in Threads \ {t} : calls'[u] = calls[u]
  BY DEF Quantity, TypeOK, Begin

LEMMA CallGone ==
  ASSUME Quantity, NEW t \in Threads, NEW point, Goto(t, point)
  PROVE  /\ calls'[t] = [calls[t] EXCEPT !.pc = point] /\ calls'[t].pc = point
         /\ calls'[t].time = calls[t].time /\ calls'[t].samples = calls[t].samples
         /\ calls'[t].duration = calls[t].duration
         /\ \A u \in Threads \ {t} : calls'[u] = calls[u]
  <1>1. calls[t] \in Call /\ calls' = [calls EXCEPT ![t] = [calls[t] EXCEPT !.pc = point]]
    BY DEF Quantity, TypeOK, Goto
  <1> QED BY <1>1 DEF Quantity, TypeOK, Call

LEMMA ForgottenFrame ==
  ASSUME Forgotten, UNCHANGED <<forgotten, added, working, full>>,
         Collected'.samples = Collected.samples,
         \A t \in Threads : calls'[t].pc = "reset_results" => calls'[t] = calls[t]
  PROVE  Forgotten'
  BY DEF Forgotten, At

LEMMA TimesFrame ==
  ASSUME Times, UNCHANGED <<latchTime, now, fullDuration, bins>>, UNCHANGED Collected
  PROVE  Times'
  BY DEF Times, Base

LEMMA EndTimesFrame ==
  ASSUME EndTimes, UNCHANGED <<latchTime, now, binCount, workingBinId, bins, published>>,
         UNCHANGED lastCalculationTime, UNCHANGED Collected
  PROVE  EndTimes'
  BY DEF EndTimes, Base, FirstBin, NewestEnd, StatsBin

\* The quantity's part of the invariant, for steps that begin a call of a client.
LEMMA ClientFrame ==
  ASSUME Forgotten, Times, EndTimes,
         UNCHANGED <<now, accumulators, results, added, forgotten>>, UNCHANGED Collected,
         \A t \in Threads : calls'[t].pc = "reset_results" => calls'[t] = calls[t]
  PROVE  Forgotten' /\ Times' /\ EndTimes'
  <1>1. Forgotten'
    BY ForgottenFrame DEF accumulators, results
  <1>2. Times'
    BY TimesFrame DEF accumulators, results
  <1>3. EndTimes'
    BY EndTimesFrame DEF accumulators, results
  <1> QED BY <1>1, <1>2, <1>3


LEMMA CollectorOnly ==
  ASSUME Quantity, Separate, NEW t \in Threads, calls[t].pc \in Collecting
  PROVE  t = Collector
  BY DEF Separate, Exclusive, Collecting

LEMMA ClientOnly ==
  ASSUME Quantity, Separate, NEW t \in Threads, calls[t].pc \notin Collecting \cup {"idle"}
  PROVE  /\ t # Collector
         /\ calls[t].pc \in {"add", "reset_accumulators", "reset_results"}
         /\ Resetting(t) =>
              /\ map_mutex_ = t /\ ~calls[t].enabling /\ Collected.pc = "idle"
              /\ \A u \in Threads : Resetting(u) => u = t
  <1>1. t # Collector
    BY Facts DEF Separate, Exclusive, Collected
  <1>2. Resetting(t) => map_mutex_ = t /\ ~calls[t].enabling
    BY <1>1 DEF Separate, Exclusive
  <1>3. Resetting(t) => Collected.pc = "idle"
    BY <1>1, <1>2 DEF Separate, Exclusive
  <1>4. ASSUME Resetting(t), NEW u \in Threads, Resetting(u) PROVE u = t
    <2>1. u # Collector
      BY <1>4 DEF Separate, Exclusive, Collected, Resetting, Collecting
    <2> QED BY <1>2, <1>4, <2>1 DEF Separate, Exclusive
  <1> QED BY <1>1, <1>2, <1>3, <1>4 DEF Separate, Exclusive, Collecting

LEMMA RunSeparate ==
  ASSUME Quantity, Separate, Run
  PROVE  Separate'
  <1>0. Exclusive /\ Forgotten /\ Times /\ EndTimes /\ Collector # NoThread
    BY Facts, ThreadsAssumption DEF Separate
  <1>1. CASE UNCHANGED vars
    <2>1. Forgotten' /\ Times' /\ EndTimes'
      BY <1>0, <1>1, ClientFrame DEF vars, accumulators, results, Collected
    <2>2. Exclusive'
      <3>1. CASE TestStop
        BY <1>0, <1>1, <3>1 DEF TestStop, Exclusive, Collected, Resetting, vars
      <3>2. CASE LockMap
        BY <1>0, <1>1, <3>2, ThreadsAssumption DEF LockMap, MapFree, Exclusive, Collected, Collecting, Resetting, vars
      <3>3. CASE CalculateQuantity
        BY <1>0, <1>1, <3>3 DEF CalculateQuantity, Exclusive, Collected, Resetting, vars
      <3>4. CASE UnlockMap
        <4>1. calls[Collector].pc = "idle"
          BY <3>4 DEF UnlockMap, Idle, At
        <4> QED BY <1>0, <1>1, <3>4, <4>1 DEF UnlockMap, Exclusive, Collected, Collecting, Resetting, vars
      <3> QED BY <3>1, <3>2, <3>3, <3>4 DEF Run
    <2> QED BY <2>1, <2>2 DEF Separate
  <1>2. CASE ~UNCHANGED vars
    <2>1. calculateStatistics(Collector) /\ running = "calculate" /\ running' = "unlock" /\ UNCHANGED map_mutex_
      BY <1>2 DEF Run, TestStop, LockMap, CalculateQuantity, UnlockMap
    <2>2. /\ Collected' = [IdleCall EXCEPT !.pc = "check", !.time = now]
          /\ \A u \in Threads \ {Collector} : calls'[u] = calls[u]
      BY <2>1, Facts, CallBegun DEF calculateStatistics, Collected
    <2>3. Collected'.pc = "check" /\ Collected'.time = now /\ Collected'.samples = {}
      BY <2>2 DEF IdleCall
    <2>4. UNCHANGED <<now, enabled, latchTime, working, workingLast, binCount, workingBinId, bins, full, fullDuration,
                      recent, lastSampleValue, lastCalculationTime, published, resultsMutex, added, forgotten>>
          /\ Collected.pc = "idle"
      BY <2>1 DEF calculateStatistics, accumulators, results, Idle, At, Collected
    <2>5. Exclusive'
      BY <1>0, <2>1, <2>2, <2>3, <2>4 DEF Exclusive, Collecting, Resetting
    <2>6. Forgotten'
      BY <1>0, <2>2, <2>3, <2>4 DEF Forgotten, At, Collected
    <2>7. Times'
      BY <1>0, <2>3, <2>4, Facts DEF Times, Base, Publishing
    <2>8. EndTimes'
      BY <1>0, <2>3, <2>4 DEF EndTimes, Base, Publishing, FirstBin, NewestEnd, StatsBin
    <2> QED BY <2>5, <2>6, <2>7, <2>8 DEF Separate
  <1> QED BY <1>1, <1>2

\* The first sample after a reset starts the interval.
LEMMA AccumulateSeparate ==
  ASSUME Quantity, Separate, NEW t \in Threads, Accumulate(t), UNCHANGED collection
  PROVE  Separate'
  <1>0. Exclusive /\ Forgotten /\ Times /\ EndTimes
    BY DEF Separate
  <1>1. t # Collector
    BY ClientOnly DEF Accumulate, At, Collecting
  <1>2. calls'[t] = IdleCall /\ (\A u \in Threads \ {t} : calls'[u] = calls[u]) /\ UNCHANGED Collected
    BY <1>1, CallBegun, Facts DEF Accumulate, Return, Collected
  <1>3. /\ added' = added + 1 /\ working' = working \cup {added + 1}
        /\ latchTime' = IF latchTime <= 0 THEN now ELSE latchTime
        /\ UNCHANGED <<now, binCount, workingBinId, bins, full, fullDuration,
                       lastCalculationTime, published, resultsMutex, forgotten>>
    BY DEF Accumulate, Started, results
  <1>4. IdleCall.pc = "idle"
    BY DEF IdleCall
  <1>5. Exclusive'
    BY <1>0, <1>2, <1>3, <1>4 DEF Exclusive, Resetting, collection
  <1>6. Forgotten'
    <2>1. forgotten \subseteq 1 .. (added + 1) /\ (added + 1) \notin forgotten
      BY <1>0, Facts DEF Forgotten
    <2>2. ASSUME NEW u \in Threads, At(u, "reset_results")'
          PROVE  calls'[u].seen <= added' /\ working' \cap 1 .. calls'[u].seen = {}
      <3>1. u # t /\ calls'[u] = calls[u]
        BY <1>2, <1>4, <2>2 DEF At
      <3>2. calls[u].seen <= added /\ working \cap 1 .. calls[u].seen = {} /\ calls[u].seen \in Nat
        BY <1>0, <2>2, <3>1, Facts DEF Forgotten, At, Call
      <3> QED BY <1>3, <3>1, <3>2, Facts
    <2> QED BY <1>0, <1>2, <1>3, <2>1, <2>2 DEF Forgotten
  <1>7. Base' = Base
    BY <1>0, <1>3, Facts, TimeAssumption DEF Base, Times
  <1>8. Times'
    BY <1>0, <1>2, <1>3, <1>7, Facts DEF Times
  <1>9. EndTimes'
    <2>1. Collected.pc \in Publishing => latchTime' = latchTime
      BY <1>0, <1>3, Facts DEF Times
    <2>2. Collected.pc = "publish_bins" => Collected.pc \in Publishing
      BY DEF Publishing
    <2> QED BY <1>0, <1>2, <1>3, <1>7, <2>1, <2>2 DEF EndTimes, FirstBin, NewestEnd, StatsBin
  <1> QED BY <1>5, <1>6, <1>8, <1>9 DEF Separate

\* Nothing comes between the test of the interval and its use.
LEMMA CheckIntervalSeparate ==
  ASSUME Quantity, Separate, NEW t \in Threads, CheckInterval(t), UNCHANGED collection
  PROVE  Separate'
  <1>0. Exclusive /\ Forgotten /\ Times /\ EndTimes
    BY DEF Separate
  <1>1. t = Collector /\ Collected.pc = "check" /\ running = "unlock" /\ Collected.samples = {} /\ Collected.time \in Nat
    BY <1>0, CollectorOnly, Facts DEF CheckInterval, At, Collecting, Exclusive, Collected, Quantity, CountInv, Call
  <1>2. UNCHANGED <<now, enabled, latchTime, working, workingLast, binCount, workingBinId, bins, full, fullDuration,
                    recent, lastSampleValue, lastCalculationTime, published, resultsMutex, added, forgotten>>
    BY DEF CheckInterval, accumulators, results
  <1>3. /\ \A u \in Threads \ {Collector} : calls'[u] = calls[u]
        /\ Collected'.samples = {}
        /\ \/ Collected'.pc = "idle"
           \/ Collected'.pc = "latch" /\ Collected'.time = Collected.time /\ latchTime > 0 /\ Collected.time - latchTime >= Interval
    <2>1. CASE Goto(t, "latch") /\ latchTime > 0 /\ Collected.time - latchTime >= Interval
      BY <1>1, <2>1, CallGone DEF Collected
    <2>2. CASE Return(t)
      BY <1>1, <2>2, CallBegun DEF Return, Collected, IdleCall
    <2> QED BY <1>1, <2>1, <2>2 DEF CheckInterval, Collected
  <1>4. Exclusive'
    BY <1>0, <1>1, <1>2, <1>3 DEF Exclusive, Collecting, Resetting, collection
  <1>5. Forgotten'
    <2>1. \A u \in Threads : At(u, "reset_results")' => At(u, "reset_results") /\ calls'[u] = calls[u]
      BY <1>3 DEF At, Collected
    <2> QED BY <1>0, <1>2, <1>3, <2>1 DEF Forgotten
  <1>6. Times'
    BY <1>0, <1>1, <1>2, <1>3 DEF Times, Base, Publishing
  <1>7. EndTimes'
    BY <1>0, <1>1, <1>2, <1>3 DEF EndTimes, Base, Publishing, FirstBin, NewestEnd, StatsBin
  <1> QED BY <1>4, <1>5, <1>6, <1>7 DEF Separate

\* The time of the calculation is the newest there is.
LEMMA LatchSeparate ==
  ASSUME Quantity, Separate, NEW t \in Threads, Latch(t), UNCHANGED collection
  PROVE  Separate'
  <1>0. Exclusive /\ Forgotten /\ Times /\ EndTimes
    BY DEF Separate
  <1>1. /\ t = Collector /\ Collected.pc = "latch" /\ running = "unlock"
        /\ Collected.time <= now /\ latchTime > 0 /\ Collected.time - latchTime >= Interval
        /\ Collected.time \in Nat
    BY <1>0, CollectorOnly, Facts DEF Latch, At, Collecting, Exclusive, Collected, Times, Call
  <1>2. /\ latchTime' = Collected.time /\ working' = {}
        /\ UNCHANGED <<now, binCount, workingBinId, bins, full, fullDuration,
                       lastCalculationTime, published, resultsMutex, added, forgotten>>
    BY <1>1 DEF Latch, Taken, results, Collected
  <1>3. /\ \A u \in Threads \ {Collector} : calls'[u] = calls[u]
        /\ Collected' = [Collected EXCEPT !.pc = "publish", !.samples = working,
                             !.duration = Collected.time - latchTime, !.last = workingLast]
    BY <1>1, CallBegun DEF Latch, Collected
  <1>4. Collected'.pc = "publish" /\ Collected'.samples = working /\ Collected'.duration = Collected.time - latchTime
    BY <1>3, Facts DEF Call
  <1>5. Exclusive'
    BY <1>0, <1>1, <1>2, <1>3, <1>4 DEF Exclusive, Collecting, Resetting, collection
  <1>6. Forgotten'
    <2>1. \A u \in Threads : At(u, "reset_results")' => At(u, "reset_results") /\ calls'[u] = calls[u]
      BY <1>3, <1>4 DEF At, Collected
    <2> QED BY <1>0, <1>2, <1>4, <2>1 DEF Forgotten
  <1>7. Base' = Collected.time /\ Base = latchTime /\ latchTime' > latchTime
    BY <1>1, <1>2, Facts, TimeAssumption DEF Base
  <1>8. Times'
    <2>1. /\ 0 <= fullDuration /\ fullDuration <= latchTime - StartTime /\ StartTime <= latchTime
          /\ fullDuration \in Int /\ latchTime \in Nat /\ StartTime \in Nat /\ Interval \in Nat /\ now \in Nat
      BY <1>0, <1>7, Facts, TimeAssumption DEF Times
    <2>2. /\ StartTime <= Base' /\ Base' <= now' /\ 0 <= fullDuration' /\ fullDuration' <= Base' - StartTime
          /\ latchTime' > 0 /\ 0 <= Collected'.duration
          /\ fullDuration' + Collected'.duration <= latchTime' - StartTime
      BY <1>1, <1>2, <1>4, <1>7, <2>1
    <2> QED BY <1>0, <1>2, <1>4, <2>2 DEF Times
  <1>9. EndTimes'
    <2>1. published # <<>> => NewestEnd \in Nat /\ NewestEnd <= latchTime /\ NewestEnd = lastCalculationTime
      <3>1. binCount - 1 \in 0 .. (binCount - 1)
        BY Facts
      <3> QED BY <1>0, <1>1, <1>7, <3>1, Facts DEF EndTimes, NewestEnd, Bin
    <2>2. NewestEnd' = NewestEnd
      BY <1>2 DEF NewestEnd, StatsBin
    <2>3. latchTime \in Nat /\ latchTime' \in Nat
      BY <1>1, <1>2, Facts
    <2>4. \A k \in FirstBin' .. (binCount' - 2) : StatsBin(k)'.endTime < StatsBin(k + 1)'.endTime
      BY <1>0, <1>2 DEF EndTimes, FirstBin, StatsBin
    <2> QED BY <1>2, <1>4, <1>7, <2>1, <2>2, <2>3, <2>4 DEF EndTimes
  <1> QED BY <1>5, <1>6, <1>8, <1>9 DEF Separate


LEMMA PublishTimeSeparate ==
  ASSUME Quantity, Separate, NEW t \in Threads, PublishTime(t), UNCHANGED collection
  PROVE  Separate'
  <1>0. Exclusive /\ Forgotten /\ Times /\ EndTimes
    BY DEF Separate
  <1>1. t = Collector /\ Collected.pc = "publish" /\ running = "unlock"
    BY <1>0, CollectorOnly DEF PublishTime, At, Collecting, Exclusive, Collected
  <1>2. /\ lastCalculationTime' = latchTime /\ resultsMutex' = Collector
        /\ UNCHANGED <<now, latchTime, working, binCount, workingBinId, bins, full, fullDuration,
                       published, added, forgotten>>
    BY <1>1 DEF PublishTime, accumulators
  <1>3. /\ \A u \in Threads \ {Collector} : calls'[u] = calls[u]
        /\ Collected'.pc = "publish_bins" /\ Collected'.time = Collected.time
        /\ Collected'.samples = Collected.samples /\ Collected'.duration = Collected.duration
    BY <1>1, CallGone DEF PublishTime, Collected
  <1>4. Exclusive'
    BY <1>0, <1>1, <1>2, <1>3 DEF Exclusive, Collecting, Resetting, collection
  <1>5. Forgotten'
    <2>1. \A u \in Threads : At(u, "reset_results")' => At(u, "reset_results") /\ calls'[u] = calls[u]
      BY <1>3 DEF At, Collected
    <2> QED BY <1>0, <1>2, <1>3, <2>1 DEF Forgotten
  <1>6. Times'
    BY <1>0, <1>1, <1>2, <1>3 DEF Times, Base, Publishing
  <1>7. EndTimes'
    BY <1>0, <1>1, <1>2, <1>3 DEF EndTimes, Base, Publishing, FirstBin, NewestEnd, StatsBin
  <1> QED BY <1>4, <1>5, <1>6, <1>7 DEF Separate

\* The newest bin ends later than all others.
LEMMA PublishBinsSeparate ==
  ASSUME Quantity, Separate, NEW t \in Threads, PublishBins(t), UNCHANGED collection
  PROVE  Separate'
  <1>0. Exclusive /\ Forgotten /\ Times /\ EndTimes
    BY DEF Separate
  <1>1. t = Collector /\ Collected.pc = "publish_bins" /\ Collected.pc \in Publishing
        /\ latchTime > 0 /\ latchTime \in Nat /\ lastCalculationTime = latchTime
    BY <1>0, CollectorOnly, Facts DEF PublishBins, At, Collecting, Publishing, Collected, Times, EndTimes
  <1>2. /\ full' = full \cup Collected.samples /\ fullDuration' = fullDuration + Collected.duration
        /\ resultsMutex' = NoThread /\ published' = Append(published, Collected.samples)
        /\ UNCHANGED <<now, latchTime, working, binCount, lastCalculationTime, added, forgotten>>
    BY <1>1 DEF PublishBins, Combined, accumulators, Collected
  <1>3. /\ \A u \in Threads \ {Collector} : calls'[u] = calls[u]
        /\ Collected'.pc = "idle" /\ Collected'.samples = {}
    BY <1>1, CallBegun DEF PublishBins, Return, Collected, IdleCall
  <1>4. Exclusive'
    BY <1>0, <1>2, <1>3 DEF Exclusive, Collecting, Resetting, collection
  <1>5. Forgotten'
    <2>1. \A u \in Threads : At(u, "reset_results")' => At(u, "reset_results") /\ calls'[u] = calls[u]
      BY <1>3 DEF At, Collected
    <2> QED BY <1>0, <1>2, <1>3, <2>1 DEF Forgotten
  <1>6. Times'
    <2>1. 0 <= fullDuration' /\ fullDuration' <= Base' - StartTime /\ 0 <= Collected.duration
          /\ StartTime <= Base' /\ Base' <= now'
      <3>1. Base = latchTime /\ Base' = latchTime
        BY <1>1, <1>2 DEF Base
      <3>2. Collected.duration \in Int /\ fullDuration \in Int /\ StartTime \in Nat
        BY Facts, TimeAssumption DEF Call
      <3> QED BY <1>0, <1>1, <1>2, <3>1, <3>2 DEF Times
    <2>2. \A i \in DOMAIN bins' : 0 <= bins'[i].duration
      <3>1. bins' = [bins EXCEPT ![workingBinId] = [samples |-> Collected.samples,
                        duration |-> Collected.duration, endTime |-> latchTime]]
        BY <1>1 DEF PublishBins, Collected
      <3>2. \A i \in DOMAIN bins : 0 <= bins[i].duration
        BY <1>0 DEF Times
      <3> QED BY <2>1, <3>1, <3>2, Facts
    <2> QED BY <1>3, <2>1, <2>2 DEF Times, Publishing
  <1>7. EndTimes'
    <2> DEFINE n == binCount
               End(k) == StatsBin(k).endTime
    <2>1. /\ n \in Nat \ {0} /\ Len(published) \in Nat /\ Len(published') = Len(published) + 1
          /\ published' # <<>> /\ binCount' = n
      BY <1>2, Facts
    <2>2. \A k \in 0 .. (n - 1) : StatsBin(k)' =
              IF k = n - 1 THEN [samples |-> calls[t].samples, duration |-> calls[t].duration,
                                 endTime |-> latchTime]
              ELSE StatsBin(k + 1)
      BY BinsTurn DEF Quantity
    <2>3. \A k \in 0 .. (n - 1) : End(k)' = IF k = n - 1 THEN latchTime ELSE End(k + 1)
      BY <2>2
    <2>4. \A k \in FirstBin .. (n - 2) : End(k) < End(k + 1)
      BY <1>0 DEF EndTimes
    <2>5. published # <<>> => End(n - 1) < latchTime
      BY <1>0, <1>1 DEF EndTimes, NewestEnd
    <2>6. published # <<>> <=> Len(published) # 0
      BY Facts
    <2>7. NewestEnd' = latchTime
      <3>1. PICK k \in 0 .. (n - 1) : k = n - 1
        BY <2>1
      <3>2. StatsBin(binCount - 1)' = StatsBin(k)'
        BY <2>1, <3>1 DEF StatsBin
      <3> QED BY <2>3, <3>1, <3>2 DEF NewestEnd
    <2> HIDE DEF End, n
    <2>8. ASSUME NEW k \in FirstBin' .. (binCount' - 2) PROVE End(k)' < End(k + 1)'
      <3>1. FirstBin' = IF Len(published) + 1 < n THEN n - (Len(published) + 1) ELSE 0
        BY <2>1 DEF FirstBin
      <3>2. k \in 0 .. (n - 1) /\ k # n - 1 /\ k + 1 \in 0 .. (n - 1) /\ k <= n - 2
        BY <2>1, <3>1
      <3>3. End(k)' = End(k + 1)
        BY <2>3, <3>2
      <3>4. CASE k = n - 2
        <4>1. End(k + 1)' = latchTime /\ End(k + 1) = End(n - 1)
          BY <2>1, <2>3, <3>2, <3>4
        <4>2. Len(published) # 0
          BY <2>1, <3>1, <3>2, <3>4
        <4> QED BY <2>5, <2>6, <3>3, <4>1, <4>2
      <3>5. CASE k # n - 2
        <4>1. End(k + 1)' = End((k + 1) + 1)
          BY <2>1, <2>3, <3>2, <3>5
        <4>2. FirstBin = (IF Len(published) < n THEN n - Len(published) ELSE 0) /\ k + 1 \in FirstBin .. (n - 2)
          BY <2>1, <3>1, <3>2, <3>5 DEF FirstBin, n
        <4> QED BY <2>4, <3>3, <4>1, <4>2
      <3> QED BY <3>4, <3>5
    <2>9. \A k \in FirstBin' .. (binCount' - 2) : StatsBin(k)'.endTime < StatsBin(k + 1)'.endTime
      BY <2>8 DEF End
    <2>10. Base' = latchTime
      BY <1>1, <1>2 DEF Base
    <2> QED BY <1>1, <1>2, <1>3, <2>7, <2>9, <2>10 DEF EndTimes, Publishing
  <1> QED BY <1>4, <1>5, <1>6, <1>7 DEF Separate

\* The clock of the interval is stopped: no calculation is under way.
LEMMA ResetAccumulatorsSeparate ==
  ASSUME Quantity, Separate, NEW t \in Threads, ResetAccumulators(t), UNCHANGED collection
  PROVE  Separate'
  <1>0. Exclusive /\ Forgotten /\ Times /\ EndTimes
    BY DEF Separate
  <1>1. /\ t # Collector /\ calls[t].pc = "reset_accumulators" /\ Resetting(t)
        /\ map_mutex_ = t /\ ~calls[t].enabling /\ Collected.pc = "idle"
        /\ \A u \in Threads : Resetting(u) => u = t
    <2>1. calls[t].pc \notin Collecting \cup {"idle"}
      BY DEF ResetAccumulators, Collecting
    <2>2. calls[t].pc = "reset_accumulators"
      BY <2>1, ClientOnly DEF ResetAccumulators
    <2>3. Resetting(t)
      BY <2>2 DEF Resetting
    <2> QED BY <2>1, <2>2, <2>3, ClientOnly
  <1>2. /\ latchTime' = 0 /\ working' = {}
        /\ UNCHANGED <<now, binCount, workingBinId, bins, full, fullDuration,
                       lastCalculationTime, published, resultsMutex, added, forgotten>>
    BY DEF ResetAccumulators, results
  <1>3. /\ \A u \in Threads \ {t} : calls'[u] = calls[u]
        /\ calls'[t] = [calls[t] EXCEPT !.pc = "reset_results", !.seen = added]
        /\ UNCHANGED Collected
    BY <1>1, CallBegun, Facts DEF ResetAccumulators, At, Collected
  <1>4. calls'[t].pc = "reset_results" /\ calls'[t].seen = added /\ calls'[t].enabling = calls[t].enabling
    BY <1>3, Facts DEF Call
  <1>5. Exclusive'
    BY <1>0, <1>1, <1>2, <1>3, <1>4 DEF Exclusive, Resetting, collection
  <1>6. Forgotten'
    <2>1. \A u \in Threads : At(u, "reset_results")' => u = t
      BY <1>1, <1>3 DEF At, Resetting
    <2>2. \A u \in Threads : At(u, "reset_results")' =>
              calls'[u].seen <= added' /\ working' \cap 1 .. calls'[u].seen = {}
      <3>1. calls'[t].seen <= added'
        BY <1>2, <1>4, Facts
      <3> QED BY <1>2, <2>1, <3>1
    <2> QED BY <1>0, <1>2, <1>3, <2>2 DEF Forgotten
  <1>7. Base' = now /\ Base <= now
    BY <1>0, <1>2 DEF Base, Times
  <1>8. Times'
    <2>1. now \in Nat /\ latchTime \in Nat /\ fullDuration \in Int /\ StartTime \in Nat
      BY Facts, TimeAssumption
    <2>2. Base \in Nat
      BY <2>1 DEF Base
    <2> QED BY <1>0, <1>1, <1>2, <1>3, <1>7, <2>1, <2>2 DEF Times, Publishing
  <1>9. EndTimes'
    <2>1. published # <<>> => NewestEnd \in Nat /\ NewestEnd <= Base
      <3>1. binCount - 1 \in 0 .. (binCount - 1)
        BY Facts
      <3> QED BY <1>0, <3>1, Facts DEF EndTimes, NewestEnd, Bin
    <2>2. NewestEnd' = NewestEnd
      BY <1>2 DEF NewestEnd, StatsBin
    <2>3. \A k \in FirstBin' .. (binCount' - 2) : StatsBin(k)'.endTime < StatsBin(k + 1)'.endTime
      BY <1>0, <1>2 DEF EndTimes, FirstBin, StatsBin
    <2>4. Base \in Nat /\ now \in Nat
      BY Facts DEF Base
    <2> QED BY <1>0, <1>1, <1>2, <1>3, <1>7, <2>1, <2>2, <2>3, <2>4 DEF EndTimes, Publishing
  <1> QED BY <1>5, <1>6, <1>8, <1>9 DEF Separate

LEMMA ResetResultsSeparate ==
  ASSUME Quantity, Separate, NEW t \in Threads, ResetResults(t), UNCHANGED collection
  PROVE  Separate'
  <1>0. Exclusive /\ Forgotten /\ Times /\ EndTimes
    BY DEF Separate
  <1>1. /\ t # Collector /\ calls[t].pc = "reset_results" /\ Resetting(t)
        /\ map_mutex_ = t /\ ~calls[t].enabling /\ Collected.pc = "idle"
        /\ \A u \in Threads : Resetting(u) => u = t
    <2>1. calls[t].pc \notin Collecting \cup {"idle"}
      BY DEF ResetResults, Collecting
    <2>2. calls[t].pc = "reset_results"
      BY <2>1, ClientOnly DEF ResetResults
    <2>3. Resetting(t)
      BY <2>2 DEF Resetting
    <2> QED BY <2>1, <2>2, <2>3, ClientOnly
  <1>2. /\ binCount' = binCount /\ workingBinId' = 0 /\ bins' = [i \in 0 .. (binCount - 1) |-> EmptyBin]
        /\ full' = {} /\ fullDuration' = 0 /\ published' = <<>>
        /\ forgotten' = forgotten \cup 1 .. calls[t].seen
        /\ UNCHANGED <<now, latchTime, working, lastCalculationTime, resultsMutex, added>>
    BY <1>1 DEF ResetResults, At, accumulators
  <1>3. /\ \A u \in Threads \ {t} : calls'[u] = calls[u]
        /\ calls'[t] = IdleCall /\ UNCHANGED Collected
    BY <1>1, CallBegun, Facts DEF ResetResults, At, Return, Collected
  <1>4. IdleCall.pc = "idle"
    BY DEF IdleCall
  <1>5. Exclusive'
    BY <1>0, <1>1, <1>2, <1>3, <1>4 DEF Exclusive, Resetting, collection
  <1>6. Forgotten'
    <2>1. \A u \in Threads : ~At(u, "reset_results")'
      BY <1>1, <1>3, <1>4 DEF At, Resetting
    <2>2. calls[t].seen <= added /\ working \cap 1 .. calls[t].seen = {} /\ calls[t].seen \in Nat
      BY <1>0, <1>1, Facts DEF Forgotten, At, Call
    <2>3. 1 .. calls[t].seen \subseteq 1 .. added
      BY <2>2, Facts
    <2>4. Collected.samples = {}
      BY <1>1, Facts DEF Quantity, CountInv, Collected
    <2> QED BY <1>0, <1>2, <1>3, <2>1, <2>2, <2>3, <2>4 DEF Forgotten
  <1>7. Times'
    <2>1. \A i \in DOMAIN bins' : 0 <= bins'[i].duration
      BY <1>2 DEF EmptyBin
    <2>2. Base' = Base /\ Base \in Nat /\ StartTime \in Nat
      BY <1>2, Facts, TimeAssumption DEF Base
    <2> QED BY <1>0, <1>1, <1>2, <1>3, <2>1, <2>2 DEF Times, Publishing
  <1>8. EndTimes'
    <2>1. FirstBin' = binCount
      BY <1>2, Facts DEF FirstBin
    <2>2. binCount .. (binCount - 2) = {}
      BY Facts
    <2> QED BY <1>1, <1>2, <1>3, <2>1, <2>2 DEF EndTimes
  <1> QED BY <1>5, <1>6, <1>7, <1>8 DEF Separate

LEMMA StepSeparate ==
  ASSUME Quantity, Separate, NEW t \in Threads, Step(t), UNCHANGED collection
  PROVE  Separate'
  <1>1. ~EnableEnd(t)
    BY ClientOnly DEF EnableEnd, At, Collecting
  <1> QED BY <1>1, AccumulateSeparate, CheckIntervalSeparate, LatchSeparate, PublishTimeSeparate,
             PublishBinsSeparate, ResetAccumulatorsSeparate, ResetResultsSeparate DEF Step

\* The steps that begin or end a client's call, and the clock.
LEMMA ClientSeparate ==
  ASSUME Quantity, Separate, NEW t \in Threads,
         \/ ResetCollection(t) \/ ResetCollectionEnd(t)
         \/ addSample(t) /\ UNCHANGED collection
  PROVE  Separate'
  <1>0. Exclusive /\ Forgotten /\ Times /\ EndTimes
    BY DEF Separate
  <1>1. t # Collector /\ t # NoThread
    BY CollectorAssumption, ThreadsAssumption DEF ResetCollection, ResetCollectionEnd, addSample
  <1>2. CASE ResetCollectionEnd(t)
    <2>1. calls[t].pc = "idle" /\ map_mutex_ = t /\ map_mutex_' = NoThread
          /\ UNCHANGED <<vars, registered, thread_stop_requested_, running, destroyed>>
      BY <1>2 DEF ResetCollectionEnd, Idle, At
    <2>2. Forgotten' /\ Times' /\ EndTimes'
      BY <1>0, <2>1, ClientFrame DEF vars, accumulators, results, Collected
    <2>3. Exclusive'
      BY <1>0, <1>1, <2>1, Facts, ThreadsAssumption DEF Exclusive, Collected, Resetting, vars
    <2> QED BY <2>2, <2>3 DEF Separate
  <1>3. CASE ResetCollection(t)
    <2>1. /\ map_mutex_ = NoThread /\ map_mutex_' = t /\ UNCHANGED <<registered, thread_stop_requested_, running, destroyed>>
          /\ Begin(t, [IdleCall EXCEPT !.pc = "reset_accumulators"])
          /\ UNCHANGED <<now, enabled, accumulators, results, resultsMutex, added, forgotten>>
      BY <1>3 DEF ResetCollection, MapFree, reset
    <2>2. /\ calls'[t].pc = "reset_accumulators" /\ ~calls'[t].enabling
          /\ (\A u \in Threads \ {t} : calls'[u] = calls[u]) /\ UNCHANGED Collected
      BY <1>1, <2>1, CallBegun, Facts DEF IdleCall, Collected
    <2>3. Forgotten' /\ Times' /\ EndTimes'
      BY <1>0, <2>1, <2>2, ClientFrame
    <2>4. Exclusive'
      BY <1>0, <1>1, <2>1, <2>2, Facts, ThreadsAssumption DEF Exclusive, Resetting
    <2> QED BY <2>3, <2>4 DEF Separate
  <1>4. CASE addSample(t) /\ UNCHANGED collection
    <2>1. /\ Begin(t, [IdleCall EXCEPT !.pc = "add"])
          /\ UNCHANGED <<now, enabled, accumulators, results, resultsMutex, added, forgotten>>
      BY <1>4 DEF addSample
    <2>2. /\ calls'[t].pc = "add"
          /\ (\A u \in Threads \ {t} : calls'[u] = calls[u]) /\ UNCHANGED Collected
      BY <1>1, <2>1, CallBegun, Facts DEF IdleCall, Collected
    <2>3. Forgotten' /\ Times' /\ EndTimes'
      BY <1>0, <2>1, <2>2, ClientFrame
    <2>4. Exclusive'
      BY <1>0, <1>1, <1>4, <2>1, <2>2 DEF Exclusive, Resetting, collection
    <2> QED BY <2>3, <2>4 DEF Separate
  <1> QED BY <1>2, <1>3, <1>4

LEMMA TickSeparate ==
  ASSUME Quantity, Separate, Tick, UNCHANGED collection
  PROVE  Separate'
  <1>0. Exclusive /\ Forgotten /\ Times /\ EndTimes
    BY DEF Separate
  <1>1. /\ now' = now + 1 /\ now \in Nat /\ latchTime \in Nat /\ StartTime \in Nat /\ fullDuration \in Int
        /\ UNCHANGED <<enabled, accumulators, results, resultsMutex, calls, added, forgotten>>
        /\ UNCHANGED Collected
    BY Facts, TimeAssumption DEF Tick, Collected
  <1>2. Exclusive'
    BY <1>0, <1>1 DEF Exclusive, Resetting, collection
  <1>3. Forgotten'
    BY <1>0, <1>1, ForgottenFrame DEF accumulators, results
  <1>4. Base <= Base' /\ Base' <= now' /\ Base \in Nat /\ Base' \in Nat
    BY <1>0, <1>1 DEF Base, Times, accumulators
  <1>5. Times'
    <2>1. Collected.pc \in {"check", "latch"} => Collected.time <= now'
      BY <1>0, <1>1, Facts DEF Times, Call
    <2>2. /\ StartTime <= Base' /\ Base' <= now'
          /\ 0 <= fullDuration /\ fullDuration <= Base' - StartTime
      <3>1. StartTime <= Base /\ 0 <= fullDuration /\ fullDuration <= Base - StartTime
        BY <1>0 DEF Times
      <3>2. StartTime <= Base'
        BY <1>1, <1>4, <3>1
      <3>3. fullDuration <= Base' - StartTime
        <4>1. \A d, x, y, z \in Int : d <= x - z /\ x <= y => d <= y - z
          OBVIOUS
        <4>2. fullDuration \in Int /\ StartTime \in Int
          BY <1>1
        <4>3. Base \in Int /\ Base' \in Int /\ Base <= Base'
          BY <1>4
        <4> QED BY <3>1, <4>1, <4>2, <4>3
      <3> QED BY <1>4, <3>1, <3>2, <3>3
    <2>3. fullDuration' = fullDuration /\ bins' = bins /\ latchTime' = latchTime
      BY <1>1 DEF accumulators, results
    <2> QED BY <1>0, <1>1, <2>1, <2>2, <2>3 DEF Times
  <1>6. EndTimes'
    <2>1. published # <<>> => NewestEnd \in Nat /\ NewestEnd <= Base
      <3>1. binCount - 1 \in 0 .. (binCount - 1)
        BY Facts
      <3> QED BY <1>0, <3>1, Facts DEF EndTimes, NewestEnd, Bin
    <2>2. NewestEnd' = NewestEnd
      BY <1>1 DEF NewestEnd, StatsBin, results
    <2>3. \A k \in FirstBin' .. (binCount' - 2) : StatsBin(k)'.endTime < StatsBin(k + 1)'.endTime
      BY <1>0, <1>1 DEF EndTimes, FirstBin, StatsBin, results
    <2> QED BY <1>0, <1>1, <1>4, <2>1, <2>2, <2>3 DEF EndTimes, accumulators, results
  <1> QED BY <1>2, <1>3, <1>5, <1>6 DEF Separate

LEMMA CollectionStart == CollectionInit => CollectionInv
  <1> SUFFICES ASSUME CollectionInit, ~Alone PROVE Separate
    BY DEF CollectionInv
  <1>1. /\ running = "test" /\ map_mutex_ = NoThread /\ resultsMutex = NoThread /\ forgotten = {} /\ added = 0
        /\ now = StartTime /\ latchTime = 0 /\ fullDuration = 0 /\ published = <<>>
        /\ calls = [u \in Threads |-> IdleCall] /\ binCount \in Nat \ {0}
        /\ bins = [i \in 0 .. (binCount - 1) |-> EmptyBin]
    BY BinsAssumption DEF CollectionInit, Init, Alone
  <1>2. Collector \in Threads /\ Collector # NoThread /\ Collected = IdleCall
    BY <1>1, CollectorAssumption, ThreadsAssumption DEF Collected
  <1>3. IdleCall.pc = "idle"
    BY DEF IdleCall
  <1>4. Exclusive
    BY <1>1, <1>2, <1>3 DEF Exclusive, Collecting, Resetting
  <1>5. Forgotten
    BY <1>1, <1>3 DEF Forgotten, At
  <1>6. Times
    BY <1>1, <1>2, <1>3, TimeAssumption DEF Times, Base, EmptyBin, Publishing
  <1>7. EndTimes
    <2>1. FirstBin = binCount /\ binCount .. (binCount - 2) = {}
      BY <1>1 DEF FirstBin
    <2> QED BY <1>1, <1>2, <1>3, <2>1 DEF EndTimes
  <1> QED BY <1>4, <1>5, <1>6, <1>7 DEF Separate

LEMMA CollectionKeeps == Quantity /\ CollectionInv /\ [CollectionNext]_allVars => CollectionInv'
  <1> SUFFICES ASSUME Quantity, CollectionInv, [CollectionNext]_allVars, ~Alone' PROVE Separate'
    BY DEF CollectionInv
  <1>1. CASE UNCHANGED allVars
    <2>1. Separate
      BY <1>1 DEF CollectionInv, Alone, allVars, collection
    <2>2. Forgotten' /\ Times' /\ EndTimes'
      BY <1>1, <2>1, ClientFrame DEF Separate, allVars, vars, accumulators, results, Collected
    <2>3. Exclusive'
      BY <1>1, <2>1 DEF Separate, Exclusive, Collected, Resetting, allVars, vars, collection
    <2> QED BY <2>2, <2>3 DEF Separate
  <1>2. CASE CollectionNext
    <2>1. ~Alone /\ Separate
      BY <1>2 DEF CollectionInv, Alone, CollectionNext, Run, TestStop, LockMap, CalculateQuantity, UnlockMap,
                  addMonitoredQuantity, requestStop, Join, CollectionStep, ResetCollection, ResetCollectionEnd, collection
    <2>2. CASE Run
      BY <2>1, <2>2, RunSeparate
    <2>3. CASE addMonitoredQuantity \/ requestStop \/ Join
      <3>1. UNCHANGED <<vars, map_mutex_, running>>
        BY <2>3 DEF addMonitoredQuantity, requestStop, Join
      <3>2. Forgotten' /\ Times' /\ EndTimes'
        BY <2>1, <3>1, ClientFrame DEF Separate, vars, accumulators, results, Collected
      <3>3. Exclusive'
        BY <2>1, <3>1 DEF Separate, Exclusive, Collected, Resetting, vars
      <3> QED BY <3>2, <3>3 DEF Separate
    <2>4. ASSUME NEW t \in Threads, CollectionStep(t) \/ ResetCollection(t) PROVE Separate'
      BY <2>1, <2>4, StepSeparate, ClientSeparate DEF CollectionStep
    <2>5. CASE (Tick \/ \E t \in Threads : addSample(t)) /\ UNCHANGED collection
      BY <2>1, <2>5, TickSeparate, ClientSeparate
    <2> QED BY <1>2, <2>1, <2>2, <2>3, <2>4, <2>5 DEF CollectionNext
  <1> QED BY <1>1, <1>2

LEMMA CollectionInvariant == CollectionSpec => [](Quantity /\ CollectionInv)
  <1>1. CollectionSpec => []Quantity
    BY CollectionRefines, TypeCorrect, CountInvariant, PTL DEF Quantity
  <1> QED BY <1>1, CollectionStart, CollectionKeeps, PTL DEF CollectionSpec

\* What is proved of a quantity holds of one in a collection: no sample is
\* counted twice, and the recent window is that of the last calculations.
THEOREM CollectionCounts == CollectionSpec => [](SampleOnce /\ WindowIsHistory)
  BY CollectionRefines, SampleOnceAlways, WindowIsHistoryAlways, PTL

\* Because the collection makes its calls under map_mutex_, no results from before
\* a reset are published after it.
THEOREM CollectedFreshAlways == CollectionSpec => []CollectedFresh
  <1>1. CollectionInv => CollectedFresh
    BY DEF CollectionInv, Separate, Forgotten, CollectedFresh, FreshStart
  <1> QED BY <1>1, CollectionInvariant, PTL

\* Nor does a reset come between a calculation's test of the time and its use of
\* it: durations are time that has passed, and the end times go forwards.
THEOREM CollectedInOrderAlways == CollectionSpec => []CollectedInOrder
  <1>1. ASSUME Quantity, Separate PROVE DurationsReal
    <2>1. Base \in Nat /\ now \in Nat /\ StartTime \in Nat /\ fullDuration \in Int
      BY <1>1, Facts, TimeAssumption DEF Base
    <2> QED BY <1>1, <2>1 DEF Separate, Times, DurationsReal
  <1>2. ASSUME Quantity, Separate, resultsMutex = NoThread PROVE Collected.pc # "publish_bins"
    BY <1>2, Facts, ThreadsAssumption DEF Separate, Exclusive
  <1>3. ASSUME Quantity, Separate PROVE EndTimesInOrder
    BY <1>2, <1>3 DEF Separate, EndTimes, EndTimesInOrder, FirstBin, NewestEnd
  <1>4. Quantity /\ CollectionInv => CollectedInOrder
    BY <1>1, <1>3 DEF CollectionInv, CollectedInOrder
  <1> QED BY <1>4, CollectionInvariant, PTL

================================================================================
