----------------------------- MODULE PeriodTimer -----------------------------
(***************************************************************************)
(* work/pcmExample/periodTimer.c (and its copy in work/as2): timestamps of *)
(* a periodic event, and the statistics of the periods since the last      *)
(* report.  Marking and reporting run under s_lock, so each is one step;   *)
(* the program calls Period_init once, before, and Period_cleanup after.   *)
(*                                                                         *)
(* firstTimestamp and reported are no variables of the code: they keep the *)
(* time of the first event and the sum of all periods reported, to say     *)
(* what the reports add up to.                                             *)
(***************************************************************************)
EXTENDS Integers, Sequences, FiniteSetsExt

CONSTANTS
    MAX_EVENT_TIMESTAMPS,  \* 4096 in the code
    MaxTime                \* the model's clock stops here

ASSUME TimerAssumption == MAX_EVENT_TIMESTAMPS \in Nat \ {0} /\ MaxTime \in Nat

VARIABLES
    s_initialized,
    timestamps,         \* timestampsInNs[0 .. timestampCount - 1]
    prevTimestamp,      \* prevTimestampInNs, 0 before any
    lastTimeHack,       \* the last time read
    pStats,             \* the last report
    firstTimestamp,
    reported

vars == <<s_initialized, timestamps, prevTimestamp, lastTimeHack, pStats,
          firstTimestamp, reported>>

NoStats == [numSamples |-> 0, min |-> 0, max |-> 0, avg |-> 0]

Init ==
    /\ s_initialized = FALSE
    /\ timestamps = <<>>
    /\ prevTimestamp = 0
    /\ lastTimeHack = 0
    /\ pStats = NoStats
    /\ firstTimestamp = 0
    /\ reported = 0

Period_init ==
    /\ ~s_initialized /\ lastTimeHack = 0
    /\ s_initialized' = TRUE
    /\ timestamps' = <<>>
    /\ prevTimestamp' = 0
    /\ UNCHANGED <<lastTimeHack, pStats, firstTimestamp, reported>>

\* A slip: the room is tested with <=.
MarkOverruns ==
    /\ s_initialized
    /\ IF Len(timestamps) <= MAX_EVENT_TIMESTAMPS
         THEN \E now \in lastTimeHack + 1 .. MaxTime :
                /\ timestamps' = Append(timestamps, now)
                /\ lastTimeHack' = now
                /\ firstTimestamp' = IF firstTimestamp = 0 THEN now ELSE firstTimestamp
         ELSE UNCHANGED <<timestamps, lastTimeHack, firstTimestamp>>
    /\ UNCHANGED <<s_initialized, prevTimestamp, pStats, reported>>

(***************************************************************************)
(* Period_markEvent: with no room left the event is dropped and the clock  *)
(* is not read.  getTimeInNanoS asserts that the clock moves.              *)
(***************************************************************************)
Period_markEvent ==
    /\ s_initialized
    /\ IF Len(timestamps) < MAX_EVENT_TIMESTAMPS
         THEN \E now \in lastTimeHack + 1 .. MaxTime :
                /\ timestamps' = Append(timestamps, now)
                /\ lastTimeHack' = now
                /\ firstTimestamp' = IF firstTimestamp = 0 THEN now ELSE firstTimestamp
         ELSE UNCHANGED <<timestamps, lastTimeHack, firstTimestamp>>
    /\ UNCHANGED <<s_initialized, prevTimestamp, pStats, reported>>
----------------------------------------------------------------------------
Events == 1 .. Len(timestamps)

\* A slip: every window starts at its own first event.
DeltaForgetsPrevious(i) ==
    timestamps[i] - (IF i > 1 THEN timestamps[i - 1] ELSE timestamps[1])

\* The period that ends at event i; at startup the first event has none: 0.
Delta(i) ==
    timestamps[i] - (IF i > 1 THEN timestamps[i - 1]
                     ELSE IF prevTimestamp = 0 THEN timestamps[1] ELSE prevTimestamp)

Deltas == {Delta(i) : i \in Events}

\* sumDeltasNs after i turns of the loop, and after the last.
SumTo[i \in 0 .. Len(timestamps)] == IF i = 0 THEN 0 ELSE SumTo[i - 1] + Delta(i)
SumDeltas == SumTo[Len(timestamps)]

updateStats ==
    IF timestamps = <<>> THEN NoStats
    ELSE [numSamples |-> Len(timestamps), min |-> Min(Deltas), max |-> Max(Deltas),
          avg |-> SumDeltas \div Len(timestamps)]

\* A slip: an empty window clears the previous timestamp.
PreviousCleared ==
    IF timestamps = <<>> THEN 0 ELSE timestamps[Len(timestamps)]

Previous ==
    IF timestamps = <<>> THEN prevTimestamp ELSE timestamps[Len(timestamps)]

Period_getStatisticsAndClear ==
    /\ s_initialized
    /\ pStats' = updateStats
    /\ reported' = reported + SumDeltas
    /\ prevTimestamp' = Previous
    /\ timestamps' = <<>>
    /\ UNCHANGED <<s_initialized, lastTimeHack, firstTimestamp>>

Period_cleanup ==
    /\ s_initialized
    /\ s_initialized' = FALSE
    /\ UNCHANGED <<timestamps, prevTimestamp, lastTimeHack, pStats, firstTimestamp, reported>>

Next ==
    \/ Period_init \/ Period_markEvent \/ Period_getStatisticsAndClear \/ Period_cleanup

Spec == Init /\ [][Next]_vars
----------------------------------------------------------------------------
(***************************************************************************)
(* Types; the table of timestamps never holds more than it has room for.   *)
(***************************************************************************)
TypeOK ==
    /\ s_initialized \in BOOLEAN
    /\ timestamps \in Seq(1 .. MaxTime) /\ Len(timestamps) <= MAX_EVENT_TIMESTAMPS
    /\ prevTimestamp \in 0 .. MaxTime /\ lastTimeHack \in 0 .. MaxTime
    /\ firstTimestamp \in 0 .. MaxTime /\ reported \in 0 .. MaxTime
    /\ pStats \in [numSamples : 0 .. MAX_EVENT_TIMESTAMPS, min : 0 .. MaxTime,
                   max : 0 .. MaxTime, avg : 0 .. MaxTime]

(***************************************************************************)
(* The periods of all reports add up to the time from the first event to   *)
(* the last one reported: none is lost or counted twice between windows,   *)
(* not by an empty window, nor by events dropped when the table is full    *)
(* (periodTimer.c:53-58, :76-79, :92-97).                                  *)
(***************************************************************************)
PeriodsAddUp == prevTimestamp # 0 => reported = prevTimestamp - firstTimestamp

(***************************************************************************)
(* In every report, the first and the empty one included, the mean is      *)
(* between the shortest and the longest period; in every report that has   *)
(* events after another that had some, the shortest period is a real one:  *)
(* no later window contains startup's 0 (periodTimer.c:87-129).            *)
(***************************************************************************)
ReportsAreReal ==
    [][pStats' # pStats =>
         /\ pStats'.min <= pStats'.avg /\ pStats'.avg <= pStats'.max
         /\ prevTimestamp # 0 /\ pStats'.numSamples > 0 => pStats'.min > 0]_vars
=============================================================================
