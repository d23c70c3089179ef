-------------------------- MODULE PeriodTimerProofs --------------------------
(***************************************************************************)
(* The period timer adds up, for a table of any size and any stretch of    *)
(* time.  updateStats' loop is a recursive function, so what it computes   *)
(* is shown by induction on its turns.                                     *)
(***************************************************************************)
EXTENDS PeriodTimer, WellFoundedInduction, TLAPS

\* Events are marked at times that only grow, after the last one reported.
TableTyped ==
    /\ s_initialized \in BOOLEAN
    /\ timestamps \in Seq(1 .. MaxTime) /\ Len(timestamps) <= MAX_EVENT_TIMESTAMPS
    /\ prevTimestamp \in 0 .. MaxTime /\ lastTimeHack \in prevTimestamp .. MaxTime
    /\ \A i \in 1 .. Len(timestamps) : prevTimestamp < timestamps[i] /\ timestamps[i] <= lastTimeHack
    /\ \A i \in 2 .. Len(timestamps) : timestamps[i - 1] < timestamps[i]

StatsTyped ==
    pStats \in [numSamples : 0 .. MAX_EVENT_TIMESTAMPS, min : 0 .. MaxTime,
                max : 0 .. MaxTime, avg : 0 .. MaxTime]

\* What has been reported reaches from the first event to the previous one; until
\* there is a previous one, the first event is the first of the table.
ReportedInv ==
    /\ firstTimestamp \in 0 .. MaxTime /\ reported \in 0 .. MaxTime
    /\ prevTimestamp # 0 => 0 < firstTimestamp /\ reported = prevTimestamp - firstTimestamp
    /\ prevTimestamp = 0 =>
         /\ reported = 0
         /\ firstTimestamp = IF timestamps = <<>> THEN 0 ELSE timestamps[1]

IInv == TableTyped /\ StatsTyped /\ ReportedInv
----------------------------------------------------------------------------
(***************************************************************************)
(* A set of naturals has a least element, and so induction over data.      *)
(***************************************************************************)
LEMMA Least ==
    ASSUME NEW T \in SUBSET Nat, T # {}
    PROVE  \E x \in T : \A y \in T : x <= y
<1>1. PICK x \in T : \A y \in T : <<y, x>> \notin OpToRel(<, Nat)
  BY NatLessThanWellFounded, WFMin, Zenon
<1>2. \A y \in T : ~(y < x)
  BY <1>1, Zenon DEF OpToRel
<1> QED BY <1>2

LEMMA Induct ==
    ASSUME NEW S, 0 \in S, \A n \in Nat : n \in S => n + 1 \in S
    PROVE  Nat \subseteq S
<1> SUFFICES ASSUME Nat \ S # {} PROVE FALSE
  OBVIOUS
<1>1. PICK x \in Nat \ S : \A y \in Nat \ S : x <= y
  BY Least
<1>2. x # 0 /\ x - 1 \in Nat
  OBVIOUS
<1> QED BY <1>1, <1>2

LEMMA MinOfNats ==
    ASSUME NEW T \in SUBSET Nat, T # {}
    PROVE  Min(T) \in T /\ \A y \in T : Min(T) <= y
BY Least DEF Min

LEMMA MaxOfBounded ==
    ASSUME NEW b \in Nat, NEW T \in SUBSET (0 .. b), T # {}
    PROVE  Max(T) \in T /\ \A y \in T : y <= Max(T)
<1>1. {b - x : x \in T} \in SUBSET Nat /\ {b - x : x \in T} # {}
  <2>1. \A x \in T : b - x \in Nat
    OBVIOUS
  <2>2. PICK t \in T : TRUE
    OBVIOUS
  <2>3. b - t \in {b - x : x \in T}
    BY <2>2
  <2> QED BY <2>1, <2>3
<1>2. PICK z \in {b - x : x \in T} : \A y \in {b - x : x \in T} : z <= y
  BY <1>1, Least
<1>3. \E x \in T : \A y \in T : x >= y
  BY <1>2
<1> QED BY <1>3 DEF Max

\* The quotient of C's integer division, for what is not negative.
LEMMA Quotient ==
    ASSUME NEW s \in Nat, NEW k \in Nat \ {0}
    PROVE  s \div k \in Nat /\ k * (s \div k) <= s /\ s < k * (s \div k + 1)
OBVIOUS

LEMMA MeanBetween ==
    ASSUME NEW s \in Nat, NEW k \in Nat \ {0}, NEW lo \in Nat, NEW hi \in Nat, lo * k <= s, s <= hi * k
    PROVE  lo <= s \div k /\ s \div k <= hi
<1> DEFINE q == s \div k
<1>1. q \in Nat /\ k * q <= s /\ s < k * (q + 1)
  BY Quotient
<1> HIDE DEF q
<1>2. lo <= q
  <2> SUFFICES ASSUME q + 1 <= lo PROVE FALSE
    BY <1>1
  <2>1. k * (q + 1) <= lo * k
    BY <1>1
  <2> QED BY <1>1, <2>1
<1>3. q <= hi
  <2> SUFFICES ASSUME hi + 1 <= q PROVE FALSE
    BY <1>1
  <2>1. (hi + 1) * k <= k * q
    BY <1>1
  <2>2. (hi + 1) * k = hi * k + k
    OBVIOUS
  <2> QED BY <1>1, <2>1, <2>2
<1> QED BY <1>2, <1>3 DEF q
----------------------------------------------------------------------------
(***************************************************************************)
(* updateStats: what its loop has summed up after i turns.                 *)
(***************************************************************************)
\* Where the first period of the window begins.
Base == IF prevTimestamp = 0 THEN timestamps[1] ELSE prevTimestamp

LEMMA TableTimes ==
    ASSUME TableTyped
    PROVE  \A i \in 1 .. Len(timestamps) :
             timestamps[i] \in 1 .. MaxTime /\ prevTimestamp < timestamps[i] /\ timestamps[i] <= lastTimeHack
<1>1. \A i \in 1 .. Len(timestamps) : prevTimestamp < timestamps[i] /\ timestamps[i] <= lastTimeHack
  BY Zenon DEF TableTyped
<1>2. \A i \in 1 .. Len(timestamps) : timestamps[i] \in 1 .. MaxTime
  <2>1. timestamps \in Seq(1 .. MaxTime)
    BY Zenon DEF TableTyped
  <2>2. MaxTime \in Nat
    BY TimerAssumption DEF TimerAssumption
  <2> QED BY <2>1, <2>2
<1> QED BY <1>1, <1>2, Zenon

LEMMA DeltaIs ==
    ASSUME TableTyped, TimerAssumption
    PROVE  \A i \in Events :
             /\ timestamps[i] \in 1 .. MaxTime
             /\ Delta(i) = timestamps[i] - (IF i > 1 THEN timestamps[i - 1] ELSE Base)
             /\ Delta(i) \in 0 .. MaxTime
             /\ prevTimestamp # 0 => Delta(i) > 0
<1> SUFFICES ASSUME NEW i \in Events
             PROVE  /\ timestamps[i] \in 1 .. MaxTime
                    /\ Delta(i) = timestamps[i] - (IF i > 1 THEN timestamps[i - 1] ELSE Base)
                    /\ Delta(i) \in 0 .. MaxTime
                    /\ prevTimestamp # 0 => Delta(i) > 0
  OBVIOUS
<1>1. /\ Len(timestamps) \in Nat /\ MaxTime \in Nat /\ i \in 1 .. Len(timestamps)
      /\ \A j \in 1 .. Len(timestamps) : timestamps[j] \in 1 .. MaxTime
  BY DEF TableTyped, Events, TimerAssumption
<1>2. Delta(i) = timestamps[i] - (IF i > 1 THEN timestamps[i - 1] ELSE Base)
  BY DEF Delta, Base
<1>3. CASE i > 1
  BY <1>1, <1>2, <1>3 DEF TableTyped
<1>4. CASE i = 1
  BY <1>1, <1>2, <1>4 DEF TableTyped, Base
<1> QED BY <1>1, <1>2, <1>3, <1>4

LEMMA SumToIs ==
    ASSUME TableTyped, TimerAssumption
    PROVE  \A i \in 0 .. Len(timestamps) : SumTo[i] = IF i = 0 THEN 0 ELSE SumTo[i - 1] + Delta(i)
<1> DEFINE L == Len(timestamps)
           Recur(f) == f = [i \in 0 .. L |-> IF i = 0 THEN 0 ELSE f[i - 1] + Delta(i)]
           F == [i \in 0 .. L |-> IF i = 0 THEN 0 ELSE timestamps[i] - Base]
<1>1. Recur(F)
  <2> SUFFICES ASSUME NEW i \in 0 .. L
               PROVE  F[i] = IF i = 0 THEN 0 ELSE F[i - 1] + Delta(i)
    BY Zenon
  <2>1. L \in Nat
    BY DEF TableTyped
  <2>2. CASE i = 0
    BY <2>2
  <2>3. CASE i = 1
    <3>1. Delta(1) = timestamps[1] - Base /\ F[1] = timestamps[1] - Base /\ F[0] = 0
      BY <2>1, <2>3, DeltaIs DEF Events
    <3>2. timestamps[1] - Base \in Int
      BY <2>1, <2>3, <3>1, DeltaIs DEF Events
    <3> HIDE DEF F
    <3> QED BY <2>3, <3>1, <3>2
  <2>4. CASE i > 1
    <3>1. /\ Delta(i) = timestamps[i] - timestamps[i - 1] /\ timestamps[i] \in Int /\ timestamps[i - 1] \in Int
          /\ timestamps[1] \in Int
      BY <2>1, <2>4, DeltaIs DEF Events
    <3>2. Base \in Int
      BY <3>1 DEF Base, TableTyped
    <3>3. F[i] = timestamps[i] - Base /\ F[i - 1] = timestamps[i - 1] - Base
      BY <2>1, <2>4
    <3> HIDE DEF F
    <3> QED BY <2>4, <3>1, <3>2, <3>3
  <2> QED BY <2>1, <2>2, <2>3, <2>4
<1>2. SumTo = CHOOSE f : Recur(f)
  BY DEF SumTo
<1> HIDE DEF F, Recur
<1>3. Recur(SumTo)
  BY <1>1, <1>2
<1> QED BY <1>3, Zenon DEF Recur
\* The loop telescopes: it has summed up the time from Base to its last event.
LEMMA SumTelescopes ==
    ASSUME TableTyped, TimerAssumption
    PROVE  \A i \in 1 .. Len(timestamps) : SumTo[i] = timestamps[i] - Base
<1> DEFINE L == Len(timestamps)
           S == {i \in Nat : i <= L => SumTo[i] = IF i = 0 THEN 0 ELSE timestamps[i] - Base}
<1>0. L \in Nat
  BY DEF TableTyped
<1>1. 0 \in S
  BY <1>0, SumToIs
<1>2. \A i \in Nat : i \in S => i + 1 \in S
  <2> SUFFICES ASSUME NEW i \in Nat, i \in S, i + 1 <= L
               PROVE  SumTo[i + 1] = timestamps[i + 1] - Base
    BY <1>0
  <2>1. SumTo[i + 1] = SumTo[i] + Delta(i + 1)
    BY <1>0, SumToIs
  <2>2. CASE i = 0
    <3>1. SumTo[0] = 0 /\ Delta(1) = timestamps[1] - Base /\ Delta(1) \in Int
      BY <1>0, <2>2, SumToIs, DeltaIs DEF Events
    <3> QED BY <2>1, <2>2, <3>1
  <2>3. CASE i > 0
    <3>1. /\ Delta(i + 1) = timestamps[i + 1] - timestamps[i]
          /\ timestamps[i + 1] \in Int /\ timestamps[i] \in Int /\ timestamps[1] \in Int
      BY <1>0, <2>3, DeltaIs DEF Events
    <3>2. Base \in Int
      BY <3>1 DEF Base, TableTyped
    <3>3. SumTo[i] = timestamps[i] - Base
      BY <1>0, <2>3
    <3> QED BY <2>1, <3>1, <3>2, <3>3
  <2> QED BY <2>2, <2>3
<1>3. Nat \subseteq S
  <2> HIDE DEF S
  <2> QED BY <1>1, <1>2, Induct
<1> QED BY <1>0, <1>3

\* The sum of the first i periods is at least i times the shortest of all, and at
\* most i times the longest.
LEMMA SumBetween ==
    ASSUME TableTyped, TimerAssumption, NEW lo \in Nat, NEW hi \in Nat,
           \A i \in Events : lo <= Delta(i) /\ Delta(i) <= hi
    PROVE  \A i \in 0 .. Len(timestamps) :
             SumTo[i] \in Nat /\ lo * i <= SumTo[i] /\ SumTo[i] <= hi * i
<1> DEFINE L == Len(timestamps)
           S == {i \in Nat : i <= L => SumTo[i] \in Nat /\ lo * i <= SumTo[i] /\ SumTo[i] <= hi * i}
<1>0. L \in Nat
  BY DEF TableTyped
<1>1. 0 \in S
  <2>1. SumTo[0] = 0
    BY <1>0, SumToIs
  <2> QED BY <2>1
<1>2. \A i \in Nat : i \in S => i + 1 \in S
  <2> SUFFICES ASSUME NEW i \in Nat, i \in S, i + 1 <= L
               PROVE  /\ SumTo[i + 1] \in Nat
                      /\ lo * (i + 1) <= SumTo[i + 1] /\ SumTo[i + 1] <= hi * (i + 1)
    BY <1>0
  <2>1. SumTo[i + 1] = SumTo[i] + Delta(i + 1)
    BY <1>0, SumToIs
  <2>2. Delta(i + 1) \in Nat /\ lo <= Delta(i + 1) /\ Delta(i + 1) <= hi
    BY <1>0, DeltaIs DEF Events, TimerAssumption
  <2>3. SumTo[i] \in Nat /\ lo * i <= SumTo[i] /\ SumTo[i] <= hi * i
    BY <1>0
  <2>4. lo * (i + 1) = lo * i + lo /\ hi * (i + 1) = hi * i + hi
    OBVIOUS
  <2> QED BY <2>1, <2>2, <2>3, <2>4
<1>3. Nat \subseteq S
  <2> HIDE DEF S
  <2> QED BY <1>1, <1>2, Induct
<1> QED BY <1>0, <1>3

\* A report: every number within its type, the mean between the extremes, and after
\* a window with events no period is 0.
LEMMA ReportIs ==
    ASSUME TableTyped, TimerAssumption
    PROVE  /\ updateStats \in [numSamples : 0 .. MAX_EVENT_TIMESTAMPS, min : 0 .. MaxTime,
                               max : 0 .. MaxTime, avg : 0 .. MaxTime]
           /\ updateStats.min <= updateStats.avg /\ updateStats.avg <= updateStats.max
           /\ prevTimestamp # 0 /\ updateStats.numSamples > 0 => updateStats.min > 0
<1>0. Len(timestamps) \in 0 .. MAX_EVENT_TIMESTAMPS /\ MaxTime \in Nat
  BY DEF TableTyped, TimerAssumption
<1>1. CASE timestamps = <<>>
  BY <1>0, <1>1 DEF updateStats, NoStats
<1>2. CASE timestamps # <<>>
  <2>1. Len(timestamps) \in Nat \ {0}
    BY <1>2, <1>0 DEF TableTyped
  <2>2. Deltas \in SUBSET (0 .. MaxTime) /\ Deltas # {} /\ \A i \in Events : Delta(i) \in Deltas
    <3>1. 1 \in Events
      BY <2>1 DEF Events
    <3> QED BY <3>1, DeltaIs DEF Deltas
  <2>3. Min(Deltas) \in Deltas /\ \A y \in Deltas : Min(Deltas) <= y
    BY <1>0, <2>2, MinOfNats
  <2>4. Max(Deltas) \in Deltas /\ \A y \in Deltas : y <= Max(Deltas)
    BY <1>0, <2>2, MaxOfBounded
  <2>5. Min(Deltas) \in 0 .. MaxTime /\ Max(Deltas) \in 0 .. MaxTime
    BY <2>2, <2>3, <2>4
  <2>6. /\ SumDeltas \in Nat /\ Min(Deltas) * Len(timestamps) <= SumDeltas
        /\ SumDeltas <= Max(Deltas) * Len(timestamps)
    <3>1. Min(Deltas) \in Nat /\ Max(Deltas) \in Nat
      BY <1>0, <2>5
    <3>2. \A i \in Events : Min(Deltas) <= Delta(i) /\ Delta(i) <= Max(Deltas)
      BY <2>2, <2>3, <2>4
    <3>3. \A i \in 0 .. Len(timestamps) :
            SumTo[i] \in Nat /\ Min(Deltas) * i <= SumTo[i] /\ SumTo[i] <= Max(Deltas) * i
      BY <3>1, <3>2, SumBetween
    <3>4. Len(timestamps) \in 0 .. Len(timestamps)
      BY <2>1
    <3> QED BY <3>3, <3>4 DEF SumDeltas
  <2>7. Min(Deltas) <= SumDeltas \div Len(timestamps) /\ SumDeltas \div Len(timestamps) <= Max(Deltas)
    BY <2>1, <2>5, <2>6, MeanBetween
  <2>8. SumDeltas \div Len(timestamps) \in 0 .. MaxTime
    <3>1. SumDeltas \div Len(timestamps) \in Nat
      BY <2>1, <2>6, Quotient
    <3> QED BY <1>0, <2>5, <2>7, <3>1
  <2>9. prevTimestamp # 0 => Min(Deltas) > 0
    BY <2>3, DeltaIs DEF Deltas
  <2>10. updateStats = [numSamples |-> Len(timestamps), min |-> Min(Deltas), max |-> Max(Deltas),
                        avg |-> SumDeltas \div Len(timestamps)]
    BY <1>2 DEF updateStats
  <2> QED BY <1>0, <2>5, <2>7, <2>8, <2>9, <2>10
<1> QED BY <1>1, <1>2
----------------------------------------------------------------------------
LEMMA InitIInv == Init => IInv
<1> SUFFICES ASSUME Init PROVE IInv
  OBVIOUS
<1>1. /\ timestamps = <<>> /\ timestamps \in Seq(1 .. MaxTime) /\ Len(timestamps) = 0
      /\ MaxTime \in Nat /\ MAX_EVENT_TIMESTAMPS \in Nat \ {0}
  BY TimerAssumption DEF Init, TimerAssumption
<1>2. TableTyped
  <2>1. \A i \in 1 .. Len(timestamps) : FALSE
    BY <1>1
  <2>2. \A i \in 2 .. Len(timestamps) : FALSE
    BY <1>1
  <2>3. s_initialized = FALSE /\ prevTimestamp = 0 /\ lastTimeHack = 0
    BY Zenon DEF Init
  <2>4. /\ Len(timestamps) <= MAX_EVENT_TIMESTAMPS /\ s_initialized \in BOOLEAN
        /\ prevTimestamp \in 0 .. MaxTime /\ lastTimeHack \in prevTimestamp .. MaxTime
    <3>1. Len(timestamps) <= MAX_EVENT_TIMESTAMPS
      BY <1>1
    <3>2. s_initialized \in BOOLEAN
      BY <2>3, Zenon
    <3>3. 0 \in 0 .. MaxTime
      BY <1>1
    <3> QED BY <2>3, <3>1, <3>2, <3>3, Zenon
  <2> QED BY <1>1, <2>1, <2>2, <2>4, Zenon DEF TableTyped
<1>3. StatsTyped /\ ReportedInv
  BY <1>1 DEF Init, NoStats, StatsTyped, ReportedInv
<1> QED BY <1>2, <1>3 DEF IInv

LEMMA MarkKeeps ==
    ASSUME IInv, Period_markEvent
    PROVE  IInv'
<1> USE TimerAssumption DEF IInv, TimerAssumption, Period_markEvent
<1>1. CASE Len(timestamps) < MAX_EVENT_TIMESTAMPS
  <2>1. PICK now \in lastTimeHack + 1 .. MaxTime :
          /\ timestamps' = Append(timestamps, now) /\ lastTimeHack' = now
          /\ firstTimestamp' = IF firstTimestamp = 0 THEN now ELSE firstTimestamp
    BY <1>1
  <2>2. /\ timestamps \in Seq(1 .. MaxTime) /\ Len(timestamps) \in Nat
        /\ prevTimestamp \in Nat /\ lastTimeHack \in Nat /\ prevTimestamp <= lastTimeHack
        /\ now \in 1 .. MaxTime /\ lastTimeHack < now
    BY DEF TableTyped
  <2>3. /\ timestamps' \in Seq(1 .. MaxTime) /\ Len(timestamps') = Len(timestamps) + 1
        /\ timestamps'[Len(timestamps) + 1] = now
        /\ \A i \in 1 .. Len(timestamps) : timestamps'[i] = timestamps[i]
    BY <2>1, <2>2
  <2>4. TableTyped'
    <3>1. \A i \in 1 .. Len(timestamps') : prevTimestamp < timestamps'[i] /\ timestamps'[i] <= lastTimeHack'
      <4> SUFFICES ASSUME NEW i \in 1 .. Len(timestamps')
                   PROVE  prevTimestamp < timestamps'[i] /\ timestamps'[i] <= lastTimeHack'
        OBVIOUS
      <4>1. CASE i = Len(timestamps) + 1
        BY <2>1, <2>2, <2>3, <4>1
      <4>2. CASE i \in 1 .. Len(timestamps)
        <5>1. timestamps[i] \in 1 .. MaxTime /\ prevTimestamp < timestamps[i] /\ timestamps[i] <= lastTimeHack
          BY <2>2, <4>2 DEF TableTyped
        <5> QED BY <2>1, <2>2, <2>3, <4>2, <5>1
      <4> QED BY <2>2, <2>3, <4>1, <4>2
    <3>2. \A i \in 2 .. Len(timestamps') : timestamps'[i - 1] < timestamps'[i]
      <4> SUFFICES ASSUME NEW i \in 2 .. Len(timestamps') PROVE timestamps'[i - 1] < timestamps'[i]
        OBVIOUS
      <4>0. i - 1 \in 1 .. Len(timestamps) /\ timestamps'[i - 1] = timestamps[i - 1]
        <5>1. i \in Int /\ 2 <= i /\ i <= Len(timestamps) + 1
          BY <2>2, <2>3
        <5>2. i - 1 \in 1 .. Len(timestamps)
          BY <2>2, <5>1
        <5> QED BY <2>3, <5>2
      <4>1. CASE i = Len(timestamps) + 1
        <5>1. timestamps[i - 1] \in 1 .. MaxTime /\ timestamps[i - 1] <= lastTimeHack
          <6>1. \A j \in 1 .. Len(timestamps) : timestamps[j] \in 1 .. MaxTime /\ timestamps[j] <= lastTimeHack
            BY DEF TableTyped
          <6> QED BY <4>0, <6>1
        <5> QED BY <2>1, <2>2, <2>3, <4>0, <4>1, <5>1
      <4>2. CASE i \in 2 .. Len(timestamps)
        <5>1. timestamps[i - 1] < timestamps[i] /\ timestamps'[i] = timestamps[i]
          BY <2>2, <2>3, <4>2 DEF TableTyped
        <5> QED BY <4>0, <5>1
      <4> QED BY <2>2, <2>3, <4>1, <4>2
    <3> QED BY <1>1, <2>1, <2>2, <2>3, <3>1, <3>2 DEF TableTyped
  <2>5. StatsTyped'
    BY DEF StatsTyped
  <2>6. ReportedInv'
    <3>1. prevTimestamp = 0 => timestamps' # <<>> /\ firstTimestamp' = timestamps'[1]
      <4>1. timestamps = <<>> => Len(timestamps) = 0
        OBVIOUS
      <4>2. timestamps # <<>> => timestamps[1] \in 1 .. MaxTime /\ 1 \in 1 .. Len(timestamps)
        BY <2>2
      <4>3. timestamps' # <<>>
        BY <2>2, <2>3
      <4> QED BY <2>1, <2>2, <2>3, <4>1, <4>2, <4>3 DEF ReportedInv
    <3>2. prevTimestamp # 0 => firstTimestamp' = firstTimestamp
      BY <2>1 DEF ReportedInv
    <3> QED BY <2>1, <2>2, <3>1, <3>2 DEF ReportedInv
  <2> QED BY <2>4, <2>5, <2>6
<1>2. CASE ~(Len(timestamps) < MAX_EVENT_TIMESTAMPS)
  BY <1>2 DEF TableTyped, StatsTyped, ReportedInv
<1> QED BY <1>1, <1>2

LEMMA ReportKeeps ==
    ASSUME IInv, Period_getStatisticsAndClear
    PROVE  IInv'
<1> USE DEF IInv, Period_getStatisticsAndClear
<1>0. MaxTime \in Nat /\ Len(timestamps) \in Nat
  BY TimerAssumption DEF TimerAssumption, TableTyped
<1>1. StatsTyped'
  BY TimerAssumption, ReportIs DEF StatsTyped
<1>2. CASE timestamps = <<>>
  <2>1. SumDeltas = 0
    BY <1>2, TimerAssumption, SumToIs DEF SumDeltas
  <2>2. prevTimestamp' = prevTimestamp /\ timestamps' = timestamps /\ reported' = reported
    BY <1>2, <2>1 DEF Previous, ReportedInv
  <2> QED BY <1>1, <2>2 DEF TableTyped, ReportedInv
<1>3. CASE timestamps # <<>>
  <2> DEFINE last == timestamps[Len(timestamps)]
  <2>1. Len(timestamps) \in 1 .. Len(timestamps) /\ 1 \in 1 .. Len(timestamps)
    BY <1>0, <1>3 DEF TableTyped
  <2>2. /\ last \in 1 .. MaxTime /\ prevTimestamp < last /\ last <= lastTimeHack
        /\ timestamps[1] \in 1 .. MaxTime /\ prevTimestamp \in 0 .. MaxTime
    <3>1. \A i \in 1 .. Len(timestamps) :
            timestamps[i] \in 1 .. MaxTime /\ prevTimestamp < timestamps[i] /\ timestamps[i] <= lastTimeHack
      BY TableTimes
    <3> QED BY <2>1, <3>1 DEF TableTyped
  <2>3. SumDeltas = last - Base
    BY <2>1, TimerAssumption, SumTelescopes DEF SumDeltas
  <2>4. prevTimestamp' = last /\ timestamps' = <<>> /\ reported' = reported + (last - Base)
    BY <1>3, <2>3 DEF Previous
  <2>5. prevTimestamp = 0 => timestamps[1] <= last
    <3>1. SumDeltas \in Nat
      <4>1. \A i \in Events : 0 <= Delta(i) /\ Delta(i) <= MaxTime
        BY <1>0, TimerAssumption, DeltaIs
      <4> QED BY <1>0, <4>1, TimerAssumption, SumBetween DEF SumDeltas
    <3>2. prevTimestamp = 0 => last - timestamps[1] \in Nat
      BY <2>3, <3>1 DEF Base
    <3> QED BY <2>2, <3>2
  <2>6. TableTyped'
    BY <1>0, <2>2, <2>4, TimerAssumption DEF TableTyped, TimerAssumption
  <2>7. ReportedInv'
    BY <1>0, <1>3, <2>2, <2>4, <2>5 DEF ReportedInv, Base
  <2> QED BY <1>1, <2>6, <2>7
<1> QED BY <1>2, <1>3
LEMMA RestKeeps ==
    ASSUME IInv, Period_init \/ Period_cleanup \/ UNCHANGED vars
    PROVE  IInv'
<1> USE DEF IInv
<1>1. CASE Period_init
  <2>1. timestamps = <<>> /\ prevTimestamp = 0
    <3>1. lastTimeHack = 0
      BY <1>1 DEF Period_init
    <3>2. prevTimestamp = 0
      BY <3>1 DEF TableTyped
    <3>3. Len(timestamps) = 0
      <4>1. 1 \notin 1 .. Len(timestamps)
        BY <3>1, TableTimes
      <4> QED BY <4>1 DEF TableTyped
    <3> QED BY <3>2, <3>3 DEF TableTyped
  <2>2. s_initialized' \in BOOLEAN
        /\ UNCHANGED <<timestamps, prevTimestamp, lastTimeHack, pStats, firstTimestamp, reported>>
    BY <1>1, <2>1 DEF Period_init
  <2> QED BY <2>2 DEF TableTyped, StatsTyped, ReportedInv
<1>2. CASE Period_cleanup
  BY <1>2 DEF Period_cleanup, TableTyped, StatsTyped, ReportedInv
<1>3. CASE UNCHANGED vars
  BY <1>3 DEF vars, TableTyped, StatsTyped, ReportedInv
<1> QED BY <1>1, <1>2, <1>3

LEMMA Inductive == Spec => []IInv
<1>1. IInv /\ [Next]_vars => IInv'
  BY MarkKeeps, ReportKeeps, RestKeeps DEF Next
<1> QED BY InitIInv, <1>1, PTL DEF Spec
----------------------------------------------------------------------------
\* Every time and every statistic stays in its type, and Period_markEvent never
\* writes beyond a table of MAX_EVENT_TIMESTAMPS events (periodTimer.c:53).
THEOREM TimerTyped == Spec => []TypeOK
<1>1. IInv => TypeOK
  <2> SUFFICES ASSUME IInv PROVE TypeOK
    OBVIOUS
  <2>1. lastTimeHack \in 0 .. MaxTime
    BY DEF IInv, TableTyped
  <2> QED BY <2>1 DEF IInv, TableTyped, StatsTyped, ReportedInv, TypeOK
<1> QED BY <1>1, Inductive, PTL

\* The periods of all reports add up to the time from the first event to the last one
\* reported, through full tables and empty windows.
THEOREM NothingLost == Spec => []PeriodsAddUp
<1>1. IInv => PeriodsAddUp
  BY DEF IInv, ReportedInv, PeriodsAddUp
<1> QED BY <1>1, Inductive, PTL

\* updateStats' mean lies between its extremes, in C's rounding division too, and
\* after a window with events no report has a period of 0.
THEOREM StatisticsSound == Spec => ReportsAreReal
<1>1. ASSUME IInv, [Next]_vars, pStats' # pStats
      PROVE  /\ pStats'.min <= pStats'.avg /\ pStats'.avg <= pStats'.max
             /\ prevTimestamp # 0 /\ pStats'.numSamples > 0 => pStats'.min > 0
  <2>1. Period_getStatisticsAndClear
    BY <1>1 DEF Next, vars, Period_init, Period_markEvent, Period_cleanup
  <2>2. pStats' = updateStats
    BY <2>1 DEF Period_getStatisticsAndClear
  <2> QED BY <1>1, <2>2, TimerAssumption, ReportIs DEF IInv
<1>2. IInv /\ [Next]_vars =>
        [pStats' # pStats =>
           /\ pStats'.min <= pStats'.avg /\ pStats'.avg <= pStats'.max
           /\ prevTimestamp # 0 /\ pStats'.numSamples > 0 => pStats'.min > 0]_vars
  BY <1>1
<1> QED BY <1>2, Inductive, PTL DEF Spec, ReportsAreReal
=============================================================================
