------------------------- MODULE LightHistoryProofs -------------------------
(***************************************************************************)
(* The bounds of the light history, for every set of sizes and any number  *)
(* of samples.                                                             *)
(***************************************************************************)
EXTENDS LightHistory, SequenceTheorems, TLAPS

LEMMA RemainderRange == \A a \in Int : \A b \in Nat \ {0} : a % b \in 0 .. b - 1
OBVIOUS

\* The place that a shrink looks at, or reads, is in the array.
LEMMA ReadTyped ==
    ASSUME TypeOK, NEW a \in Int
    PROVE  a % arraySize \in 0 .. arraySize - 1 /\ recent[a % arraySize] \in Junk .. MaxSamples
<1>1. a % arraySize \in 0 .. arraySize - 1
  BY RemainderRange DEF TypeOK
<1> QED BY <1>1 DEF TypeOK

(***************************************************************************)
(* A sample keeps types and bounds.                                        *)
(***************************************************************************)
LEMMA SampleKeeps ==
    ASSUME TypeOK, FaultsArePartial, Sample
    PROVE  TypeOK' /\ FaultsArePartial' /\ CountSettles'
<1>1. PICK reading \in {0, Len(taken) + 1} :
        /\ (reading # 0 /\ DipBegins) \/ DipEnds \/ UNCHANGED dips
        /\ taken' = Append(taken, reading)
        /\ recent' = IF recentIndex < arraySize
                       THEN [recent EXCEPT ![recentIndex] = reading] ELSE recent
  BY DEF Sample
<1>2. reading \in 0 .. MaxSamples
  BY <1>1, HistoryAssumption DEF Sample, TypeOK
<1>3. recentIndex' \in 0 .. arraySize - 1
  BY RemainderRange DEF Sample, TypeOK
<1>4. historyCount' \in Nat /\ historyCount' <= arraySize
  BY DEF Sample, NextCount, TypeOK
<1>5. taken' \in Seq(0 .. MaxSamples)
  BY <1>1, <1>2 DEF TypeOK
<1>6. recent' \in [0 .. arraySize - 1 -> Junk .. MaxSamples]
  <2>1. reading \in Junk .. MaxSamples
    BY <1>2, HistoryAssumption DEF Junk
  <2> QED BY <1>1, <2>1 DEF TypeOK
<1>0. lastDip' \in BOOLEAN /\ {dipCount', recentDips', secondsWithDips'} \subseteq Nat
  <2>1. lastDip \in BOOLEAN /\ {dipCount, recentDips, secondsWithDips} \subseteq Nat
    BY DEF TypeOK
  <2>2. CASE DipBegins
    <3>1. lastDip' \in BOOLEAN
      BY <2>2 DEF DipBegins
    <3> QED BY <2>1, <2>2, <3>1 DEF DipBegins
  <2>3. CASE DipEnds
    <3>1. lastDip' \in BOOLEAN
      BY <2>3 DEF DipEnds
    <3> QED BY <2>1, <2>3, <3>1 DEF DipEnds
  <2>4. CASE UNCHANGED dips
    BY <2>1, <2>4 DEF dips
  <2> QED BY <1>1, <2>2, <2>3, <2>4
<1>7. TypeOK'
  BY <1>0, <1>3, <1>4, <1>5, <1>6 DEF TypeOK, Sample
<1> QED BY <1>3, <1>4, <1>7 DEF Sample, TypeOK, FaultsArePartial, CountSettles

(***************************************************************************)
(* A resize keeps types and bounds; what it may break, it marks.           *)
(***************************************************************************)
LEMMA SizesTyped ==
    ASSUME NEW size \in Sizes
    PROVE  size \in Nat /\ AtLeastOne(size) \in Nat \ {0}
BY HistoryAssumption DEF AtLeastOne

LEMMA PartialKeeps ==
    ASSUME TypeOK, NEW n \in Nat \ {0}, ShrinkPartial(n)
    PROVE  /\ recent' \in [0 .. n - 1 -> Junk .. MaxSamples]
           /\ recentIndex' \in Nat /\ fault' \in BOOLEAN
           /\ partial' /\ partial' \in BOOLEAN /\ reordered' \in BOOLEAN
<1> DEFINE m == (recentIndex + 1) % arraySize
<1>1. m \in 0 .. arraySize - 1
  <2>1. recentIndex + 1 \in Int /\ arraySize \in Nat \ {0}
    BY DEF TypeOK
  <2> QED BY <2>1, RemainderRange
<1>2. \A i \in 0 .. n - 1 : i < m => recent[i] \in Junk .. MaxSamples
  BY <1>1 DEF TypeOK
<1>3. Junk \in Junk .. MaxSamples
  BY HistoryAssumption DEF Junk
<1>4. recent' = [i \in 0 .. n - 1 |-> IF i < m THEN recent[i] ELSE Junk]
  BY DEF ShrinkPartial
<1>5. recent' \in [0 .. n - 1 -> Junk .. MaxSamples]
  BY <1>2, <1>3, <1>4
<1> QED BY <1>5 DEF ShrinkPartial, TypeOK

LEMMA FullKeeps ==
    ASSUME TypeOK, NEW n \in Nat \ {0}, ShrinkFull(n)
    PROVE  /\ recent' \in [0 .. n - 1 -> Junk .. MaxSamples]
           /\ recentIndex' \in 0 .. n - 1
           /\ fault' = fault /\ partial' = partial /\ reordered' \in BOOLEAN
<1>1. \A i \in 0 .. n - 1 : arraySize + recentIndex - n + 2 + i \in Int
  BY DEF TypeOK
<1>2. \A i \in 0 .. n - 1 :
        recent[(arraySize + recentIndex - n + 2 + i) % arraySize] \in Junk .. MaxSamples
  BY <1>1, ReadTyped
<1> QED BY <1>2 DEF ShrinkFull

LEMMA GrowKeeps ==
    ASSUME TypeOK, NEW size \in Nat, Grow(size)
    PROVE  /\ recent' \in [0 .. size - 1 -> Junk .. MaxSamples]
           /\ recentIndex' = recentIndex /\ fault' = fault /\ partial' = partial
           /\ arraySize' = size /\ size > arraySize /\ reordered' \in BOOLEAN
<1>1. 0 \in Junk .. MaxSamples
  BY HistoryAssumption DEF Junk
<1>2. \A i \in 0 .. size - 1 : i < arraySize => recent[i] \in Junk .. MaxSamples
  BY DEF TypeOK
<1>3. recent' = [i \in 0 .. size - 1 |-> IF i < arraySize THEN recent[i] ELSE 0]
  BY DEF Grow
<1>4. recent' \in [0 .. size - 1 -> Junk .. MaxSamples]
  BY <1>1, <1>2, <1>3
<1> QED BY <1>4 DEF Grow, TypeOK

(***************************************************************************)
(* One second's share of the dips, and what is left of them.               *)
(***************************************************************************)
LEMMA Share ==
    ASSUME NEW d \in Nat, NEW s \in Nat \ {0}
    PROVE  d \div s \in Nat /\ d \div s <= d
OBVIOUS

LEMMA ShareLeaves ==
    ASSUME NEW d \in Nat, NEW s \in Nat \ {0}, s <= d
    PROVE  /\ d - d \div s >= s - 1
           /\ s = 1 => d - d \div s = 0
<1> DEFINE q == d \div s
<1>1. q \in Nat /\ q * s <= d
  OBVIOUS
<1>2. d < q * s + s
  OBVIOUS
<1>3. q >= 1
  BY <1>1, <1>2
<1>4. q * s - q >= s - 1
  BY <1>1, <1>3
<1>5. s = 1 => q = d
  BY <1>1, <1>2
<1> QED BY <1>1, <1>4, <1>5

LEMMA FadeTyped ==
    ASSUME TypeOK, Fade
    PROVE  lastDip' \in BOOLEAN /\ {dipCount', recentDips', secondsWithDips'} \subseteq Nat
<1>1. dipCount \in Nat /\ secondsWithDips \in Nat /\ lastDip' \in BOOLEAN
  BY DEF TypeOK, Fade
<1>2. secondsWithDips # 0 => /\ dipCount \div secondsWithDips \in Nat
                             /\ dipCount \div secondsWithDips <= dipCount
  BY <1>1, Share
<1>3. dipCount' \in Nat /\ secondsWithDips' \in Nat /\ recentDips' = dipCount'
  BY <1>1, <1>2 DEF Fade
<1> QED BY <1>1, <1>3

(***************************************************************************)
(* Dips keep at least one dip for every second that stands for them.       *)
(***************************************************************************)
LEMMA SampleDips ==
    ASSUME TypeOK, DipsFade, Sample
    PROVE  DipsFade'
<1>1. DipBegins \/ DipEnds \/ UNCHANGED dips
  BY DEF Sample
<1> QED BY <1>1 DEF DipBegins, DipEnds, dips, DipsFade, TypeOK

LEMMA FadeKeeps ==
    ASSUME TypeOK, DipsFade, Fade
    PROVE  DipsFade'
<1>1. dipCount \in Nat /\ recentDips \in Nat /\ secondsWithDips \in Nat
  BY DEF TypeOK
<1>2. CASE dipCount # 0 /\ recentDips = dipCount /\ secondsWithDips > 0
  <2>1. /\ dipCount - dipCount \div secondsWithDips >= secondsWithDips - 1
        /\ secondsWithDips = 1 => dipCount - dipCount \div secondsWithDips = 0
    BY <1>1, <1>2, ShareLeaves DEF DipsFade
  <2>2. dipCount \div secondsWithDips \in Nat
    BY <1>1, <1>2, Share
  <2> QED BY <1>1, <1>2, <2>1, <2>2 DEF Fade, DipsFade
<1>3. CASE ~(dipCount # 0 /\ recentDips = dipCount /\ secondsWithDips > 0)
  BY <1>1, <1>3 DEF Fade, DipsFade
<1> QED BY <1>2, <1>3

LEMMA SecondKeeps ==
    ASSUME TypeOK, FaultsArePartial, Second
    PROVE  TypeOK' /\ FaultsArePartial' /\ CountSettles'
<1>1. PICK size \in Sizes :
        \/ Shrink(size) \/ Grow(size)
        \/ size = arraySize /\ UNCHANGED <<recent, arraySize, recentIndex, fault, partial, reordered>>
  BY DEF Second, Sampler_setHistorySize
<1>2. /\ sampled' = FALSE /\ historyCount' = historyCount /\ taken' = taken
      /\ lastDip' \in BOOLEAN /\ {dipCount', recentDips', secondsWithDips'} \subseteq Nat
  BY FadeTyped DEF Second
<1>3. size \in Nat /\ AtLeastOne(size) \in Nat \ {0}
  BY SizesTyped
<1>4. CASE Grow(size)
  <2>1. arraySize' = size /\ size \in Nat \ {0} /\ recentIndex' = recentIndex
        /\ recent' \in [0 .. size - 1 -> Junk .. MaxSamples]
        /\ fault' = fault /\ partial' = partial /\ reordered' \in BOOLEAN /\ arraySize < size
    BY <1>3, <1>4, GrowKeeps DEF TypeOK
  <2>2. TypeOK'
    BY <1>2, <2>1 DEF TypeOK
  <2> QED BY <1>2, <2>1, <2>2 DEF TypeOK, FaultsArePartial, CountSettles
<1>5. CASE Shrink(size)
  <2> DEFINE n == AtLeastOne(size)
  <2>1. arraySize' = n /\ (ShrinkPartial(n) \/ ShrinkFull(n))
    BY <1>5 DEF Shrink
  <2>2. CASE ShrinkPartial(n)
    <3>1. TypeOK'
      BY <1>2, <1>3, <2>1, <2>2, PartialKeeps DEF TypeOK
    <3> QED BY <1>2, <1>3, <2>2, <3>1, PartialKeeps DEF FaultsArePartial, CountSettles
  <2>3. CASE ShrinkFull(n)
    <3>1. /\ recent' \in [0 .. n - 1 -> Junk .. MaxSamples]
          /\ recentIndex' \in 0 .. n - 1
          /\ fault' = fault /\ partial' = partial /\ reordered' \in BOOLEAN
      BY <1>3, <2>3, FullKeeps
    <3>2. recentIndex' \in Nat
      BY <1>3, <3>1
    <3>3. TypeOK'
      BY <1>2, <1>3, <2>1, <3>1, <3>2 DEF TypeOK
    <3> QED BY <1>2, <1>3, <2>1, <3>1, <3>3 DEF FaultsArePartial, CountSettles
  <2> QED BY <2>1, <2>2, <2>3
<1>6. CASE size = arraySize /\ UNCHANGED <<recent, arraySize, recentIndex, fault, partial, reordered>>
  BY <1>2, <1>6 DEF TypeOK, FaultsArePartial, CountSettles
<1> QED BY <1>1, <1>4, <1>5, <1>6

LEMMA Inductive == Spec => [](TypeOK /\ FaultsArePartial /\ CountSettles /\ DipsFade)
<1>1. Init => TypeOK /\ FaultsArePartial /\ CountSettles /\ DipsFade
  <2> SUFFICES ASSUME Init PROVE TypeOK /\ FaultsArePartial /\ CountSettles /\ DipsFade
    OBVIOUS
  <2>1. arraySize \in Nat \ {0}
    BY SizesTyped DEF Init
  <2>2. recent \in [0 .. arraySize - 1 -> Junk .. MaxSamples]
    BY HistoryAssumption DEF Init, Empty, Junk
  <2>3. taken \in Seq(0 .. MaxSamples) /\ recentIndex \in Nat /\ historyCount \in Nat
    BY DEF Init
  <2>4. recentIndex < arraySize /\ historyCount <= arraySize
    BY <2>1 DEF Init
  <2>5. TypeOK
    BY <2>1, <2>2, <2>3 DEF Init, TypeOK
  <2>6. DipsFade
    BY DEF Init, DipsFade
  <2> QED BY <2>4, <2>5, <2>6 DEF Init, FaultsArePartial, CountSettles
<1>2. TypeOK /\ FaultsArePartial /\ CountSettles /\ DipsFade /\ [Next]_vars
        => TypeOK' /\ FaultsArePartial' /\ CountSettles' /\ DipsFade'
  <2> SUFFICES ASSUME TypeOK, FaultsArePartial, CountSettles, DipsFade, [Next]_vars
               PROVE  TypeOK' /\ FaultsArePartial' /\ CountSettles' /\ DipsFade'
    OBVIOUS
  <2>1. CASE UNCHANGED vars
    BY <2>1 DEF vars, dips, TypeOK, FaultsArePartial, CountSettles, DipsFade
  <2>2. CASE Sample
    BY <2>2, SampleKeeps, SampleDips
  <2>3. CASE Second
    BY <2>3, SecondKeeps, FadeKeeps DEF Second
  <2> QED BY <2>1, <2>2, <2>3 DEF Next
<1> QED BY <1>1, <1>2, PTL DEF Spec

----------------------------------------------------------------------------
(***************************************************************************)
(* The circular buffer, as long as no resize has reordered it: the reading *)
(* taken k before the next one is k places back of recentIndex, and before *)
(* the array is full for the first time nothing has wrapped.               *)
(***************************************************************************)
Back(k) == IF k <= recentIndex THEN recentIndex - k ELSE arraySize + recentIndex - k

BufferInv ==
    ~fault /\ ~reordered =>
        /\ recentIndex < arraySize
        /\ historyCount <= Len(taken) /\ historyCount <= arraySize
        /\ Len(taken) < arraySize => recentIndex = Len(taken)
        /\ \A k \in 1 .. arraySize :
             k <= Len(taken) => recent[Back(k)] = taken[Len(taken) + 1 - k]

LEMMA Wraps ==
    ASSUME NEW b \in Nat \ {0}, NEW a \in Nat, a < 2 * b
    PROVE  a % b = IF a < b THEN a ELSE a - b
OBVIOUS

LEMMA NextPlace ==
    ASSUME NEW b \in Nat \ {0}, NEW r \in 0 .. b - 1
    PROVE  (r + 1) % b = IF r + 1 < b THEN r + 1 ELSE 0
OBVIOUS

LEMMA SampleBuffer ==
    ASSUME TypeOK, BufferInv, Sample
    PROVE  BufferInv'
<1> SUFFICES ASSUME ~fault', ~reordered'
             PROVE  /\ recentIndex' < arraySize'
                    /\ historyCount' <= Len(taken') /\ historyCount' <= arraySize'
                    /\ Len(taken') < arraySize' => recentIndex' = Len(taken')
                    /\ \A k \in 1 .. arraySize' :
                         k <= Len(taken') => recent'[Back(k)'] = taken'[Len(taken') + 1 - k]
  BY DEF BufferInv
<1>1. PICK reading \in {0, Len(taken) + 1} :
        /\ taken' = Append(taken, reading)
        /\ recent' = IF recentIndex < arraySize
                       THEN [recent EXCEPT ![recentIndex] = reading] ELSE recent
  BY DEF Sample
<1>2. /\ recentIndex < arraySize /\ historyCount <= Len(taken) /\ historyCount <= arraySize
      /\ Len(taken) < arraySize => recentIndex = Len(taken)
      /\ \A k \in 1 .. arraySize : k <= Len(taken) => recent[Back(k)] = taken[Len(taken) + 1 - k]
  BY DEF BufferInv, Sample
<1>3. /\ arraySize \in Nat \ {0} /\ arraySize' = arraySize /\ recentIndex \in Nat
      /\ recent \in [0 .. arraySize - 1 -> Junk .. MaxSamples]
      /\ taken \in Seq(0 .. MaxSamples) /\ Len(taken) \in Nat /\ historyCount \in Nat
  BY DEF TypeOK, Sample
<1>4. recentIndex' = IF recentIndex + 1 < arraySize THEN recentIndex + 1 ELSE 0
  <2>1. recentIndex \in 0 .. arraySize - 1 /\ arraySize \in Nat \ {0}
    BY <1>2, <1>3
  <2>2. (recentIndex + 1) % arraySize = IF recentIndex + 1 < arraySize THEN recentIndex + 1 ELSE 0
    BY <2>1, NextPlace
  <2> QED BY <2>2 DEF Sample
<1>5. /\ Len(taken') = Len(taken) + 1 /\ taken'[Len(taken) + 1] = reading
      /\ \A i \in 1 .. Len(taken) : taken'[i] = taken[i]
  BY <1>1, <1>3
<1>6. historyCount' <= Len(taken') /\ historyCount' <= arraySize'
  BY <1>2, <1>3, <1>5 DEF Sample, NextCount
<1>7. ASSUME NEW k \in 1 .. arraySize', k <= Len(taken')
      PROVE  recent'[Back(k)'] = taken'[Len(taken') + 1 - k]
  <2>1. recent'[recentIndex] = reading
        /\ \A i \in 0 .. arraySize - 1 : i # recentIndex => recent'[i] = recent[i]
    BY <1>1, <1>2, <1>3
  <2>2. CASE k = 1
    <3>1. Back(k)' = recentIndex
      BY <1>2, <1>3, <1>4, <2>2 DEF Back
    <3> QED BY <1>3, <1>5, <2>1, <2>2, <3>1
  <2>3. CASE k # 1
    <3>1. k - 1 \in 1 .. arraySize /\ k - 1 <= Len(taken) /\ k <= arraySize
      BY <1>3, <1>5, <1>7, <2>3
    <3>2. Back(k)' = Back(k - 1)
      BY <1>2, <1>3, <1>4, <3>1 DEF Back
    <3>3. Back(k - 1) \in 0 .. arraySize - 1 /\ Back(k - 1) # recentIndex
      BY <1>2, <1>3, <3>1 DEF Back
    <3>4. recent[Back(k - 1)] = taken[Len(taken) + 1 - (k - 1)]
      BY <1>2, <3>1
    <3>5. Len(taken) + 1 - (k - 1) = Len(taken') + 1 - k /\ Len(taken) + 1 - (k - 1) \in 1 .. Len(taken)
      BY <1>3, <1>5, <3>1
    <3> QED BY <1>5, <2>1, <3>2, <3>3, <3>4, <3>5
  <2> QED BY <2>2, <2>3
<1>8. recentIndex' < arraySize' /\ (Len(taken') < arraySize' => recentIndex' = Len(taken'))
  BY <1>2, <1>3, <1>4, <1>5
<1> QED BY <1>6, <1>7, <1>8

\* A resize that leaves the order alone met a history with nothing wrapped, and copies
\* at least the readings and the place after them.
LEMMA ResizeBuffer ==
    ASSUME TypeOK, BufferInv, Second
    PROVE  BufferInv'
<1>0. ~fault /\ UNCHANGED <<historyCount, taken>>
  BY DEF Second
<1>1. PICK size \in Sizes :
        \/ Shrink(size) \/ Grow(size)
        \/ size = arraySize /\ UNCHANGED <<recent, arraySize, recentIndex, fault, partial, reordered>>
  BY DEF Second, Sampler_setHistorySize
<1>2. CASE size = arraySize /\ UNCHANGED <<recent, arraySize, recentIndex, fault, partial, reordered>>
  BY <1>0, <1>2 DEF BufferInv, Back
<1>3. CASE Shrink(size) \/ Grow(size)
  <2> SUFFICES ASSUME ~fault', ~reordered'
               PROVE  BufferInv'
    BY DEF BufferInv
  <2> DEFINE L == Len(taken)
  <2>1. /\ arraySize \in Nat \ {0} /\ L \in Nat /\ historyCount \in Nat
        /\ size \in Nat /\ AtLeastOne(size) \in Nat \ {0}
    BY SizesTyped DEF TypeOK
  <2>2. ~reordered /\ ~Full
    BY <1>3 DEF Shrink, ShrinkPartial, ShrinkFull, Grow
  <2>3. L + 1 < arraySize
    BY <2>1, <2>2 DEF Full
  <2>4. /\ recentIndex = L /\ historyCount <= L
        /\ \A k \in 1 .. L : recent[L - k] = taken[L + 1 - k]
    <3>1. recentIndex = L /\ historyCount <= L
      BY <1>0, <2>1, <2>2, <2>3 DEF BufferInv
    <3>2. \A k \in 1 .. L : k \in 1 .. arraySize /\ k <= L /\ Back(k) = L - k
      BY <2>1, <2>3, <3>1 DEF Back
    <3>3. \A k \in 1 .. arraySize : k <= L => recent[Back(k)] = taken[L + 1 - k]
      BY <1>0, <2>2 DEF BufferInv
    <3> QED BY <3>1, <3>2, <3>3
  <2>5. /\ arraySize' \in Nat /\ L < arraySize' /\ recentIndex' = recentIndex
        /\ \A i \in 0 .. L : recent'[i] = recent[i]
    <3>1. CASE Grow(size)
      <4>1. /\ arraySize' = size /\ size > arraySize /\ recentIndex' = recentIndex
            /\ recent' = [i \in 0 .. size - 1 |-> IF i < arraySize THEN recent[i] ELSE 0]
        BY <3>1 DEF Grow
      <4> QED BY <2>1, <2>3, <4>1
    <3>2. CASE Shrink(size)
      <4> DEFINE s == AtLeastOne(size)
                 n == (recentIndex + 1) % arraySize
      <4>1. ShrinkPartial(s) /\ arraySize' = s
        BY <3>2 DEF Shrink, ShrinkFull
      <4>2. n = L + 1
        BY <2>1, <2>3, <2>4, Wraps
      <4>3. /\ recent' = [i \in 0 .. s - 1 |-> IF i < n THEN recent[i] ELSE Junk]
            /\ ~(n > s) /\ recentIndex' = recentIndex
        BY <4>1 DEF ShrinkPartial
      <4> HIDE DEF s, n
      <4>4. s \in Nat \ {0}
        BY <2>1 DEF s
      <4> QED BY <2>1, <4>1, <4>2, <4>3, <4>4
    <3> QED BY <1>3, <3>1, <3>2
  <2>6. \A k \in 1 .. arraySize' : k <= Len(taken') => recent'[Back(k)'] = taken'[Len(taken') + 1 - k]
    <3> SUFFICES ASSUME NEW k \in 1 .. arraySize', k <= L
                 PROVE  recent'[Back(k)'] = taken[L + 1 - k]
      BY <1>0
    <3>1. k \in 1 .. L /\ L - k \in 0 .. L
      BY <2>1, <2>5
    <3>2. Back(k)' = L - k
      BY <2>1, <2>4, <2>5, <3>1 DEF Back
    <3> QED BY <2>4, <2>5, <3>1, <3>2
  <2> QED BY <1>0, <2>1, <2>4, <2>5, <2>6 DEF BufferInv
<1> QED BY <1>1, <1>2, <1>3

LEMMA BufferInductive == Spec => [](TypeOK /\ BufferInv)
<1>1. Init => BufferInv
  <2> SUFFICES ASSUME Init PROVE BufferInv
    OBVIOUS
  <2>1. arraySize \in Nat \ {0} /\ Len(taken) = 0 /\ recentIndex = 0 /\ historyCount = 0
    BY SizesTyped DEF Init
  <2> QED BY <2>1 DEF BufferInv
<1>2. TypeOK /\ BufferInv /\ [Next]_vars => BufferInv'
  <2> SUFFICES ASSUME TypeOK, BufferInv, [Next]_vars PROVE BufferInv'
    OBVIOUS
  <2>1. CASE UNCHANGED vars
    BY <2>1 DEF vars, BufferInv, Back
  <2> QED BY <2>1, SampleBuffer, ResizeBuffer DEF Next
<1> QED BY <1>1, <1>2, Inductive, PTL DEF Spec

\* The place k before the next one, as the code computes it.
LEMMA BackIs ==
    ASSUME TypeOK, BufferInv, ~fault, ~reordered, NEW k \in 1 .. historyCount
    PROVE  /\ arraySize + recentIndex - k >= 0
           /\ recent[(arraySize + recentIndex - k) % arraySize] = taken[Len(taken) + 1 - k]
<1>1. /\ arraySize \in Nat \ {0} /\ recentIndex \in Nat /\ historyCount \in Nat /\ Len(taken) \in Nat
      /\ recentIndex < arraySize /\ historyCount <= Len(taken) /\ historyCount <= arraySize
  BY DEF TypeOK, BufferInv
<1>2. arraySize + recentIndex - k \in Nat /\ arraySize + recentIndex - k < 2 * arraySize
  BY <1>1
<1>3. (arraySize + recentIndex - k) % arraySize = Back(k)
  <2> DEFINE a == arraySize + recentIndex - k
  <2>1. a % arraySize = IF a < arraySize THEN a ELSE a - arraySize
    <3> HIDE DEF a
    <3>1. arraySize \in Nat \ {0} /\ a \in Nat /\ a < 2 * arraySize
      BY <1>1, <1>2 DEF a
    <3> QED BY <3>1, Wraps
  <2> QED BY <1>1, <2>1 DEF Back
<1>4. k \in 1 .. arraySize /\ k <= Len(taken)
  BY <1>1
<1> QED BY <1>2, <1>3, <1>4 DEF BufferInv

(***************************************************************************)
(* Types, for every set of sizes; the array never has less than one place. *)
(***************************************************************************)
THEOREM HistoryTyped == Spec => []TypeOK
BY Inductive, PTL

(***************************************************************************)
(* No access leaves the array unless a shrink took the history for one     *)
(* that is not full.                                                       *)
(***************************************************************************)
THEOREM OnlyPartialFaults == Spec => []FaultsArePartial
BY Inductive, PTL

(***************************************************************************)
(* A count beyond the array lasts until the next sample at most.           *)
(***************************************************************************)
THEOREM CountBounded == Spec => []CountSettles
BY Inductive, PTL

(***************************************************************************)
(* The dips fade by at least one in a quiet second and never below zero,   *)
(* however many there were.                                                *)
(***************************************************************************)
THEOREM DipsFadeOut == Spec => []DipsFade
BY Inductive, PTL
(***************************************************************************)
(* The places counted as valid are the last readings, through any number   *)
(* of wraps of an array of any size, until a resize reorders them.         *)
(***************************************************************************)
THEOREM RecentKept == Spec => []KeepsRecent
<1>1. TypeOK /\ BufferInv => KeepsRecent
  BY BackIs DEF KeepsRecent
<1> QED BY <1>1, BufferInductive, PTL

(***************************************************************************)
(* Sampler_get_N's loop starts one place late for every n it does not      *)
(* refuse: all but the last of what it copies are the newest readings.     *)
(***************************************************************************)
THEOREM GetNMisses == Spec => []GetNIsOneOff
<1>1. TypeOK /\ BufferInv => GetNIsOneOff
  <2> SUFFICES ASSUME TypeOK, BufferInv, ~fault, ~reordered, NEW n \in 1 .. historyCount
               PROVE  SubSeq(Sampler_get_N(n), 1, n - 1) = SubSeq(taken, Len(taken) - n + 2, Len(taken))
    BY DEF GetNIsOneOff
  <2> DEFINE g == Sampler_get_N(n)
             L == Len(taken)
  <2>1. /\ historyCount \in Nat /\ L \in Nat /\ n \in 1 .. L
        /\ arraySize \in Nat \ {0} /\ recentIndex \in Nat /\ taken \in Seq(0 .. MaxSamples)
    BY DEF TypeOK, BufferInv
  <2>2. g = [i \in 1 .. n |-> LET j == arraySize + recentIndex - n + i
                              IN  IF j >= 0 THEN recent[j % arraySize] ELSE Junk]
    BY DEF Sampler_get_N
  <2>3. \A i \in 1 .. n - 1 : g[i] \in Junk .. MaxSamples
    <3>1. \A i \in 1 .. n : arraySize + recentIndex - n + i \in Int
      BY <2>1
    <3>2. Junk \in Junk .. MaxSamples
      BY HistoryAssumption DEF Junk
    <3>3. \A i \in 1 .. n : g[i] \in Junk .. MaxSamples
      BY <2>2, <3>1, <3>2, ReadTyped
    <3> HIDE DEF g
    <3> QED BY <2>1, <3>3
  <2>4. \A i \in 1 .. n - 1 : g[i] = taken[L - n + 1 + i]
    <3> SUFFICES ASSUME NEW i \in 1 .. n - 1 PROVE g[i] = taken[L - n + 1 + i]
      OBVIOUS
    <3>1. n - i \in 1 .. historyCount /\ i \in 1 .. n
      BY <2>1
    <3>2. /\ arraySize + recentIndex - (n - i) >= 0
          /\ recent[(arraySize + recentIndex - (n - i)) % arraySize] = taken[L + 1 - (n - i)]
      BY <3>1, BackIs
    <3>3. arraySize + recentIndex - (n - i) = arraySize + recentIndex - n + i /\ L + 1 - (n - i) = L - n + 1 + i
      BY <2>1
    <3> QED BY <2>2, <3>1, <3>2, <3>3
  <2> HIDE DEF g
  <2>5. /\ SubSeq(g, 1, n - 1) \in Seq(Junk .. MaxSamples) /\ Len(SubSeq(g, 1, n - 1)) = n - 1
        /\ \A i \in 1 .. n - 1 : SubSeq(g, 1, n - 1)[i] = g[i]
    <3> DEFINE m == n - 1
    <3>1. m \in Int /\ 1 \in Int /\ m >= 0 /\ m - 1 + 1 = m
      BY <2>1
    <3>2. \A i \in 1 .. m : g[i] \in Junk .. MaxSamples
      BY <2>3
    <3> HIDE DEF m
    <3>3. /\ SubSeq(g, 1, m) \in Seq(Junk .. MaxSamples)
          /\ Len(SubSeq(g, 1, m)) = IF 1 <= m THEN m - 1 + 1 ELSE 0
          /\ \A i \in 1 .. m - 1 + 1 : SubSeq(g, 1, m)[i] = g[1 + i - 1]
      BY <3>1, <3>2, SubSeqProperties
    <3>4. Len(SubSeq(g, 1, m)) = m /\ \A i \in 1 .. m : SubSeq(g, 1, m)[i] = g[i]
      BY <3>1, <3>3
    <3> QED BY <3>3, <3>4 DEF m
  <2>6. /\ SubSeq(taken, L - n + 2, L) \in Seq(Junk .. MaxSamples)
        /\ Len(SubSeq(taken, L - n + 2, L)) = n - 1
        /\ \A i \in 1 .. n - 1 : SubSeq(taken, L - n + 2, L)[i] = taken[L - n + 1 + i]
    <3> DEFINE m == L - n + 2
    <3>1. /\ m \in Int /\ L \in Int /\ n \in Int /\ 2 <= m /\ L - m + 1 = n - 1
          /\ m <= L => n - 1 >= 1
          /\ ~(m <= L) => n - 1 = 0
      BY <2>1
    <3>2. \A i \in m .. L : taken[i] \in Junk .. MaxSamples
      <4>1. \A i \in 1 .. L : taken[i] \in 0 .. MaxSamples
        BY <2>1, ElementOfSeq, Zenon
      <4>2. MaxSamples \in Nat
        BY HistoryAssumption
      <4> QED BY <3>1, <4>1, <4>2 DEF Junk
    <3>3. /\ SubSeq(taken, m, L) \in Seq(Junk .. MaxSamples)
          /\ Len(SubSeq(taken, m, L)) = IF m <= L THEN L - m + 1 ELSE 0
          /\ \A i \in 1 .. L - m + 1 : SubSeq(taken, m, L)[i] = taken[m + i - 1]
      <4> HIDE DEF m
      <4> QED BY <3>1, <3>2, SubSeqProperties
    <3>4. \A i \in 1 .. n - 1 : m + i - 1 = L - n + 1 + i
      BY <2>1
    <3>5. Len(SubSeq(taken, m, L)) = n - 1
      BY <3>1, <3>3
    <3> QED BY <3>1, <3>3, <3>4, <3>5
  <2>7. \A i \in 1 .. n - 1 : SubSeq(g, 1, n - 1)[i] = SubSeq(taken, L - n + 2, L)[i]
    BY <2>4, <2>5, <2>6
  <2> QED BY <2>1, <2>5, <2>6, <2>7, SeqEqual DEF g
<1> QED BY <1>1, BufferInductive, PTL
=============================================================================
