---------------------------- MODULE LightHistory ----------------------------
(***************************************************************************)
(* The history of light readings in work/as2/sampler.c: a circular buffer  *)
(* that the sampler thread writes every millisecond and resizes, once a    *)
(* second, to what a potentiometer says; and the dips it counts in a       *)
(* sample and lets fade in a second.  Calls are taken one at a time;       *)
(* the terminal output is left out.                                        *)
(*                                                                         *)
(* A reading is its serial number, so that positions can be told apart, or *)
(* 0: a reading in the dark, which the code takes for an empty place.  For *)
(* a dip the average is stored, which is not 0.  Whether a reading is a    *)
(* dip or ends one hangs on the average and is left open.                  *)
(* taken, partial and reordered are history variables.                     *)
(***************************************************************************)
EXTENDS Integers, Sequences

CONSTANTS
    Sizes,       \* what the potentiometer may read
    MaxSamples   \* the model stops sampling here

ASSUME HistoryAssumption == Sizes \subseteq Nat /\ Sizes # {} /\ MaxSamples \in Nat

VARIABLES
    recent,        \* index -> reading
    arraySize,
    recentIndex,   \* where the next reading goes
    historyCount,
    sampled,       \* a sample was taken since the last second ended
    lastDip,       \* in a dip
    dipCount, recentDips, secondsWithDips,
    fault,         \* an access left the array: nothing is known any more
    taken,         \* all readings
    partial,       \* a shrink took the history for one that is not full
    reordered      \* a resize met a history with at most one place left, or took it for full

dips == <<lastDip, dipCount, recentDips, secondsWithDips>>
vars == <<recent, arraySize, recentIndex, historyCount, sampled, dips, fault,
          taken, partial, reordered>>

\* What malloc leaves in memory that nobody wrote.
Junk == -1

Empty(n) == [i \in 0 .. n - 1 |-> 0]

\* A size of 0 is taken as 1.
AtLeastOne(size) == IF size = 0 THEN 1 ELSE size

Init ==
    /\ arraySize \in {AtLeastOne(size) : size \in Sizes}
    /\ recent = Empty(arraySize)
    /\ recentIndex = 0
    /\ historyCount = 0
    /\ sampled = FALSE
    /\ lastDip = FALSE /\ dipCount = 0 /\ recentDips = 0 /\ secondsWithDips = 0
    /\ fault = FALSE
    /\ taken = <<>>
    /\ partial = FALSE
    /\ reordered = FALSE
----------------------------------------------------------------------------

NextCount == IF historyCount < arraySize THEN historyCount + 1 ELSE arraySize - 1

\* A slip: the index moves on before the reading is stored.
SampleAdvancesFirst ==
    /\ ~fault /\ Len(taken) < MaxSamples
    /\ \E reading \in {0, Len(taken) + 1} :
         /\ taken' = Append(taken, reading)
         /\ recentIndex' = (recentIndex + 1) % arraySize
         /\ recent' = [recent EXCEPT ![(recentIndex + 1) % arraySize] = reading]
    /\ historyCount' = NextCount
    /\ sampled' = TRUE
    /\ UNCHANGED <<arraySize, dips, fault, partial, reordered>>

\* A dip counts once, when it begins.
DipBegins ==
    ~lastDip /\ lastDip' = TRUE /\ dipCount' = dipCount + 1 /\ UNCHANGED <<recentDips, secondsWithDips>>
DipEnds == lastDip /\ lastDip' = FALSE /\ UNCHANGED <<dipCount, recentDips, secondsWithDips>>

\* recent[recentIndex] = voltage, wherever recentIndex points.
Sample ==
    /\ ~fault /\ Len(taken) < MaxSamples
    /\ \E reading \in {0, Len(taken) + 1} :
         /\ (reading # 0 /\ DipBegins) \/ DipEnds \/ UNCHANGED dips
         /\ taken' = Append(taken, reading)
         /\ recent' = IF recentIndex < arraySize
                        THEN [recent EXCEPT ![recentIndex] = reading] ELSE recent
    /\ fault' = (recentIndex >= arraySize)
    /\ recentIndex' = (recentIndex + 1) % arraySize
    /\ historyCount' = NextCount
    /\ sampled' = TRUE
    /\ UNCHANGED <<arraySize, partial, reordered>>
----------------------------------------------------------------------------
(***************************************************************************)
(* Sampler_setHistorySize.  The history is taken to be not full when the   *)
(* place after the next one holds 0; what unwritten memory holds may or    *)
(* may not be 0.                                                           *)
(***************************************************************************)
Beyond == recent[(recentIndex + 1) % arraySize]

LooksPartial == Beyond \in {0, Junk}
LooksFull == Beyond # 0

\* At most one place is left; the code tells this from full by its readings.
Full == Len(taken) + 1 >= arraySize

\* Copies from the start; more than the new size leaves the new array.
ShrinkPartial(newSize) ==
    LET n == (recentIndex + 1) % arraySize
    IN  /\ LooksPartial
        /\ recent' = [i \in 0 .. newSize - 1 |-> IF i < n THEN recent[i] ELSE Junk]
        /\ fault' = (n > newSize)
        /\ partial' = TRUE
        /\ reordered' = (reordered \/ Full)
        /\ UNCHANGED recentIndex

\* A slip: the index stays where it was in the larger array.
ShrinkFullKeepsIndex(newSize) ==
    /\ LooksFull
    /\ recent' = [i \in 0 .. newSize - 1 |->
                    recent[(arraySize + recentIndex - newSize + 2 + i) % arraySize]]
    /\ reordered' = TRUE
    /\ UNCHANGED <<recentIndex, fault, partial>>

ShrinkFull(newSize) ==
    /\ LooksFull
    /\ recent' = [i \in 0 .. newSize - 1 |->
                    recent[(arraySize + recentIndex - newSize + 2 + i) % arraySize]]
    /\ recentIndex' = newSize - 1
    /\ reordered' = TRUE
    /\ UNCHANGED <<fault, partial>>

Shrink(size) ==
    /\ size < arraySize
    /\ arraySize' = AtLeastOne(size)
    /\ ShrinkPartial(AtLeastOne(size)) \/ ShrinkFull(AtLeastOne(size))

Grow(size) ==
    /\ size > arraySize
    /\ arraySize' = size
    /\ recent' = [i \in 0 .. size - 1 |-> IF i < arraySize THEN recent[i] ELSE 0]
    /\ reordered' = (reordered \/ Full)
    /\ UNCHANGED <<recentIndex, fault, partial>>

Sampler_setHistorySize(size) == Shrink(size) \/ Grow(size)

\* A slip: the dips are remembered as they were before they fade.
FadeRemembersFirst ==
    /\ IF dipCount # 0 /\ recentDips = dipCount /\ secondsWithDips > 0
         THEN /\ dipCount' = dipCount - dipCount \div secondsWithDips
              /\ secondsWithDips' = secondsWithDips - 1
         ELSE /\ secondsWithDips' = secondsWithDips + (IF recentDips # dipCount /\ dipCount # 0 THEN 1 ELSE 0)
              /\ UNCHANGED dipCount
    /\ recentDips' = dipCount
    /\ UNCHANGED lastDip

\* A second without a new dip takes one second's share off the count.
Fade ==
    /\ IF dipCount # 0 /\ recentDips = dipCount /\ secondsWithDips > 0
         THEN /\ dipCount' = dipCount - dipCount \div secondsWithDips
              /\ secondsWithDips' = secondsWithDips - 1
         ELSE /\ secondsWithDips' = secondsWithDips + (IF recentDips # dipCount /\ dipCount # 0 THEN 1 ELSE 0)
              /\ UNCHANGED dipCount
    /\ recentDips' = dipCount'
    /\ UNCHANGED lastDip

\* Once a second, after a sample: the size the potentiometer asks for, the dips.
Second ==
    /\ ~fault /\ sampled
    /\ \E size \in Sizes :
         \/ Sampler_setHistorySize(size)
         \/ size = arraySize /\ UNCHANGED <<recent, arraySize, recentIndex, fault, partial, reordered>>
    /\ Fade
    /\ sampled' = FALSE
    /\ UNCHANGED <<historyCount, taken>>

Next == Sample \/ Second

Spec == Init /\ [][Next]_vars
----------------------------------------------------------------------------
(***************************************************************************)
(* Sampler_get_N for an n that it does not refuse.                         *)
(***************************************************************************)
\* A slip: one place back.
GetNStartsEarly(n) ==
    [i \in 1 .. n |->
        LET j == arraySize + recentIndex - n + i - 1
        IN  IF j >= 0 THEN recent[j % arraySize] ELSE Junk]

Sampler_get_N(n) ==
    [i \in 1 .. n |->
        LET j == arraySize + recentIndex - n + i
        IN  IF j >= 0 THEN recent[j % arraySize] ELSE Junk]

(***************************************************************************)
(* Types; the array has as many places as arraySize says, at least one.    *)
(***************************************************************************)
TypeOK ==
    /\ arraySize \in Nat \ {0}
    /\ recent \in [0 .. arraySize - 1 -> Junk .. MaxSamples]
    /\ recentIndex \in Nat /\ historyCount \in Nat
    /\ sampled \in BOOLEAN /\ fault \in BOOLEAN
    /\ lastDip \in BOOLEAN /\ {dipCount, recentDips, secondsWithDips} \subseteq Nat
    /\ partial \in BOOLEAN /\ reordered \in BOOLEAN
    /\ taken \in Seq(0 .. MaxSamples)

(***************************************************************************)
(* Until a resize meets a history that is full but for one place or taken  *)
(* for full, the places counted as valid are the last readings, the newest *)
(* just before recentIndex: through every wrap, through growth and through *)
(* shrinks of a history that is filling (sampler.c:72-78, :98-110, :248).  *)
(***************************************************************************)
KeepsRecent ==
    ~fault /\ ~reordered =>
        \A k \in 1 .. historyCount :
            recent[(arraySize + recentIndex - k) % arraySize] = taken[Len(taken) + 1 - k]

(***************************************************************************)
(* A resize does not correct historyCount, but the next sample does: a     *)
(* count beyond the array lasts for one millisecond (sampler.c:252-259).   *)
(***************************************************************************)
CountSettles == sampled => historyCount <= arraySize

(***************************************************************************)
(* Shrinking a full history and growing any never take the index, or an    *)
(* access, out of the array: the only way there is a shrink of a history   *)
(* taken for one that is not full (sampler.c:71-89).                       *)
(***************************************************************************)
FaultsArePartial == ~partial => ~fault /\ recentIndex < arraySize

(***************************************************************************)
(* "if old array is not full, just copy from start til last valid value"   *)
(* (sampler.c:71): such a shrink stays within both arrays.  It fails when  *)
(* more values are valid than the new array holds.                         *)
(***************************************************************************)
InBounds == ~fault

(***************************************************************************)
(* get N (sampler.c:117-134) ends one place too far: what it returns is    *)
(* the n - 1 newest readings, through every wrap, and then the place of    *)
(* the next sample.                                                        *)
(***************************************************************************)
GetNIsOneOff ==
    ~fault /\ ~reordered =>
        \A n \in 1 .. historyCount :
            SubSeq(Sampler_get_N(n), 1, n - 1) = SubSeq(taken, Len(taken) - n + 2, Len(taken))

(***************************************************************************)
(* The seconds that stand for dips never outlive them, nor the other way   *)
(* round: the share is at least one dip, the count never goes negative,    *)
(* and as many quiet seconds as there were seconds with dips bring it to 0 *)
(* (sampler.c:269-282).                                                    *)
(***************************************************************************)
DipsFade ==
    /\ secondsWithDips <= recentDips /\ recentDips <= dipCount
    /\ (secondsWithDips = 0) <=> (recentDips = 0)
=============================================================================
