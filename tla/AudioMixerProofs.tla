-------------------------- MODULE AudioMixerProofs --------------------------
(***************************************************************************)
(* The mixer's table implements the abstract mixer of Voices, for a table, *)
(* a period and sounds of any size; and, in a second part, the settings of *)
(* the same file (MixerSettings) for any threads and limits.               *)
(***************************************************************************)
EXTENDS AudioMixer, MixerSettings, Functions, FiniteSetTheorems, WellFoundedInduction, TLAPS

(***************************************************************************)
(* Induction over numbers and over the subsets of a finite set.            *)
(***************************************************************************)
LEMMA Least ==
    ASSUME NEW T \in SUBSET Nat, T # {}
    PROVE  \E x \in T : \A y \in T : x <= y
<1>1. PICK x \in T : \A y \in T : <<y, x>> \notin OpToRel(<, Nat)
  BY NatLessThanWellFounded, WFMin, Zenon
<1>2. \A y \in T : ~(y < x)
  BY <1>1, Zenon DEF OpToRel
<1> QED BY <1>2

LEMMA Induct ==
    ASSUME NEW S, 0 \in S, \A n \in Nat : n \in S => n + 1 \in S
    PROVE  Nat \subseteq S
<1> SUFFICES ASSUME Nat \ S # {} PROVE FALSE
  OBVIOUS
<1>1. PICK x \in Nat \ S : \A y \in Nat \ S : x <= y
  BY Least
<1>2. x # 0 /\ x - 1 \in Nat
  OBVIOUS
<1> QED BY <1>1, <1>2

LEMMA SubsetInduct ==
    ASSUME NEW D, IsFiniteSet(D), NEW P, {} \in P,
           \A T \in SUBSET D : T # {} /\ (\A x \in T : T \ {x} \in P) => T \in P
    PROVE  SUBSET D \subseteq P
<1> DEFINE S == {n \in Nat : \A T \in SUBSET D : Cardinality(T) = n => T \in P}
<1>0. \A T \in SUBSET D : IsFiniteSet(T) /\ Cardinality(T) \in Nat
  BY FS_Subset, FS_CardinalityType
<1>1. 0 \in S
  BY <1>0, FS_EmptySet
<1>2. \A n \in Nat : n \in S => n + 1 \in S
  <2> SUFFICES ASSUME NEW n \in Nat, n \in S, NEW T \in SUBSET D, Cardinality(T) = n + 1
               PROVE  T \in P
    OBVIOUS
  <2>1. T # {}
    <3>1. T = {} => Cardinality(T) = 0
      BY FS_EmptySet, Zenon
    <3> QED BY <3>1
  <2>2. ASSUME NEW x \in T PROVE T \ {x} \in P
    <3>1. Cardinality(T \ {x}) = n
      BY <1>0, FS_RemoveElement
    <3> QED BY <3>1
  <2> QED BY <2>1, <2>2
<1>3. Nat \subseteq S
  <2> HIDE DEF S
  <2> QED BY <1>1, <1>2, Induct
<1> QED BY <1>0, <1>3
----------------------------------------------------------------------------
(***************************************************************************)
(* Sums over a finite set, by any order of its elements.                   *)
(***************************************************************************)
Pick(T) == CHOOSE x \in T : TRUE

Recurs(f, D, g) ==
    g = [T \in SUBSET D |-> IF T = {} THEN 0 ELSE f[Pick(T)] + g[T \ {Pick(T)}]]

Sums(f, D) == CHOOSE g : Recurs(f, D, g)

\* The element picked from a nonempty set is in it.
LEMMA PickIn == ASSUME NEW T, T # {} PROVE Pick(T) \in T
BY DEF Pick

\* The recursion over the subsets of a finite set has a solution, so that Sums is one.
LEMMA SumsExist ==
    ASSUME NEW D, IsFiniteSet(D), NEW f
    PROVE  Recurs(f, D, Sums(f, D))
<1> DEFINE Small(n) == {T \in SUBSET D : Cardinality(T) <= n}
           Good(n, g) == g = [T \in Small(n) |-> IF T = {} THEN 0 ELSE f[Pick(T)] + g[T \ {Pick(T)}]]
           S == {n \in Nat : \E g : Good(n, g)}
<1>0. \A T \in SUBSET D : IsFiniteSet(T) /\ Cardinality(T) \in Nat
  BY FS_Subset, FS_CardinalityType
<1>1. 0 \in S
  <2> DEFINE g == [T \in Small(0) |-> 0]
  <2>1. \A T \in Small(0) : T = {}
    BY <1>0, FS_EmptySet
  <2>2. Good(0, g)
    BY <2>1
  <2> QED BY <2>2
<1>2. \A n \in Nat : n \in S => n + 1 \in S
  <2> SUFFICES ASSUME NEW n \in Nat, n \in S PROVE n + 1 \in S
    OBVIOUS
  <2>0. PICK g : Good(n, g)
    BY Zenon
  <2> DEFINE h == [T \in Small(n + 1) |-> IF T = {} THEN 0 ELSE f[Pick(T)] + g[T \ {Pick(T)}]]
  <2>1. ASSUME NEW T \in Small(n + 1), T # {}
        PROVE  h[T \ {Pick(T)}] = g[T \ {Pick(T)}]
    <3>1. Cardinality(T \ {Pick(T)}) = Cardinality(T) - 1
      BY <1>0, <2>1, PickIn, FS_RemoveElement
    <3>2. T \ {Pick(T)} \in Small(n) /\ T \ {Pick(T)} \in Small(n + 1)
      BY <1>0, <3>1
    <3> QED BY <2>0, <3>2
  <2>2. h = [T \in Small(n + 1) |-> IF T = {} THEN 0 ELSE f[Pick(T)] + h[T \ {Pick(T)}]]
    BY <2>1
  <2>3. Good(n + 1, h)
    BY <2>2, Zenon
  <2> HIDE DEF Good
  <2> QED BY <2>3
<1>3. Nat \subseteq S
  <2> HIDE DEF S
  <2> QED BY <1>1, <1>2, Induct
<1>4. Cardinality(D) \in Nat /\ Small(Cardinality(D)) = SUBSET D
  BY <1>0, FS_Subset
<1>5. PICK g : Good(Cardinality(D), g)
  BY <1>3, <1>4
<1>6. Recurs(f, D, g)
  BY <1>4, <1>5 DEF Recurs
<1> QED BY <1>6 DEF Sums

\* What Sums is on a subset.
LEMMA SumsRec ==
    ASSUME NEW D, IsFiniteSet(D), NEW f, NEW T \in SUBSET D
    PROVE  Sums(f, D)[T] = IF T = {} THEN 0 ELSE f[Pick(T)] + Sums(f, D)[T \ {Pick(T)}]
<1>1. Recurs(f, D, Sums(f, D))
  BY SumsExist
<1> QED BY <1>1 DEF Recurs

LEMMA SumsEmpty == ASSUME NEW D, IsFiniteSet(D), NEW f PROVE Sums(f, D)[{}] = 0
<1>1. {} \in SUBSET D
  OBVIOUS
<1> QED BY <1>1, SumsRec, Zenon

LEMMA SumsStep ==
    ASSUME NEW D, IsFiniteSet(D), NEW f, NEW T \in SUBSET D, T # {}
    PROVE  Sums(f, D)[T] = f[Pick(T)] + Sums(f, D)[T \ {Pick(T)}]
BY SumsRec, Zenon

\* Sums of integers are integers.
LEMMA SumsInt ==
    ASSUME NEW D, IsFiniteSet(D), NEW f \in [D -> Int]
    PROVE  \A T \in SUBSET D : Sums(f, D)[T] \in Int
<1> DEFINE P == {T \in SUBSET D : Sums(f, D)[T] \in Int}
<1>1. {} \in P
  BY SumsEmpty
<1>2. ASSUME NEW T \in SUBSET D, T # {}, \A x \in T : T \ {x} \in P
      PROVE  T \in P
  <2>1. Pick(T) \in T /\ Pick(T) \in D
    BY <1>2, PickIn
  <2>2. Sums(f, D)[T] = f[Pick(T)] + Sums(f, D)[T \ {Pick(T)}]
    BY <1>2, SumsStep
  <2>3. f[Pick(T)] \in Int /\ Sums(f, D)[T \ {Pick(T)}] \in Int
    BY <1>2, <2>1
  <2> QED BY <2>2, <2>3
<1>3. SUBSET D \subseteq P
  <2> HIDE DEF P
  <2> QED BY <1>1, <1>2, SubsetInduct
<1> QED BY <1>3

\* Any element may be taken first.
LEMMA SumsTake ==
    ASSUME NEW D, IsFiniteSet(D), NEW f \in [D -> Int]
    PROVE  \A T \in SUBSET D : \A x \in T : Sums(f, D)[T] = f[x] + Sums(f, D)[T \ {x}]
<1> DEFINE s == Sums(f, D)
           P == {T \in SUBSET D : \A x \in T : s[T] = f[x] + s[T \ {x}]}
<1>1. {} \in P
  OBVIOUS
<1>2. ASSUME NEW T \in SUBSET D, T # {}, \A x \in T : T \ {x} \in P
      PROVE  T \in P
  <2> SUFFICES ASSUME NEW x \in T PROVE s[T] = f[x] + s[T \ {x}]
    OBVIOUS
  <2> DEFINE c == Pick(T)
  <2>1. c \in T /\ s[T] = f[c] + s[T \ {c}]
    BY <1>2, PickIn, SumsStep
  <2> HIDE DEF c
  <2>2. CASE x = c
    BY <2>1, <2>2
  <2>3. CASE x # c
    <3>1. (T \ {c}) \ {x} = (T \ {x}) \ {c}
      OBVIOUS
    <3>2. s[T \ {c}] = f[x] + s[(T \ {x}) \ {c}]
      <4>1. T \ {c} \in P /\ x \in T \ {c}
        BY <1>2, <2>1, <2>3
      <4> QED BY <4>1, <3>1
    <3>3. s[T \ {x}] = f[c] + s[(T \ {x}) \ {c}]
      <4>1. T \ {x} \in P /\ c \in T \ {x}
        BY <1>2, <2>1, <2>3
      <4> QED BY <4>1
    <3>4. f[x] \in Int /\ f[c] \in Int /\ s[(T \ {x}) \ {c}] \in Int
      <4>1. x \in D /\ c \in D /\ (T \ {x}) \ {c} \in SUBSET D
        BY <2>1
      <4> QED BY <4>1, SumsInt
    <3> DEFINE a == s[T]
               b == s[T \ {c}]
               d == s[T \ {x}]
               e == s[(T \ {x}) \ {c}]
               fx == f[x]
               fc == f[c]
    <3>5. a = fc + b /\ b = fx + e /\ d = fc + e /\ fx \in Int /\ fc \in Int /\ e \in Int
      BY <2>1, <3>2, <3>3, <3>4
    <3>6. a = fx + d
      <4> HIDE DEF a, b, d, e, fx, fc
      <4> QED BY <3>5
    <3> QED BY <3>6
  <2> QED BY <2>2, <2>3
<1>3. SUBSET D \subseteq P
  <2> HIDE DEF P
  <2> QED BY <1>1, <1>2, SubsetInduct
<1> QED BY <1>3

\* A sum depends on its terms alone.
LEMMA SumsSame ==
    ASSUME NEW D, IsFiniteSet(D), NEW f, NEW g
    PROVE  \A T \in SUBSET D : (\A x \in T : f[x] = g[x]) => Sums(f, D)[T] = Sums(g, D)[T]
<1> DEFINE P == {T \in SUBSET D : (\A x \in T : f[x] = g[x]) => Sums(f, D)[T] = Sums(g, D)[T]}
<1>1. {} \in P
  BY SumsEmpty
<1>2. ASSUME NEW T \in SUBSET D, T # {}, \A x \in T : T \ {x} \in P
      PROVE  T \in P
  <2> SUFFICES ASSUME \A x \in T : f[x] = g[x] PROVE Sums(f, D)[T] = Sums(g, D)[T]
    OBVIOUS
  <2>1. T # {} /\ Pick(T) \in T
    BY <1>2, PickIn
  <2>2. Sums(f, D)[T] = f[Pick(T)] + Sums(f, D)[T \ {Pick(T)}]
    BY <2>1, SumsStep, Zenon
  <2>3. Sums(g, D)[T] = g[Pick(T)] + Sums(g, D)[T \ {Pick(T)}]
    BY <2>1, SumsStep, Zenon
  <2>4. Sums(f, D)[T \ {Pick(T)}] = Sums(g, D)[T \ {Pick(T)}]
    BY <1>2, <2>1
  <2> QED BY <2>1, <2>2, <2>3, <2>4
<1>3. SUBSET D \subseteq P
  <2> HIDE DEF P
  <2> QED BY <1>1, <1>2, SubsetInduct
<1> QED BY <1>3

\* The library's SumFunction, unfolded, is Sums on the whole domain.
LEMMA SumFunctionIs == \A f : SumFunction(f) = Sums(f, DOMAIN f)[DOMAIN f]
BY DEF SumFunction, SumFunctionOnSet, FoldFunctionOnSet, MapThenFoldSet, Sums, Recurs, Pick

\* Zeros sum to zero.
LEMMA SumZero ==
    ASSUME NEW D, IsFiniteSet(D)
    PROVE  SumFunction([v \in D |-> 0]) = 0
<1> DEFINE f == [v \in D |-> 0]
           P == {T \in SUBSET D : Sums(f, D)[T] = 0}
<1>1. {} \in P
  BY SumsEmpty
<1>2. ASSUME NEW T \in SUBSET D, T # {}, \A x \in T : T \ {x} \in P
      PROVE  T \in P
  <2>1. Pick(T) \in T
    BY <1>2, PickIn
  <2>2. Sums(f, D)[T] = f[Pick(T)] + Sums(f, D)[T \ {Pick(T)}]
    BY <1>2, SumsStep
  <2>3. f[Pick(T)] = 0 /\ Sums(f, D)[T \ {Pick(T)}] = 0
    BY <1>2, <2>1
  <2> QED BY <2>2, <2>3
<1>3. SUBSET D \subseteq P
  <2> HIDE DEF P
  <2> QED BY <1>1, <1>2, SubsetInduct
<1> QED BY <1>3, SumFunctionIs

\* A sum changes by what one of its terms changes by.
LEMMA SumPoint ==
    ASSUME NEW D, IsFiniteSet(D), NEW f \in [D -> Int], NEW g \in [D -> Int], NEW v \in D,
           \A u \in D : u # v => g[u] = f[u]
    PROVE  SumFunction(f) \in Int /\ SumFunction(g) = SumFunction(f) + (g[v] - f[v])
<1> DEFINE sf == Sums(f, D)
           sg == Sums(g, D)
<1>1. D \in SUBSET D /\ D \ {v} \in SUBSET D
  OBVIOUS
<1>2. sf[D] = f[v] + sf[D \ {v}]
  <2>1. \A T \in SUBSET D : \A x \in T : sf[T] = f[x] + sf[T \ {x}]
    BY SumsTake
  <2> HIDE DEF sf
  <2> QED BY <1>1, <2>1
<1>3. sg[D] = g[v] + sg[D \ {v}]
  <2>1. \A T \in SUBSET D : \A x \in T : sg[T] = g[x] + sg[T \ {x}]
    BY SumsTake
  <2> HIDE DEF sg
  <2> QED BY <1>1, <2>1
<1>4. sf[D \ {v}] = sg[D \ {v}]
  BY SumsSame
<1>5. sf[D] \in Int /\ sf[D \ {v}] \in Int /\ f[v] \in Int /\ g[v] \in Int
  BY SumsInt
<1>6. SumFunction(f) = sf[D] /\ SumFunction(g) = sg[D]
  BY SumFunctionIs
<1> HIDE DEF sf, sg
<1> QED BY <1>2, <1>3, <1>4, <1>5, <1>6
----------------------------------------------------------------------------
(***************************************************************************)
(* The slots as voices.  The slots below n that play voice v are counted,  *)
(* the counts weighted and summed: one more slot adds its voice's weight.  *)
(***************************************************************************)
Voice == UNION {{s} \X (0 .. Len(Pcm[s]) - 1) : s \in Sound}

Plays(i, v) == soundBites[i] = [pSound |-> v[1], location |-> v[2]]

Below(n, v) == Cardinality({i \in 0 .. n - 1 : Plays(i, v)})

Weighted(n, w) == [v \in Voice |-> Below(n, v) * w[v]]

VoiceOf(i) == <<soundBites[i].pSound, soundBites[i].location>>

Term(i, w) == IF i \in Occupied THEN w[VoiceOf(i)] ELSE 0

\* A voice is a sound and a position inside its samples.
LEMMA VoiceIs ==
    /\ \A s \in Sound : Len(Pcm[s]) \in Nat /\ Len(Pcm[s]) > 0
    /\ \A v \in Voice : v = <<v[1], v[2]>> /\ v[1] \in Sound /\ v[2] \in 0 .. Len(Pcm[v[1]]) - 1
    /\ \A s \in Sound : \A p \in 0 .. Len(Pcm[s]) - 1 : <<s, p>> \in Voice
<1>1. \A s \in Sound : Len(Pcm[s]) \in Nat /\ Len(Pcm[s]) > 0
  BY SamplesAssumption
<1>2. ASSUME NEW v \in Voice
      PROVE  v = <<v[1], v[2]>> /\ v[1] \in Sound /\ v[2] \in 0 .. Len(Pcm[v[1]]) - 1
  <2>1. PICK s \in Sound : v \in {s} \X (0 .. Len(Pcm[s]) - 1)
    BY Zenon DEF Voice
  <2> QED BY <2>1
<1>3. ASSUME NEW s \in Sound, NEW p \in 0 .. Len(Pcm[s]) - 1 PROVE <<s, p>> \in Voice
  <2>1. <<s, p>> \in {s} \X (0 .. Len(Pcm[s]) - 1)
    OBVIOUS
  <2> QED BY <2>1, Zenon DEF Voice
<1> QED BY <1>1, <1>2, <1>3, Zenon

\* There are finitely many voices.
LEMMA VoiceFinite == IsFiniteSet(Voice)
<1> DEFINE Parts == {{s} \X (0 .. Len(Pcm[s]) - 1) : s \in Sound}
<1>1. \A S \in Parts : IsFiniteSet(S)
  <2> SUFFICES ASSUME NEW s \in Sound PROVE IsFiniteSet({s} \X (0 .. Len(Pcm[s]) - 1))
    BY Zenon
  <2>1. IsFiniteSet({s})
    BY FS_Singleton, Zenon
  <2>2. IsFiniteSet(0 .. Len(Pcm[s]) - 1)
    <3>1. 0 \in Int /\ Len(Pcm[s]) - 1 \in Int
      BY VoiceIs
    <3> QED BY <3>1, FS_Interval, Zenon
  <2> QED BY <2>1, <2>2, FS_Product, Zenon
<1>2. IsFiniteSet(Parts)
  <2> DEFINE part == [s \in Sound |-> {s} \X (0 .. Len(Pcm[s]) - 1)]
  <2>1. part \in Surjection(Sound, Parts)
    <3>1. \A s \in Sound : part[s] \in Parts
      OBVIOUS
    <3>2. part \in [Sound -> Parts]
      BY <3>1
    <3>3. \A P \in Parts : \E s \in Sound : part[s] = P
      OBVIOUS
    <3> QED BY <3>2, <3>3, Zenon DEF Surjection
  <2> QED BY <2>1, FS_Surjection, ScanAssumption, Zenon
<1> HIDE DEF Parts
<1>3. IsFiniteSet(UNION Parts)
  BY <1>1, <1>2, FS_UNION, Zenon
<1> QED BY <1>3 DEF Voice, Parts

\* A slot in use plays exactly one voice, a free one none.
LEMMA PlaysIs ==
    ASSUME TypeOK, NEW i \in Slots
    PROVE  /\ i \in Occupied => /\ VoiceOf(i) \in Voice
                                /\ \A v \in Voice : Plays(i, v) <=> v = VoiceOf(i)
           /\ i \notin Occupied => \A v \in Voice : ~Plays(i, v)
<1>1. soundBites[i] \in [pSound : Sound \cup {NULL}, location : Nat]
  BY DEF TypeOK
<1>2. ASSUME i \in Occupied
      PROVE  VoiceOf(i) \in Voice /\ \A v \in Voice : Plays(i, v) <=> v = VoiceOf(i)
  <2>1. soundBites[i].pSound \in Sound /\ soundBites[i].location \in 0 .. Len(Pcm[soundBites[i].pSound]) - 1
    BY <1>1, <1>2, VoiceIs DEF TypeOK, Occupied, numSamples
  <2>2. VoiceOf(i) \in Voice
    BY <2>1, VoiceIs DEF VoiceOf
  <2>3. ASSUME NEW v \in Voice PROVE Plays(i, v) <=> v = VoiceOf(i)
    <3>1. v = <<v[1], v[2]>>
      BY VoiceIs
    <3>2. Plays(i, v) <=> soundBites[i].pSound = v[1] /\ soundBites[i].location = v[2]
      BY <1>1 DEF Plays
    <3> QED BY <3>1, <3>2 DEF VoiceOf
  <2> QED BY <2>2, <2>3
<1>3. ASSUME i \notin Occupied, NEW v \in Voice PROVE ~Plays(i, v)
  <2>1. soundBites[i].pSound = NULL
    BY <1>3 DEF Occupied
  <2>2. v[1] \in Sound
    BY VoiceIs
  <2> QED BY <2>1, <2>2, MixerAssumption DEF Plays
<1> QED BY <1>2, <1>3

\* One more slot is one more for the voice it plays.
LEMMA BelowStep ==
    ASSUME NEW n \in Nat, NEW v
    PROVE  /\ Below(n, v) \in Nat
           /\ Below(n + 1, v) = Below(n, v) + IF Plays(n, v) THEN 1 ELSE 0
           /\ Below(0, v) = 0
<1> DEFINE S(m) == {i \in 0 .. m - 1 : Plays(i, v)}
<1>1. IsFiniteSet(0 .. n - 1)
  BY FS_Interval
<1>2. IsFiniteSet(S(n)) /\ Cardinality(S(n)) \in Nat
  BY <1>1, FS_Subset, FS_CardinalityType
<1>3. S(0) = {} /\ n \notin S(n)
  OBVIOUS
<1>4. S(n + 1) = IF Plays(n, v) THEN S(n) \cup {n} ELSE S(n)
  <2> HIDE DEF Plays
  <2> QED OBVIOUS
<1>5. Below(n, v) = Cardinality(S(n)) /\ Below(n + 1, v) = Cardinality(S(n + 1)) /\ Below(0, v) = Cardinality(S(0))
  BY DEF Below
<1> HIDE DEF S
<1>6. Cardinality(S(n) \cup {n}) = Cardinality(S(n)) + 1
  BY <1>2, <1>3, FS_AddElement
<1> QED BY <1>2, <1>3, <1>4, <1>5, <1>6, FS_EmptySet
LEMMA WeightedInt ==
    ASSUME NEW n \in Nat, NEW w \in [Voice -> Int]
    PROVE  Weighted(n, w) \in [Voice -> Int]
<1>1. ASSUME NEW v \in Voice PROVE Below(n, v) * w[v] \in Int
  <2>1. Below(n, v) \in Nat
    BY BelowStep
  <2>2. w[v] \in Int
    OBVIOUS
  <2> QED BY <2>1, <2>2
<1> QED BY <1>1 DEF Weighted

LEMMA TimesStep ==
    ASSUME NEW a \in Int, NEW b \in Int PROVE (a + 1) * b - a * b = b /\ 0 * b = 0
OBVIOUS

\* One more slot adds its voice's weight to the sum.
LEMMA WeightedStep ==
    ASSUME TypeOK, NEW n \in Slots, NEW w \in [Voice -> Int]
    PROVE  /\ SumFunction(Weighted(n, w)) \in Int
           /\ SumFunction(Weighted(n + 1, w)) = SumFunction(Weighted(n, w)) + Term(n, w)
<1>0. n \in Nat /\ n + 1 \in Nat
  BY SlotsAssumption DEF Slots
<1>1. Weighted(n, w) \in [Voice -> Int] /\ Weighted(n + 1, w) \in [Voice -> Int]
  BY <1>0, WeightedInt
<1>2. IsFiniteSet(Voice)
  BY VoiceFinite
<1>3. \A v \in Voice : /\ Weighted(n, w)[v] = Below(n, v) * w[v]
                       /\ Weighted(n + 1, w)[v] = Below(n + 1, v) * w[v]
  BY DEF Weighted
<1>4. \A v \in Voice : ~Plays(n, v) => Weighted(n + 1, w)[v] = Weighted(n, w)[v]
  <2> SUFFICES ASSUME NEW v \in Voice, ~Plays(n, v)
               PROVE  Weighted(n + 1, w)[v] = Weighted(n, w)[v]
    OBVIOUS
  <2>1. Below(n + 1, v) = Below(n, v)
    BY <1>0, BelowStep
  <2> QED BY <1>3, <2>1
<1>5. CASE n \in Occupied
  <2> DEFINE u == VoiceOf(n)
  <2>1. u \in Voice /\ \A v \in Voice : Plays(n, v) <=> v = u
    BY <1>5, PlaysIs
  <2> HIDE DEF u
  <2>2. SumFunction(Weighted(n, w)) \in Int
        /\ SumFunction(Weighted(n + 1, w))
           = SumFunction(Weighted(n, w)) + (Weighted(n + 1, w)[u] - Weighted(n, w)[u])
    <3>1. \A v \in Voice : v # u => Weighted(n + 1, w)[v] = Weighted(n, w)[v]
      BY <1>4, <2>1
    <3> DEFINE f == Weighted(n, w)
               g == Weighted(n + 1, w)
    <3>2. f \in [Voice -> Int] /\ g \in [Voice -> Int] /\ \A v \in Voice : v # u => g[v] = f[v]
      BY <1>1, <3>1
    <3> HIDE DEF f, g
    <3>3. SumFunction(f) \in Int /\ SumFunction(g) = SumFunction(f) + (g[u] - f[u])
      BY <1>2, <2>1, <3>2, SumPoint
    <3> QED BY <3>3 DEF f, g
  <2>3. Weighted(n + 1, w)[u] - Weighted(n, w)[u] = w[u]
    <3>1. Below(n, u) \in Nat /\ Below(n + 1, u) = Below(n, u) + 1
      BY <1>0, <2>1, BelowStep
    <3>2. w[u] \in Int
      BY <2>1
    <3>3. Weighted(n, w)[u] = Below(n, u) * w[u] /\ Weighted(n + 1, w)[u] = (Below(n, u) + 1) * w[u]
      BY <1>3, <2>1, <3>1
    <3> QED BY <3>1, <3>2, <3>3, TimesStep
  <2>4. Term(n, w) = w[u]
    BY <1>5 DEF Term, u
  <2> QED BY <2>2, <2>3, <2>4
<1>6. CASE n \notin Occupied
  <2>1. \A v \in Voice : Weighted(n + 1, w)[v] = Weighted(n, w)[v]
    BY <1>4, <1>6, PlaysIs
  <2>2. Weighted(n + 1, w) = Weighted(n, w)
    BY <1>1, <2>1
  <2>3. Term(n, w) = 0
    BY <1>6 DEF Term
  <2>4. SumFunction(Weighted(n, w)) \in Int
    <3> DEFINE f == Weighted(n, w)
    <3>1. f \in [Voice -> Int] /\ DOMAIN f = Voice
      BY <1>1
    <3> HIDE DEF f
    <3>2. SumFunction(f) = Sums(f, Voice)[Voice]
      BY <3>1, SumFunctionIs
    <3>3. Voice \in SUBSET Voice
      OBVIOUS
    <3>4. SumFunction(f) \in Int
      BY <1>2, <3>1, <3>2, <3>3, SumsInt
    <3> QED BY <3>4 DEF f
  <2> QED BY <2>2, <2>3, <2>4
<1> QED BY <1>5, <1>6

\* No slots, no sum.
LEMMA WeightedNone ==
    ASSUME NEW w \in [Voice -> Int] PROVE SumFunction(Weighted(0, w)) = 0
<1>1. \A v \in Voice : Below(0, v) * w[v] = 0
  <2> TAKE v \in Voice
  <2>1. Below(0, v) = 0 /\ w[v] \in Int
    BY BelowStep
  <2> QED BY <2>1, TimesStep
<1>2. Weighted(0, w) = [v \in Voice |-> 0]
  BY <1>1 DEF Weighted
<1> QED BY <1>2, SumZero, VoiceFinite

\* The table's slots in use are the abstract voices.
LEMMA CountSum ==
    ASSUME TypeOK
    PROVE  SumFunction([v \in Voice |-> Below(MAX_SOUND_BITES, v)]) = Cardinality(Occupied)
<1> DEFINE one == [v \in Voice |-> 1]
           C(n) == Cardinality({i \in Occupied : i < n})
           S == {n \in Nat : n <= MAX_SOUND_BITES => SumFunction(Weighted(n, one)) = C(n)}
<1>0. one \in [Voice -> Int] /\ IsFiniteSet(Occupied) /\ MAX_SOUND_BITES \in Nat
  <2>1. IsFiniteSet(Slots)
    BY FS_Interval, SlotsAssumption DEF Slots
  <2> QED BY <2>1, FS_Subset, SlotsAssumption DEF Occupied
<1>1. 0 \in S
  <2>1. {i \in Occupied : i < 0} = {}
    BY DEF Occupied, Slots
  <2> QED BY <1>0, <2>1, WeightedNone, FS_EmptySet
<1>2. \A n \in Nat : n \in S => n + 1 \in S
  <2> SUFFICES ASSUME NEW n \in Nat, n \in S, n + 1 <= MAX_SOUND_BITES
               PROVE  SumFunction(Weighted(n + 1, one)) = C(n + 1)
    OBVIOUS
  <2>1. n \in Slots /\ SumFunction(Weighted(n, one)) = C(n)
    BY SlotsAssumption DEF Slots
  <2>2. SumFunction(Weighted(n + 1, one)) = C(n) + Term(n, one)
    BY <1>0, <2>1, WeightedStep
  <2>3. Term(n, one) = IF n \in Occupied THEN 1 ELSE 0
    BY <2>1, PlaysIs DEF Term
  <2> DEFINE T == {i \in Occupied : i < n}
  <2>4. IsFiniteSet(T) /\ n \notin T /\ Cardinality(T) \in Nat
    BY <1>0, FS_Subset, FS_CardinalityType
  <2>5. {i \in Occupied : i < n + 1} = IF n \in Occupied THEN T \cup {n} ELSE T
    BY DEF Occupied, Slots
  <2> HIDE DEF T
  <2>6. Cardinality(T \cup {n}) = Cardinality(T) + 1
    BY <2>4, FS_AddElement
  <2>7. C(n + 1) = C(n) + IF n \in Occupied THEN 1 ELSE 0
    BY <2>4, <2>5, <2>6 DEF T
  <2> HIDE DEF C, S, one
  <2> QED BY <2>2, <2>3, <2>7
<1>3. Nat \subseteq S
  <2> HIDE DEF S
  <2> QED BY <1>1, <1>2, Induct
<1>4. {i \in Occupied : i < MAX_SOUND_BITES} = Occupied
  BY SlotsAssumption DEF Occupied, Slots
<1>5. Weighted(MAX_SOUND_BITES, one) = [v \in Voice |-> Below(MAX_SOUND_BITES, v)]
  <2>1. \A v \in Voice : Below(MAX_SOUND_BITES, v) * 1 = Below(MAX_SOUND_BITES, v)
    BY <1>0, BelowStep
  <2> QED BY <2>1 DEF Weighted
<1> QED BY <1>0, <1>3, <1>4, <1>5
----------------------------------------------------------------------------
(***************************************************************************)
(* Adding with clipNum.  The sum stays a sample; it is exact as long as    *)
(* neither the rises nor the falls alone leave the range; what pushes one  *)
(* way only and leaves it stays within one of that end.                    *)
(***************************************************************************)
Sampled(m, up, down) ==
    /\ m \in SHRT_MIN .. SHRT_MAX /\ up \in Nat /\ down \in Int /\ down <= 0
    /\ up <= SHRT_MAX /\ down >= SHRT_MIN => m = up + down
    /\ up > SHRT_MAX /\ down = 0 => m \in {SHRT_MAX - 1, SHRT_MAX}
    /\ up = 0 /\ down < SHRT_MIN => m \in {SHRT_MIN, SHRT_MIN + 1}

Rise(x) == IF x > 0 THEN x ELSE 0
Fall(x) == IF x < 0 THEN x ELSE 0

\* clipNum gives a sample, on both sides of the range (audiomixer.c:302-307).
LEMMA ClipStays ==
    ASSUME NEW x \in Int
    PROVE  clipNum(x) \in SHRT_MIN .. SHRT_MAX
BY MixerAssumption DEF clipNum, SHRT_MIN

\* One more sample added through clipNum.
LEMMA ClipStep ==
    ASSUME NEW m, NEW up, NEW down, Sampled(m, up, down), NEW x \in SHRT_MIN .. SHRT_MAX
    PROVE  Sampled(clipNum(m + x), up + Rise(x), down + Fall(x))
<1>1. SHRT_MAX \in Nat /\ SHRT_MIN = -SHRT_MAX - 1 /\ SHRT_MIN \in Int
  BY MixerAssumption DEF SHRT_MIN
<1> HIDE DEF SHRT_MIN
<1>2. CASE x >= 0
  BY <1>1, <1>2 DEF Sampled, clipNum, Rise, Fall
<1>3. CASE x < 0
  BY <1>1, <1>3 DEF Sampled, clipNum, Rise, Fall
<1> QED BY <1>1, <1>2, <1>3
----------------------------------------------------------------------------
(***************************************************************************)
(* The scan.  Mix is what its recursion says; no slot in use is left out.  *)
(***************************************************************************)
MixFrom(g, n) ==
    IF n = 0 THEN [k \in Frames |-> 0]
    ELSE IF n - 1 \in Mixed THEN AddSlot(g[n - 1], n - 1)
    ELSE g[n - 1]

\* Mix obeys its recursion up to the last slot.
LEMMA MixIs ==
    \A n \in 0 .. MAX_SOUND_BITES : Mix[n] = MixFrom(Mix, n)
<1> DEFINE Upto(N, g) == g = [n \in 0 .. N |-> MixFrom(g, n)]
           S == {N \in Nat : \E g : Upto(N, g)}
<1>1. 0 \in S
  <2> DEFINE g == [n \in 0 .. 0 |-> [k \in Frames |-> 0]]
  <2>1. \A n \in 0 .. 0 : g[n] = MixFrom(g, n)
    BY DEF MixFrom
  <2>2. Upto(0, g)
    BY <2>1
  <2> QED BY <2>2
<1>2. \A N \in Nat : N \in S => N + 1 \in S
  <2> SUFFICES ASSUME NEW N \in Nat, N \in S PROVE N + 1 \in S
    OBVIOUS
  <2>0. PICK g : Upto(N, g)
    BY Zenon
  <2> DEFINE h == [n \in 0 .. N + 1 |-> MixFrom(g, n)]
  <2>1. \A n \in 0 .. N : h[n] = g[n]
    BY <2>0
  <2>2. ASSUME NEW n \in 0 .. N + 1 PROVE MixFrom(h, n) = MixFrom(g, n)
    <3>1. n # 0 => h[n - 1] = g[n - 1]
      BY <2>1
    <3> HIDE DEF h
    <3> QED BY <3>1 DEF MixFrom
  <2>3. h = [n \in 0 .. N + 1 |-> MixFrom(h, n)]
    BY <2>2, Zenon
  <2>4. Upto(N + 1, h)
    BY <2>3, Zenon
  <2> HIDE DEF Upto
  <2> QED BY <2>4
<1>3. Nat \subseteq S
  <2> HIDE DEF S
  <2> QED BY <1>1, <1>2, Induct
<1>4. PICK g : Upto(MAX_SOUND_BITES, g)
  BY <1>3, SlotsAssumption
<1>5. Mix = CHOOSE f : Upto(MAX_SOUND_BITES, f)
  BY DEF Mix, MixFrom
<1>6. Upto(MAX_SOUND_BITES, Mix)
  BY <1>4, <1>5, Zenon
<1> QED BY <1>6

\* curr_size never ends the scan before a slot in use.
LEMMA AllMixed == Mixed = Occupied
<1> SUFFICES ASSUME NEW i \in Occupied PROVE curr_size(i) < playbackBufferSize
  BY DEF Mixed
<1> DEFINE T == {j \in Occupied : j < i}
           c == Cardinality(T)
<1>1. i \in Nat /\ i <= MAX_SOUND_BITES - 1 /\ T \subseteq 0 .. i - 1
  BY SlotsAssumption DEF Occupied, Slots
<1>2. IsFiniteSet(0 .. i - 1) /\ Cardinality(0 .. i - 1) = i
  <2>1. 0 \in Int /\ i - 1 \in Int
    BY <1>1
  <2>2. Cardinality(0 .. i - 1) = IF 0 > i - 1 THEN 0 ELSE i - 1 - 0 + 1
    BY <2>1, FS_Interval, Zenon
  <2> QED BY <1>1, <2>1, <2>2, FS_Interval
<1>3. c \in Nat /\ c <= MAX_SOUND_BITES - 1
  BY <1>1, <1>2, FS_Subset, FS_CardinalityType, SlotsAssumption
<1> HIDE DEF T, c
<1>4. SAMPLE_SIZE * c <= SAMPLE_SIZE * (MAX_SOUND_BITES - 1)
  <2>1. ASSUME NEW a \in Nat, NEW x \in Nat, NEW y \in Nat, x <= y PROVE a * x <= a * y
    BY <2>1
  <2>2. MAX_SOUND_BITES - 1 \in Nat /\ SAMPLE_SIZE \in Nat
    BY SlotsAssumption, MixerAssumption
  <2> QED BY <1>3, <2>1, <2>2
<1>5. curr_size(i) = SAMPLE_SIZE * c
  BY DEF curr_size, c, T
<1>6. SAMPLE_SIZE * c \in Int /\ SAMPLE_SIZE * (MAX_SOUND_BITES - 1) \in Int /\ playbackBufferSize \in Int
  BY <1>3, SlotsAssumption, MixerAssumption
<1> QED BY <1>4, <1>5, <1>6, ScanAssumption
----------------------------------------------------------------------------
(***************************************************************************)
(* A period's block, frame by frame.                                       *)
(***************************************************************************)
Sample(v, k) == IF v[2] + k < Len(Pcm[v[1]]) THEN Pcm[v[1]][v[2] + k + 1] ELSE 0

RiseOf(k) == [v \in Voice |-> Rise(Sample(v, k))]
FallOf(k) == [v \in Voice |-> Fall(Sample(v, k))]

\* What a voice plays at a frame is a sample, also past its end.
LEMMA SampleIs ==
    ASSUME NEW v \in Voice, NEW k \in Frames
    PROVE  Sample(v, k) \in SHRT_MIN .. SHRT_MAX
<1>1. v[1] \in Sound /\ v[2] \in Nat /\ k \in Nat
  BY VoiceIs DEF Frames
<1>2. Pcm[v[1]] \in Seq(SHRT_MIN .. SHRT_MAX)
  BY <1>1, SamplesAssumption
<1>3. 0 \in SHRT_MIN .. SHRT_MAX
  BY MixerAssumption DEF SHRT_MIN
<1> DEFINE q == Pcm[v[1]]
           j == v[2] + k + 1
<1>4. \A i \in 1 .. Len(q) : q[i] \in SHRT_MIN .. SHRT_MAX
  <2>1. ASSUME NEW R, NEW r \in Seq(R) PROVE \A i \in 1 .. Len(r) : r[i] \in R
    OBVIOUS
  <2> QED BY <1>2, <2>1, Zenon
<1>5. j \in Nat \ {0} /\ Len(q) \in Nat /\ (v[2] + k < Len(q) => j \in 1 .. Len(q))
  BY <1>1, <1>2
<1>6. Sample(v, k) = IF v[2] + k < Len(q) THEN q[j] ELSE 0
  BY DEF Sample
<1> HIDE DEF q, j
<1> QED BY <1>3, <1>4, <1>5, <1>6

\* The inner loop adds at each frame what the slot's voice plays there, 0 past its end.
LEMMA AddSlotIs ==
    ASSUME TypeOK, NEW i \in Occupied, NEW buff \in [Frames -> SHRT_MIN .. SHRT_MAX]
    PROVE  /\ AddSlot(buff, i) \in [Frames -> SHRT_MIN .. SHRT_MAX]
           /\ \A k \in Frames : AddSlot(buff, i)[k] = clipNum(buff[k] + Sample(VoiceOf(i), k))
<1>0. i \in Slots /\ VoiceOf(i) \in Voice
  BY PlaysIs DEF Occupied
<1>1. SHRT_MIN \in Int /\ SHRT_MAX \in Int
  BY MixerAssumption DEF SHRT_MIN
<1>2. ASSUME NEW k \in Frames
      PROVE  /\ AddSlot(buff, i)[k] = clipNum(buff[k] + Sample(VoiceOf(i), k))
             /\ clipNum(buff[k] + Sample(VoiceOf(i), k)) \in SHRT_MIN .. SHRT_MAX
  <2>1. buff[k] \in SHRT_MIN .. SHRT_MAX /\ Sample(VoiceOf(i), k) \in SHRT_MIN .. SHRT_MAX
    BY <1>0, SampleIs
  <2>2. clipNum(buff[k] + 0) = buff[k]
    BY <1>1, <2>1 DEF clipNum
  <2>3. AddSlot(buff, i)[k] = clipNum(buff[k] + Sample(VoiceOf(i), k))
    BY <2>2 DEF AddSlot, Sample, VoiceOf, numSamples
  <2>4. buff[k] + Sample(VoiceOf(i), k) \in Int
    BY <1>1, <2>1
  <2> QED BY <2>3, <2>4, ClipStays
<1>3. AddSlot(buff, i) = [k \in Frames |-> AddSlot(buff, i)[k]]
  BY DEF AddSlot
<1> QED BY <1>2, <1>3

\* The buffer holds samples after any number of slots.
LEMMA MixTyped ==
    ASSUME TypeOK
    PROVE  \A n \in 0 .. MAX_SOUND_BITES : Mix[n] \in [Frames -> SHRT_MIN .. SHRT_MAX]
<1> DEFINE S == {n \in Nat : n <= MAX_SOUND_BITES => Mix[n] \in [Frames -> SHRT_MIN .. SHRT_MAX]}
<1>0. MAX_SOUND_BITES \in Nat /\ 0 \in SHRT_MIN .. SHRT_MAX
  BY SlotsAssumption, MixerAssumption DEF SHRT_MIN
<1>1. 0 \in S
  BY <1>0, MixIs DEF MixFrom
<1>2. \A n \in Nat : n \in S => n + 1 \in S
  <2> SUFFICES ASSUME NEW n \in Nat, n \in S, n + 1 <= MAX_SOUND_BITES
               PROVE  Mix[n + 1] \in [Frames -> SHRT_MIN .. SHRT_MAX]
    OBVIOUS
  <2>1. Mix[n] \in [Frames -> SHRT_MIN .. SHRT_MAX]
    BY <1>0
  <2>2. Mix[n + 1] = IF n \in Mixed THEN AddSlot(Mix[n], n) ELSE Mix[n]
    BY <1>0, MixIs DEF MixFrom
  <2>3. n \in Mixed => n \in Occupied
    BY DEF Mixed
  <2> QED BY <2>1, <2>2, <2>3, AddSlotIs
<1>3. Nat \subseteq S
  <2> HIDE DEF S
  <2> QED BY <1>1, <1>2, Induct
<1> QED BY <1>0, <1>3

\* A frame after the slots below n, against what those slots' voices play.
LEMMA MixSampled ==
    ASSUME TypeOK, NEW k \in Frames
    PROVE  Sampled(Mix[MAX_SOUND_BITES][k],
                   SumFunction(Weighted(MAX_SOUND_BITES, RiseOf(k))),
                   SumFunction(Weighted(MAX_SOUND_BITES, FallOf(k))))
<1> DEFINE U(n) == SumFunction(Weighted(n, RiseOf(k)))
           D(n) == SumFunction(Weighted(n, FallOf(k)))
           S == {n \in Nat : n <= MAX_SOUND_BITES => Sampled(Mix[n][k], U(n), D(n))}
<1>0. MAX_SOUND_BITES \in Nat /\ SHRT_MAX \in Nat /\ SHRT_MIN = -SHRT_MAX - 1
  BY SlotsAssumption, MixerAssumption DEF SHRT_MIN
<1>1. RiseOf(k) \in [Voice -> Int] /\ FallOf(k) \in [Voice -> Int]
  BY <1>0, SampleIs DEF RiseOf, FallOf, Rise, Fall
<1>2. 0 \in S
  <2>1. U(0) = 0 /\ D(0) = 0
    BY <1>1, WeightedNone
  <2>2. Mix[0][k] = 0
    BY <1>0, MixIs DEF MixFrom
  <2> HIDE DEF U, D
  <2> QED BY <1>0, <2>1, <2>2 DEF Sampled
<1>3. \A n \in Nat : n \in S => n + 1 \in S
  <2> SUFFICES ASSUME NEW n \in Nat, n \in S, n + 1 <= MAX_SOUND_BITES
               PROVE  Sampled(Mix[n + 1][k], U(n + 1), D(n + 1))
    OBVIOUS
  <2>1. n \in Slots /\ n \in 0 .. MAX_SOUND_BITES /\ n + 1 \in 0 .. MAX_SOUND_BITES /\ Sampled(Mix[n][k], U(n), D(n))
    BY <1>0 DEF Slots
  <2>2. U(n + 1) = U(n) + Term(n, RiseOf(k)) /\ D(n + 1) = D(n) + Term(n, FallOf(k))
    BY <1>1, <2>1, WeightedStep
  <2>3. Mix[n + 1] = IF n \in Occupied THEN AddSlot(Mix[n], n) ELSE Mix[n]
    BY <2>1, MixIs, AllMixed DEF MixFrom
  <2> DEFINE x == Sample(VoiceOf(n), k)
  <2>4. CASE n \in Occupied
    <3>1. VoiceOf(n) \in Voice
      BY <2>1, <2>4, PlaysIs
    <3>2. x \in SHRT_MIN .. SHRT_MAX
      BY <3>1, SampleIs
    <3>3. Term(n, RiseOf(k)) = Rise(x) /\ Term(n, FallOf(k)) = Fall(x)
      BY <2>4, <3>1 DEF Term, RiseOf, FallOf
    <3>4. Mix[n + 1][k] = clipNum(Mix[n][k] + x)
      BY <2>1, <2>3, <2>4, MixTyped, AddSlotIs
    <3> HIDE DEF U, D, x
    <3> QED BY <2>1, <2>2, <3>2, <3>3, <3>4, ClipStep
  <2>5. CASE n \notin Occupied
    <3>1. U(n + 1) = U(n) + 0 /\ D(n + 1) = D(n) + 0 /\ Mix[n + 1] = Mix[n]
      BY <2>2, <2>3, <2>5 DEF Term
    <3>2. U(n) \in Int /\ D(n) \in Int
      BY <2>1 DEF Sampled
    <3> HIDE DEF U, D
    <3> QED BY <2>1, <3>1, <3>2
  <2> QED BY <2>4, <2>5
<1>4. Nat \subseteq S
  <2> HIDE DEF S
  <2> QED BY <1>2, <1>3, Induct
<1> QED BY <1>0, <1>4
----------------------------------------------------------------------------
(***************************************************************************)
(* The steps.  The type invariant is not inductive alone: that the counter *)
(* stays within the table needs it to be the slots in use (SlotCount), and *)
(* that a queued sound starts inside its samples needs free slots to stand *)
(* at 0 (FreshSlots).                                                      *)
(***************************************************************************)
IInv == TypeOK /\ FreshSlots /\ SlotCount

Bite == [pSound : Sound \cup {NULL}, location : Nat]

\* The slots in use are at most MAX_SOUND_BITES, and all of them only in a full table.
LEMMA OccupiedFinite ==
    /\ IsFiniteSet(Slots) /\ Cardinality(Slots) = MAX_SOUND_BITES
    /\ IsFiniteSet(Occupied) /\ Cardinality(Occupied) \in 0 .. MAX_SOUND_BITES
    /\ Occupied # Slots => Cardinality(Occupied) < MAX_SOUND_BITES
<1>1. 0 \in Int /\ MAX_SOUND_BITES - 1 \in Int /\ MAX_SOUND_BITES \in Nat \ {0}
  BY SlotsAssumption
<1>2. IsFiniteSet(Slots) /\ Cardinality(Slots) = IF 0 > MAX_SOUND_BITES - 1 THEN 0 ELSE MAX_SOUND_BITES - 1 - 0 + 1
  BY <1>1, FS_Interval, Zenon DEF Slots
<1>3. Cardinality(Slots) = MAX_SOUND_BITES
  BY <1>1, <1>2
<1>4. Occupied \subseteq Slots
  BY DEF Occupied
<1>5. IsFiniteSet(Occupied) /\ Cardinality(Occupied) <= MAX_SOUND_BITES
      /\ (Occupied # Slots => Cardinality(Occupied) < MAX_SOUND_BITES)
  BY <1>1, <1>2, <1>3, <1>4, FS_Subset, FS_CardinalityType
<1>6. Cardinality(Occupied) \in Nat
  BY <1>5, FS_CardinalityType
<1> QED BY <1>1, <1>2, <1>3, <1>5, <1>6

\* A slot in use holds a sound and stands inside its samples; others are free.
LEMMA BiteIs ==
    ASSUME IInv, NEW i \in Slots
    PROVE  /\ i \in Occupied => /\ soundBites[i].pSound \in Sound
                                /\ soundBites[i].location \in Nat
                                /\ numSamples(i) \in Nat
                                /\ soundBites[i].location < numSamples(i)
                                /\ soundBites[i] = [pSound |-> soundBites[i].pSound,
                                                    location |-> soundBites[i].location]
           /\ i \notin Occupied => soundBites[i] = FreeBite
<1>1. soundBites[i] \in Bite
  BY DEF IInv, TypeOK, Bite
<1>2. i \notin Occupied => soundBites[i] = FreeBite
  BY DEF IInv, FreshSlots, Occupied
<1>3. ASSUME i \in Occupied
      PROVE  soundBites[i].pSound \in Sound /\ soundBites[i].location < numSamples(i)
  BY <1>1, <1>3 DEF IInv, TypeOK, Occupied, Bite
<1>4. \A s \in Sound : Len(Pcm[s]) \in Nat
  BY VoiceIs
<1> QED BY <1>1, <1>2, <1>3, <1>4 DEF Bite, numSamples

\* What the scan leaves in slot i.
LEMMA FilledSlot ==
    ASSUME IInv, fillPlaybackBuffer, NEW i \in Slots
    PROVE  /\ i \in Ended => i \in Mixed /\ soundBites'[i] = FreeBite
           /\ i \in Mixed \ Ended =>
                /\ soundBites'[i] = [pSound |-> soundBites[i].pSound,
                                     location |-> soundBites[i].location + playbackBufferSize]
                /\ soundBites[i].location + playbackBufferSize < numSamples(i)
           /\ i \notin Mixed => soundBites'[i] = soundBites[i]
           /\ i \in Mixed => (i \in Ended <=> soundBites[i].location + playbackBufferSize >= numSamples(i))
<1>1. soundBites'[i] = IF i \in Ended THEN FreeBite
                       ELSE IF i \in Mixed
                         THEN [pSound |-> soundBites[i].pSound, location |-> NextOffset(i)]
                       ELSE soundBites[i]
  BY DEF fillPlaybackBuffer
<1>2. Ended \subseteq Mixed /\ Mixed \subseteq Occupied
  BY DEF Ended, Mixed
<1>3. ASSUME i \in Mixed
      PROVE  /\ i \in Ended <=> soundBites[i].location + playbackBufferSize >= numSamples(i)
             /\ i \notin Ended => NextOffset(i) = soundBites[i].location + playbackBufferSize
  <2> DEFINE u == soundBites[i].location + playbackBufferSize
             m == numSamples(i)
  <2>1. u \in Nat /\ m \in Nat
    <3>1. i \in Occupied
      BY <1>2, <1>3
    <3>2. soundBites[i].location \in Nat /\ numSamples(i) \in Nat
      BY <3>1, BiteIs
    <3> QED BY <3>2, MixerAssumption
  <2>2. NextOffset(i) = IF m < u THEN m ELSE u
    BY DEF NextOffset
  <2>3. i \in Ended <=> NextOffset(i) >= m
    BY <1>3 DEF Ended
  <2> HIDE DEF u, m
  <2>4. (i \in Ended <=> u >= m) /\ (i \notin Ended => NextOffset(i) = u)
    BY <2>1, <2>2, <2>3
  <2> QED BY <2>4 DEF u, m
<1>4. ASSUME i \in Mixed \ Ended
      PROVE  soundBites[i].location + playbackBufferSize < numSamples(i)
  <2>1. i \in Occupied
    BY <1>2, <1>4
  <2>2. soundBites[i].location \in Nat /\ numSamples(i) \in Nat
    BY <2>1, BiteIs
  <2> QED BY <1>3, <1>4, <2>2, MixerAssumption
<1> QED BY <1>1, <1>2, <1>3, <1>4

\* A fill keeps the invariant and frees exactly the slots whose sound has ended.
LEMMA FillKeeps ==
    ASSUME IInv, fillPlaybackBuffer
    PROVE  IInv' /\ Occupied' = Occupied \ Ended
<1>0. Ended \subseteq Mixed /\ Mixed \subseteq Occupied /\ Occupied \subseteq Slots
  BY DEF Ended, Mixed, Occupied
<1>1. Slots' = Slots /\ FreeBite' = FreeBite /\ FreeBite.pSound = NULL /\ FreeBite \in Bite
  BY DEF Slots, FreeBite, Bite
<1>2. ASSUME NEW i \in Slots
      PROVE  /\ soundBites'[i] \in Bite
             /\ soundBites'[i].pSound # NULL <=> i \in Occupied \ Ended
             /\ soundBites'[i].pSound # NULL => soundBites'[i].location < numSamples(i)'
             /\ soundBites'[i].pSound = NULL => soundBites'[i] = FreeBite
  <2>1. CASE i \in Ended
    BY <1>1, <2>1, FilledSlot
  <2>2. CASE i \in Mixed \ Ended
    <3>1. soundBites[i].pSound \in Sound /\ soundBites[i].location \in Nat
      BY <1>0, <2>2, BiteIs
    <3>2. /\ soundBites'[i] = [pSound |-> soundBites[i].pSound, location |-> soundBites[i].location + playbackBufferSize]
          /\ soundBites[i].location + playbackBufferSize < numSamples(i)
      BY <2>2, FilledSlot
    <3> QED BY <1>0, <2>2, <3>1, <3>2, MixerAssumption DEF Bite, numSamples
  <2>3. CASE i \in Occupied \ Mixed
    <3>1. soundBites'[i] = soundBites[i]
      BY <2>3, FilledSlot
    <3>2. i \in Occupied /\ soundBites[i] \in Bite
      BY <2>3 DEF IInv, TypeOK, Bite
    <3>3. soundBites[i].pSound \in Sound /\ soundBites[i].location < numSamples(i)
      BY <3>2, BiteIs
    <3> QED BY <1>0, <2>3, <3>1, <3>2, <3>3, MixerAssumption DEF numSamples
  <2>4. CASE i \notin Occupied
    <3>1. soundBites'[i] = FreeBite
      BY <1>0, <2>4, BiteIs, FilledSlot
    <3> QED BY <1>1, <2>4, <3>1
  <2> QED BY <1>0, <2>1, <2>2, <2>3, <2>4
<1>3. Occupied' = Occupied \ Ended
  BY <1>0, <1>1, <1>2 DEF Occupied
<1>4. numSoundBites' = Cardinality(Occupied') /\ numSoundBites' \in 0 .. MAX_SOUND_BITES
  <2>1. Cardinality(Occupied \ Ended) = Cardinality(Occupied) - Cardinality(Occupied \cap Ended)
    BY OccupiedFinite, FS_Difference
  <2>2. Occupied \cap Ended = Ended
    BY <1>0
  <2>3. IsFiniteSet(Ended) /\ Cardinality(Ended) \in Nat /\ Cardinality(Ended) <= Cardinality(Occupied)
    BY <1>0, OccupiedFinite, FS_Subset, FS_CardinalityType
  <2>4. numSoundBites' = Cardinality(Occupied) - Cardinality(Ended)
    BY DEF fillPlaybackBuffer, IInv, SlotCount
  <2>5. Cardinality(Occupied') = Cardinality(Occupied) - Cardinality(Ended)
    BY <1>3, <2>1, <2>2, Zenon
  <2>6. Cardinality(Occupied) \in 0 .. MAX_SOUND_BITES
    BY OccupiedFinite
  <2> DEFINE c == Cardinality(Occupied)
             e == Cardinality(Ended)
             o == Cardinality(Occupied')
  <2>7. o = c - e /\ numSoundBites' = c - e /\ c \in 0 .. MAX_SOUND_BITES /\ e \in Nat /\ e <= c
    BY <2>3, <2>4, <2>5, <2>6
  <2> HIDE DEF c, e, o
  <2>8. numSoundBites' = o /\ numSoundBites' \in 0 .. MAX_SOUND_BITES
    BY <2>7, SlotsAssumption
  <2> QED BY <2>8 DEF o
<1>5. playbackBuffer' \in [Frames -> SHRT_MIN .. SHRT_MAX] /\ queued' \in BOOLEAN
  BY MixTyped, SlotsAssumption DEF fillPlaybackBuffer, IInv, TypeOK
<1>6. soundBites' \in [Slots -> Bite]
  BY <1>2 DEF fillPlaybackBuffer
<1>7. TypeOK'
  BY <1>1, <1>2, <1>4, <1>5, <1>6 DEF TypeOK, Occupied, Bite, Frames
<1>8. FreshSlots'
  BY <1>1, <1>2 DEF FreshSlots
<1> QED BY <1>3, <1>4, <1>7, <1>8 DEF IInv, SlotCount

\* Queueing keeps the invariant; the slot it takes starts at position 0.
LEMMA AcceptKeeps ==
    ASSUME IInv, NEW s \in Sound, NEW i \in Slots, QueueAt(i, s), queued' = TRUE, UNCHANGED playbackBuffer
    PROVE  /\ IInv'
           /\ i \notin Occupied
           /\ soundBites' = [soundBites EXCEPT ![i] = [pSound |-> s, location |-> 0]]
<1>0. i \notin Occupied /\ soundBites[i] = FreeBite
  BY BiteIs DEF QueueAt, Occupied
<1>1. soundBites \in [Slots -> Bite]
  BY DEF IInv, TypeOK, Bite
<1>2. soundBites' = [soundBites EXCEPT ![i] = [pSound |-> s, location |-> 0]]
  BY <1>0 DEF QueueAt, FreeBite
<1>3. Slots' = Slots /\ FreeBite' = FreeBite /\ s # NULL
  BY MixerAssumption DEF Slots, FreeBite
<1>4. Occupied' = Occupied \cup {i}
  BY <1>1, <1>2, <1>3 DEF Occupied
<1>5. numSoundBites' = Cardinality(Occupied') /\ numSoundBites' \in 0 .. MAX_SOUND_BITES
  <2>1. Cardinality(Occupied \cup {i}) = Cardinality(Occupied) + 1
    BY <1>0, OccupiedFinite, FS_AddElement
  <2>2. numSoundBites' = Cardinality(Occupied) + 1
    BY DEF QueueAt, IInv, SlotCount
  <2>3. Cardinality(Occupied') = Cardinality(Occupied) + 1
    BY <1>4, <2>1, Zenon
  <2>4. Cardinality(Occupied) \in 0 .. MAX_SOUND_BITES /\ Cardinality(Occupied) < MAX_SOUND_BITES
    BY <1>0, OccupiedFinite
  <2> DEFINE c == Cardinality(Occupied)
             o == Cardinality(Occupied')
  <2>5. o = c + 1 /\ numSoundBites' = c + 1 /\ c \in 0 .. MAX_SOUND_BITES /\ c < MAX_SOUND_BITES
    BY <2>2, <2>3, <2>4
  <2> HIDE DEF c, o
  <2>6. numSoundBites' = o /\ numSoundBites' \in 0 .. MAX_SOUND_BITES
    BY <2>5, SlotsAssumption
  <2> QED BY <2>6 DEF o
<1>6. soundBites' \in [Slots -> Bite]
  BY <1>1, <1>2 DEF Bite
<1>7. \A j \in Occupied' : soundBites'[j].location < numSamples(j)'
  <2> SUFFICES ASSUME NEW j \in Occupied' PROVE soundBites'[j].location < numSamples(j)'
    OBVIOUS
  <2>1. CASE j = i
    BY <1>1, <1>2, <2>1, VoiceIs DEF numSamples
  <2>2. CASE j # i
    <3>1. j \in Occupied /\ soundBites'[j] = soundBites[j]
      BY <1>1, <1>2, <1>4, <2>2 DEF Occupied
    <3> QED BY <3>1 DEF IInv, TypeOK, numSamples
  <2> QED BY <2>1, <2>2
<1>8. TypeOK'
  BY <1>3, <1>5, <1>6, <1>7 DEF TypeOK, Bite, Frames, IInv
<1>9. FreshSlots'
  BY <1>1, <1>2, <1>3 DEF FreshSlots, IInv
<1> QED BY <1>0, <1>2, <1>5, <1>8, <1>9 DEF IInv, SlotCount

\* The table of AudioMixer_init.
LEMMA InitIInv == ASSUME Init PROVE IInv
<1>1. soundBites = [i \in Slots |-> FreeBite] /\ FreeBite \in Bite /\ FreeBite.pSound = NULL
  BY DEF Init, InitBites, FreeBite, Bite
<1>2. Occupied = {}
  BY <1>1 DEF Occupied
<1>3. 0 \in SHRT_MIN .. SHRT_MAX
  BY MixerAssumption DEF SHRT_MIN
<1>4. TypeOK
  BY <1>1, <1>2, <1>3, SlotsAssumption DEF TypeOK, Init, InitBites, Bite
<1> QED BY <1>1, <1>2, <1>4, FS_EmptySet DEF IInv, FreshSlots, SlotCount, Init, InitBites

\* Every step keeps the invariant.
LEMMA StepIInv == ASSUME IInv, [Next]_vars PROVE IInv'
<1>1. CASE fillPlaybackBuffer
  BY <1>1, FillKeeps
<1>2. ASSUME NEW s \in Sound, AudioMixer_queueSound(s) PROVE IInv'
  <2>1. CASE QueueAccepted(s) /\ queued' = TRUE
    BY <1>2, <2>1, AcceptKeeps DEF AudioMixer_queueSound, QueueAccepted
  <2>2. CASE QueueRefused /\ queued' = FALSE
    BY <1>2, <2>2 DEF AudioMixer_queueSound, QueueRefused, bitesVars, IInv, TypeOK, FreshSlots, SlotCount, Occupied,
                      Slots, FreeBite, numSamples, Frames
  <2> QED BY <1>2, <2>1, <2>2 DEF AudioMixer_queueSound
<1>3. CASE UNCHANGED vars
  BY <1>3 DEF vars, bitesVars, IInv, TypeOK, FreshSlots, SlotCount, Occupied, Slots, FreeBite, numSamples, Frames
<1> QED BY <1>1, <1>2, <1>3 DEF Next

(***************************************************************************)
(* The mixer's types, of which the sharp part is a slot's position: below  *)
(* the end of its sound in every slot in use, so that no sound that is     *)
(* over holds a slot for a period more (audiomixer.c:330-335), and every   *)
(* frame of the block is a short, however many sounds were added.          *)
(***************************************************************************)
THEOREM MixerTyped == Spec => []TypeOK
<1>1. IInv /\ [Next]_vars => IInv'
  BY StepIInv
<1>2. IInv => TypeOK
  BY DEF IInv
<1> QED BY InitIInv, <1>1, <1>2, PTL DEF Spec
----------------------------------------------------------------------------
(***************************************************************************)
(* The refinement, step by step.                                           *)
(***************************************************************************)
Voicing == [v \in Voice |-> Below(MAX_SOUND_BITES, v)]

\* The abstract module's sum is this one's.
LEMMA AbstractSum == \A f : Abstract!SumFunction(f) = SumFunction(f)
BY DEF SumFunction, SumFunctionOnSet, FoldFunctionOnSet, MapThenFoldSet,
       Abstract!SumFunction, Abstract!SumFunctionOnSet, Abstract!FoldFunctionOnSet, Abstract!MapThenFoldSet

\* The abstract module's sets and samples are this module's.
LEMMA AbstractNames ==
    /\ Abstract!Voice = Voice
    /\ Abstract!Frames = Frames
    /\ \A v, k : Abstract!Sample(v, k) = Sample(v, k)
    /\ Abstract!VoiceCount = SumFunction(Voicing)
<1>1. Abstract!Voice = Voice /\ Abstract!Frames = Frames /\ \A v, k : Abstract!Sample(v, k) = Sample(v, k)
  BY DEF Abstract!Voice, Voice, Abstract!Frames, Frames, Abstract!Sample, Sample
<1>2. Abstract!VoiceCount = SumFunction(Voicing)
  BY AbstractSum DEF Abstract!VoiceCount, Voicing, Voice, Below, Plays, Slots
<1> QED BY <1>1, <1>2
LEMMA MapInit == ASSUME Init PROVE Abstract!Init
<1>1. soundBites = [i \in Slots |-> FreeBite]
  BY DEF Init, InitBites
<1>2. ASSUME NEW v \in Voice PROVE Below(MAX_SOUND_BITES, v) = 0
  <2>1. \A i \in 0 .. MAX_SOUND_BITES - 1 : ~Plays(i, v)
    <3> SUFFICES ASSUME NEW i \in Slots PROVE ~Plays(i, v)
      BY DEF Slots
    <3>1. v[1] \in Sound
      BY VoiceIs
    <3> QED BY <1>1, <3>1, MixerAssumption DEF Plays, FreeBite
  <2>2. {i \in 0 .. MAX_SOUND_BITES - 1 : Plays(i, v)} = {}
    BY <2>1
  <2> QED BY <2>2, FS_EmptySet, Zenon DEF Below
<1>3. Voicing = [v \in Voice |-> 0]
  BY <1>2 DEF Voicing
<1>4. playbackBuffer = [k \in Frames |-> 0] /\ queued = TRUE
  BY DEF Init
<1> QED BY <1>3, <1>4 DEF Abstract!Init, Abstract!Voice, Abstract!Frames, Voicing, Voice, Below, Plays, Slots, Frames

\* A queued sound is one more voice at its first sample, and there was room.
LEMMA MapAccept ==
    ASSUME IInv, NEW s \in Sound, NEW i \in Slots, QueueAt(i, s), queued' = TRUE, UNCHANGED playbackBuffer
    PROVE  Abstract!Accept(s)
<1>1. i \notin Occupied /\ soundBites' = [soundBites EXCEPT ![i] = [pSound |-> s, location |-> 0]]
  BY AcceptKeeps
<1>2. i \in Nat /\ TypeOK /\ soundBites \in [Slots -> Bite] /\ Slots = 0 .. MAX_SOUND_BITES - 1
  BY SlotsAssumption DEF IInv, TypeOK, Bite, Slots
<1>3. SumFunction(Voicing) = Cardinality(Occupied) /\ Cardinality(Occupied) < MAX_SOUND_BITES
  BY <1>1, <1>2, CountSum, OccupiedFinite DEF Voicing
<1>4. <<s, 0>> \in Voice
  BY VoiceIs
<1> DEFINE Now(v) == {j \in Slots : Plays(j, v)}
           Then(v) == {j \in Slots : soundBites'[j] = [pSound |-> v[1], location |-> v[2]]}
<1>5. ASSUME NEW v \in Voice, v # <<s, 0>> PROVE Then(v) = Now(v)
  <2>1. ~Plays(i, v)
    BY <1>1, <1>2, <1>5, PlaysIs
  <2>2. [pSound |-> s, location |-> 0] # [pSound |-> v[1], location |-> v[2]]
    <3>1. v = <<v[1], v[2]>>
      BY VoiceIs
    <3> QED BY <1>5, <3>1
  <2> QED BY <1>1, <1>2, <2>1, <2>2 DEF Plays
<1>6. Then(<<s, 0>>) = Now(<<s, 0>>) \cup {i}
  BY <1>1, <1>2 DEF Plays
<1>7. i \notin Now(<<s, 0>>)
  BY <1>1, <1>2, <1>4, PlaysIs
<1>8. IsFiniteSet(Now(<<s, 0>>))
  BY OccupiedFinite, FS_Subset
<1>9. Cardinality(Then(<<s, 0>>)) = Cardinality(Now(<<s, 0>>)) + 1
  <2> HIDE DEF Now, Then
  <2> QED BY <1>6, <1>7, <1>8, FS_AddElement
<1>10. \A v : Below(MAX_SOUND_BITES, v) = Cardinality(Now(v)) /\ Below(MAX_SOUND_BITES, v)' = Cardinality(Then(v))
  BY <1>2 DEF Below, Plays
<1>11. \A v \in Voice : Below(MAX_SOUND_BITES, v)' = IF v = <<s, 0>> THEN Below(MAX_SOUND_BITES, v) + 1
                                                                      ELSE Below(MAX_SOUND_BITES, v)
  <2> HIDE DEF Now, Then
  <2> QED BY <1>5, <1>9, <1>10
<1>12. Voice' = Voice
  BY DEF Voice
<1>13. Voicing' = [Voicing EXCEPT ![<<s, 0>>] = @ + 1]
  BY <1>4, <1>11, <1>12 DEF Voicing
<1>14. Abstract!VoiceCount < MAX_SOUND_BITES
  BY <1>3, AbstractNames
<1> QED BY <1>13, <1>14 DEF Abstract!Accept, Voicing, Voice, Below, Plays, Slots

\* A refused sound met as many voices as there may be.
LEMMA MapRefuse ==
    ASSUME IInv, QueueRefused, queued' = FALSE, UNCHANGED playbackBuffer
    PROVE  Abstract!Refuse
<1>1. SumFunction(Voicing) = MAX_SOUND_BITES
  BY CountSum, OccupiedFinite DEF QueueRefused, IInv, Voicing
<1>2. Abstract!VoiceCount = MAX_SOUND_BITES
  BY <1>1, AbstractNames
<1> QED BY <1>2 DEF Abstract!Refuse, QueueRefused, bitesVars, Slots

\* What the abstract voices push up and down at frame k.
LEMMA AbstractSums ==
    ASSUME NEW k \in Frames
    PROVE  /\ Abstract!RisesAt(k) = SumFunction(Weighted(MAX_SOUND_BITES, RiseOf(k)))
           /\ Abstract!FallsAt(k) = SumFunction(Weighted(MAX_SOUND_BITES, FallOf(k)))
<1>1. \A v \in Voice : Below(MAX_SOUND_BITES, v) \in Nat /\ Sample(v, k) \in Int
  BY BelowStep, SampleIs, SlotsAssumption, MixerAssumption DEF SHRT_MIN
<1>2. \A v \in Voice : Below(MAX_SOUND_BITES, v) * 0 = 0
  BY <1>1
<1> DEFINE up == [v \in Voice |-> IF Sample(v, k) > 0 THEN Voicing[v] * Sample(v, k) ELSE 0]
           down == [v \in Voice |-> IF Sample(v, k) < 0 THEN Voicing[v] * Sample(v, k) ELSE 0]
<1>3. up = Weighted(MAX_SOUND_BITES, RiseOf(k)) /\ down = Weighted(MAX_SOUND_BITES, FallOf(k))
  BY <1>2 DEF Weighted, RiseOf, FallOf, Rise, Fall, Voicing
<1>4. Abstract!RisesAt(k) = SumFunction(up) /\ Abstract!FallsAt(k) = SumFunction(down)
  <2> DEFINE map == [v \in UNION {{s} \X (0 .. Len(Pcm[s]) - 1) : s \in Sound} |->
                       Cardinality({i \in Slots : soundBites[i] = [pSound |-> v[1], location |-> v[2]]})]
             aup == [v \in Abstract!Voice |-> IF Abstract!Sample(v, k) > 0 THEN map[v] * Abstract!Sample(v, k) ELSE 0]
             adown == [v \in Abstract!Voice |-> IF Abstract!Sample(v, k) < 0 THEN map[v] * Abstract!Sample(v, k) ELSE 0]
  <2>1. Abstract!RisesAt(k) = Abstract!SumFunction(aup)
    BY Zenon DEF Abstract!RisesAt, Abstract!SumAt
  <2>2. Abstract!FallsAt(k) = Abstract!SumFunction(adown)
    BY Zenon DEF Abstract!FallsAt, Abstract!SumAt
  <2>3. map = Voicing
    BY DEF Voicing, Voice, Below, Plays, Slots
  <2> HIDE DEF map
  <2>4. aup = up /\ adown = down
    BY <2>3, AbstractNames
  <2> HIDE DEF aup, adown, up, down
  <2> QED BY <2>1, <2>2, <2>4, AbstractSum
<1> QED BY <1>3, <1>4

\* A fill moves every voice on by a period, ends those that are through, and plays their sum.
LEMMA MapFill ==
    ASSUME IInv, fillPlaybackBuffer
    PROVE  Abstract!PlayPeriod
<1>0. TypeOK /\ MAX_SOUND_BITES \in 0 .. MAX_SOUND_BITES
  BY SlotsAssumption DEF IInv
<1>1. ASSUME NEW k \in Frames PROVE Abstract!GoodFrame(k, playbackBuffer'[k])
  <2>1. Sampled(playbackBuffer'[k], Abstract!RisesAt(k), Abstract!FallsAt(k))
    BY <1>0, MixSampled, AbstractSums DEF fillPlaybackBuffer
  <2> DEFINE x == playbackBuffer'[k]
             up == Abstract!RisesAt(k)
             down == Abstract!FallsAt(k)
  <2>2. Sampled(x, up, down)
    BY <2>1
  <2> HIDE DEF x, up, down
  <2>3. /\ x \in -SHRT_MAX - 1 .. SHRT_MAX
        /\ up <= SHRT_MAX /\ down >= -SHRT_MAX - 1 => x = up + down
        /\ up > SHRT_MAX /\ down = 0 => x \in {SHRT_MAX - 1, SHRT_MAX}
        /\ up = 0 /\ down < -SHRT_MAX - 1 => x \in {-SHRT_MAX, -SHRT_MAX - 1}
    BY <2>2, MixerAssumption DEF Sampled, SHRT_MIN
  <2> QED BY <2>3, Zenon DEF Abstract!GoodFrame, x, up, down
<1>2. DOMAIN playbackBuffer' = Frames
  BY <1>0, MixTyped DEF fillPlaybackBuffer
<1> DEFINE Now(v) == {i \in Slots : Plays(i, v)}
           Then(v) == {i \in Slots : soundBites'[i] = [pSound |-> v[1], location |-> v[2]]}
           Before(v) == <<v[1], v[2] - playbackBufferSize>>
<1>3. \A v : Below(MAX_SOUND_BITES, v) = Cardinality(Now(v)) /\ Below(MAX_SOUND_BITES, v)' = Cardinality(Then(v))
  BY DEF Below, Plays, Slots
<1>4. ASSUME NEW v \in Voice, NEW i \in Slots
      PROVE  soundBites'[i] = [pSound |-> v[1], location |-> v[2]]
             <=> v[2] >= playbackBufferSize /\ Plays(i, Before(v))
  <2>1. v[1] \in Sound /\ v[1] # NULL /\ v[2] \in Nat /\ v[2] < Len(Pcm[v[1]]) /\ playbackBufferSize \in Nat \ {0}
    BY VoiceIs, MixerAssumption
  <2>2. Plays(i, Before(v)) <=> soundBites[i] = [pSound |-> v[1], location |-> v[2] - playbackBufferSize]
    BY DEF Plays
  <2>3. CASE i \notin Occupied
    <3>1. soundBites[i] = FreeBite /\ soundBites'[i] = FreeBite
      BY <2>3, BiteIs, FilledSlot DEF Mixed
    <3> QED BY <2>1, <2>2, <3>1 DEF FreeBite
  <2>4. CASE i \in Occupied
    <3> DEFINE p == soundBites[i].pSound
               x == soundBites[i].location
    <3>1. p \in Sound /\ x \in Nat /\ soundBites[i] = [pSound |-> p, location |-> x] /\ i \in Mixed
      BY <2>4, BiteIs, AllMixed
    <3>2. i \in Ended <=> x + playbackBufferSize >= Len(Pcm[p])
      BY <3>1, FilledSlot DEF numSamples
    <3>3. /\ i \in Ended => soundBites'[i] = FreeBite
          /\ i \notin Ended => soundBites'[i] = [pSound |-> p, location |-> x + playbackBufferSize]
      BY <3>1, FilledSlot
    <3> HIDE DEF p, x
    <3>4. CASE i \in Ended
      <4>1. soundBites'[i] # [pSound |-> v[1], location |-> v[2]]
        BY <2>1, <3>3, <3>4 DEF FreeBite
      <4>2. v[2] >= playbackBufferSize => ~Plays(i, Before(v))
        <5> SUFFICES ASSUME v[2] >= playbackBufferSize, Plays(i, Before(v)) PROVE FALSE
          OBVIOUS
        <5>1. p = v[1] /\ x = v[2] - playbackBufferSize
          BY <2>2, <3>1
        <5> QED BY <2>1, <3>2, <3>4, <5>1
      <4> QED BY <4>1, <4>2
    <3>5. CASE i \notin Ended
      BY <2>1, <2>2, <3>1, <3>3, <3>5
    <3> QED BY <3>4, <3>5
  <2> QED BY <2>3, <2>4
<1>5. ASSUME NEW v \in Voice
      PROVE  /\ v[2] >= playbackBufferSize => Then(v) = Now(Before(v)) /\ Before(v) \in Voice
             /\ ~(v[2] >= playbackBufferSize) => Then(v) = {}
  <2>1. v[2] >= playbackBufferSize => Before(v) \in Voice
    BY VoiceIs, MixerAssumption
  <2> HIDE DEF Before
  <2>2. v[2] >= playbackBufferSize => Then(v) = Now(Before(v))
    BY <1>4
  <2>3. ~(v[2] >= playbackBufferSize) => Then(v) = {}
    BY <1>4
  <2> QED BY <2>1, <2>2, <2>3
<1>6. \A v \in Voice : Below(MAX_SOUND_BITES, v)' = IF v[2] >= playbackBufferSize THEN Voicing[Before(v)] ELSE 0
  <2> TAKE v \in Voice
  <2> HIDE DEF Now, Then, Before
  <2>1. CASE v[2] >= playbackBufferSize
    BY <1>3, <1>5, <2>1 DEF Voicing
  <2>2. CASE ~(v[2] >= playbackBufferSize)
    BY <1>3, <1>5, <2>2, FS_EmptySet
  <2> QED BY <2>1, <2>2
<1>7. Voicing' = [v \in Voice |-> IF v[2] >= playbackBufferSize THEN Voicing[Before(v)] ELSE 0]
  BY <1>6 DEF Voicing, Voice
<1>8. queued' = queued
  BY DEF fillPlaybackBuffer
<1> QED BY <1>1, <1>2, <1>7, <1>8 DEF Abstract!PlayPeriod, Abstract!Voice, Abstract!Frames, Frames, Voicing, Voice,
                                     Below, Plays, Slots

\* Every step is an abstract step or changes nothing there.
LEMMA MapStep == ASSUME IInv, [Next]_vars PROVE [Abstract!Next]_(Abstract!voicesVars)
<1>1. CASE fillPlaybackBuffer
  BY <1>1, MapFill DEF Abstract!Next
<1>2. ASSUME NEW s \in Sound, AudioMixer_queueSound(s) PROVE Abstract!Next
  <2>1. CASE QueueAccepted(s) /\ queued' = TRUE
    BY <1>2, <2>1, MapAccept DEF AudioMixer_queueSound, QueueAccepted, Abstract!Next
  <2>2. CASE QueueRefused /\ queued' = FALSE
    BY <1>2, <2>2, MapRefuse DEF AudioMixer_queueSound, Abstract!Next
  <2> QED BY <1>2, <2>1, <2>2 DEF AudioMixer_queueSound
<1>3. CASE UNCHANGED vars
  BY <1>3 DEF vars, bitesVars, Abstract!voicesVars, Slots
<1> QED BY <1>1, <1>2, <1>3 DEF Next

(***************************************************************************)
(* The mixer implements the abstract one: a sound accepted plays every     *)
(* sample once, a period after a period, from the first to the last; a     *)
(* request is refused exactly when MAX_SOUND_BITES sounds play; and each   *)
(* frame of a block is the saturated sum of what its voices play           *)
(* (audiomixer.c:169-185, 302-346), in whatever slots they landed.         *)
(***************************************************************************)
THEOREM MixerPlaysVoices == Spec => VoicesSpec
<1>1. IInv /\ [Next]_vars => IInv'
  BY StepIInv
<1>2. Init => Abstract!Init
  BY MapInit
<1>3. IInv /\ [Next]_vars => [Abstract!Next]_(Abstract!voicesVars)
  BY MapStep
<1> QED BY InitIInv, <1>1, <1>2, <1>3, PTL DEF Spec, VoicesSpec, Abstract!Spec
----------------------------------------------------------------------------
(***************************************************************************)
(* The settings of the mixer for any limits and any step: what holds of    *)
(* two threads that change them at once, and the two races that are all    *)
(* that can go wrong.                                                      *)
(***************************************************************************)
\* What a call in progress carries in its local.
CallArgs ==
    \A t \in Threads :
        /\ pc[t] = "card" => arg[t] \in 0 .. HardwareMax
        /\ pc[t] = "store" => arg[t] \in 1 .. ModeBound

SettingsIInv == SettingsTypeOK /\ SettingsInRange /\ CallArgs

\* A volume within its limit gives a level within the card's.
LEMMA LevelInRange ==
    ASSUME NEW v \in 0 .. AUDIOMIXER_MAX_VOLUME
    PROVE  HardwareLevel(v) \in 0 .. HardwareMax
<1> DEFINE M == AUDIOMIXER_MAX_VOLUME
           H == HardwareMax
<1>1. M \in Nat \ {0} /\ H \in Nat /\ v \in 0 .. M
  BY SettingsAssumption
<1>2. v * H \in Nat /\ v * H <= M * H
  BY <1>1
<1>3. (v * H) \div M \in Nat /\ (v * H) \div M <= H
  BY <1>1, <1>2
<1> QED BY <1>1, <1>3 DEF HardwareLevel

(***************************************************************************)
(* No interleaving takes volume, tempo or the card out of its range.       *)
(***************************************************************************)
LEMMA SettingsInductive == SettingsSpec => []SettingsIInv
<1> USE SettingsAssumption
<1>1. InitSettings => SettingsIInv
  BY LevelInRange DEF InitSettings, SettingsIInv, SettingsTypeOK, SettingsInRange, CallArgs, Places
<1>2. SettingsIInv /\ [NextSettings]_settingsVars => SettingsIInv'
  <2> SUFFICES ASSUME SettingsIInv, [NextSettings]_settingsVars PROVE SettingsIInv'
    OBVIOUS
  <2> USE DEF SettingsIInv, SettingsTypeOK, SettingsInRange, CallArgs, Places, Go, Local, Modes
  <2>1. ASSUME NEW t \in Threads, ChangeVolume(t) PROVE SettingsIInv'
    BY <2>1 DEF ChangeVolume
  <2>2. ASSUME NEW t \in Threads, SetVolume(t) PROVE SettingsIInv'
    BY <2>2 DEF SetVolume
  <2>3. ASSUME NEW t \in Threads, ScaleVolume(t) PROVE SettingsIInv'
    BY <2>3, LevelInRange DEF ScaleVolume
  <2>4. ASSUME NEW t \in Threads, WriteCard(t) PROVE SettingsIInv'
    BY <2>4 DEF WriteCard
  <2>5. ASSUME NEW t \in Threads, ChangeTempo(t) PROVE SettingsIInv'
    BY <2>5 DEF ChangeTempo
  <2>6. ASSUME NEW t \in Threads, SetTempo(t) PROVE SettingsIInv'
    BY <2>6 DEF SetTempo
  <2>7. ASSUME "udp" \in Threads, SetMode PROVE SettingsIInv'
    BY <2>7 DEF SetMode
  <2>8. ASSUME "joystick" \in Threads, CycleTest PROVE SettingsIInv'
    BY <2>8 DEF CycleTest
  <2>9. ASSUME "joystick" \in Threads, CycleWrap PROVE SettingsIInv'
    BY <2>9 DEF CycleWrap
  <2>10. ASSUME "joystick" \in Threads, CycleLoad PROVE SettingsIInv'
    BY <2>10 DEF CycleLoad
  <2>11. ASSUME "joystick" \in Threads, CycleStore PROVE SettingsIInv'
    BY <2>11 DEF CycleStore
  <2>12. CASE UNCHANGED settingsVars
    BY <2>12 DEF settingsVars
  <2> QED
    BY <2>1, <2>2, <2>3, <2>4, <2>5, <2>6, <2>7, <2>8, <2>9, <2>10, <2>11, <2>12
    DEF NextSettings, ThreadStep
<1> QED BY <1>1, <1>2, PTL DEF SettingsSpec

THEOREM SettingsTyped == SettingsSpec => []SettingsTypeOK
<1>1. SettingsIInv => SettingsTypeOK
  BY DEF SettingsIInv
<1> QED BY <1>1, SettingsInductive, PTL

THEOREM RangesHold == SettingsSpec => []SettingsInRange
<1>1. SettingsIInv => SettingsInRange
  BY DEF SettingsIInv
<1> QED BY <1>1, SettingsInductive, PTL
----------------------------------------------------------------------------
(***************************************************************************)
(* What a call in progress carries, unless the one step has fallen into it *)
(* that makes it go wrong: a cycle that will load a mode below CUSTOM, or  *)
(* store one of the three; a level that is the one of the cached volume.   *)
(***************************************************************************)
ModeArgs ==
    /\ currentMode \in Modes
    /\ \A t \in Threads : pc[t] = "load" => currentMode # 3
    /\ \A t \in Threads : pc[t] = "store" => arg[t] \in Modes

CardArgs ==
    /\ (\A t \in Threads : pc[t] \notin {"scale", "card"}) => hardware = HardwareLevel(volume)
    /\ \A t \in Threads : pc[t] = "card" => arg[t] = HardwareLevel(volume)

\* Only the joystick cycles, so one cycle is in progress at most.
OneCycle == \A t \in Threads : pc[t] \in {"wrap", "load", "store"} => t = "joystick"

RacesInv == OneCycle /\ (~modeRaced => ModeArgs) /\ (~cardRaced => CardArgs)

LEMMA RacesStep ==
    ASSUME SettingsTypeOK, RacesInv, NEW t \in Threads, ThreadStep(t)
    PROVE  RacesInv'
<1> USE DEF SettingsTypeOK, RacesInv, OneCycle, ModeArgs, CardArgs, Places, Go, Local, Modes, races
<1>1. CASE ChangeVolume(t)
  BY <1>1 DEF ChangeVolume
<1>2. CASE SetVolume(t)
  <2>1. CASE arg[t] \in 0 .. AUDIOMIXER_MAX_VOLUME
    <3>1. /\ pc' = [pc EXCEPT ![t] = "scale"] /\ cardRaced' = AnotherAtCard(t)
          /\ UNCHANGED <<currentMode, modeRaced, arg>>
      BY <1>2, <2>1 DEF SetVolume
    <3>2. OneCycle' /\ (~modeRaced' => ModeArgs')
      BY <3>1
    <3>3. ~cardRaced' => \A u \in Threads : pc'[u] # "card"
      BY <3>1 DEF AnotherAtCard
    <3>4. pc'[t] = "scale"
      BY <3>1
    <3> QED BY <3>2, <3>3, <3>4
  <2>2. CASE arg[t] \notin 0 .. AUDIOMIXER_MAX_VOLUME
    BY <1>2, <2>2 DEF SetVolume
  <2> QED BY <2>1, <2>2
<1>3. CASE ScaleVolume(t)
  BY <1>3 DEF ScaleVolume
<1>4. CASE WriteCard(t)
  BY <1>4 DEF WriteCard
<1>5. CASE ChangeTempo(t)
  BY <1>5 DEF ChangeTempo
<1>6. CASE SetTempo(t)
  BY <1>6 DEF SetTempo
<1>7. CASE t = "udp" /\ SetMode
  BY <1>7 DEF SetMode, Cycling
<1>8. CASE t = "joystick" /\ CycleTest
  BY <1>8 DEF CycleTest
<1>9. CASE t = "joystick" /\ CycleWrap
  BY <1>9 DEF CycleWrap
<1>10. CASE t = "joystick" /\ CycleLoad
  BY <1>10 DEF CycleLoad
<1>11. CASE t = "joystick" /\ CycleStore
  BY <1>11 DEF CycleStore
<1> QED
  BY <1>1, <1>2, <1>3, <1>4, <1>5, <1>6, <1>7, <1>8, <1>9, <1>10, <1>11 DEF ThreadStep

LEMMA RacesInductive == SettingsSpec => []RacesInv
<1>1. InitSettings => RacesInv
  BY DEF InitSettings, RacesInv, OneCycle, ModeArgs, CardArgs, Modes
<1>2. SettingsTypeOK /\ RacesInv /\ [NextSettings]_settingsVars => RacesInv'
  <2> SUFFICES ASSUME SettingsTypeOK, RacesInv, [NextSettings]_settingsVars PROVE RacesInv'
    OBVIOUS
  <2>1. CASE UNCHANGED settingsVars
    BY <2>1 DEF settingsVars, races, RacesInv, OneCycle, ModeArgs, CardArgs
  <2>2. CASE NextSettings
    BY <2>2, RacesStep DEF NextSettings
  <2> QED BY <2>1, <2>2
<1> QED BY <1>1, <1>2, SettingsTyped, PTL DEF SettingsSpec

(***************************************************************************)
(* Of all the ways in which the page's modes can fall into cycleNextMode   *)
(* only CUSTOM between its test and its load takes the mode out of the     *)
(* three, and the next mode set outside of a cycle brings it back.         *)
(***************************************************************************)
THEOREM ModeHolds == SettingsSpec => []ModeUnlessRaced
<1>1. RacesInv => ModeUnlessRaced
  BY DEF RacesInv, ModeArgs, ModeUnlessRaced
<1> QED BY <1>1, RacesInductive, PTL

(***************************************************************************)
(* However calls of setVolume overlap, the card ends with the cached       *)
(* volume, unless the last value was cached while another call was about   *)
(* to write its level.                                                     *)
(***************************************************************************)
THEOREM CardHolds == SettingsSpec => []CardUnlessRaced
<1>1. RacesInv => CardUnlessRaced
  BY DEF RacesInv, CardArgs, CardUnlessRaced
<1> QED BY <1>1, RacesInductive, PTL
=============================================================================
