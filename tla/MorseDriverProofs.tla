-------------------------- MODULE MorseDriverProofs --------------------------
(***************************************************************************)
(* The Morse code driver for a kfifo of any size, any texts and any memory *)
(* around them: types, what readers get, and how long the light is dark.   *)
(***************************************************************************)
EXTENDS MorseDriver, FiniteSetTheorems, SequenceTheorems, WellFoundedInduction, TLAPS

(***************************************************************************)
(* Smallest and largest members of sets of places, and induction.          *)
(***************************************************************************)
LEMMA Least ==
    ASSUME NEW T \in SUBSET Nat, T # {}
    PROVE  \E x \in T : \A y \in T : x <= y
<1>1. PICK x \in T : \A y \in T : <<y, x>> \notin OpToRel(<, Nat)
  BY NatLessThanWellFounded, WFMin, Zenon
<1>2. \A y \in T : ~(y < x)
  BY <1>1, Zenon DEF OpToRel
<1> QED BY <1>2

LEMMA Induct ==
    ASSUME NEW S, 0 \in S, \A n \in Nat : n \in S => n + 1 \in S
    PROVE  Nat \subseteq S
<1> SUFFICES ASSUME Nat \ S # {} PROVE FALSE
  OBVIOUS
<1>1. PICK x \in Nat \ S : \A y \in Nat \ S : x <= y
  BY Least
<1>2. x # 0 /\ x - 1 \in Nat
  OBVIOUS
<1> QED BY <1>1, <1>2

\* Max and Min of a set of places between two bounds.
LEMMA Extremes ==
    ASSUME NEW lo \in Int, NEW hi \in Int, NEW S \in SUBSET (lo .. hi), S # {}
    PROVE  /\ Min(S) \in S /\ \A x \in S : Min(S) <= x
           /\ Max(S) \in S /\ \A x \in S : x <= Max(S)
<1>1. \E x \in S : \A y \in S : x <= y
  <2> DEFINE T == {x \in Nat : lo + x \in S}
  <2>1. T # {}
    <3>1. PICK x \in S : TRUE
      OBVIOUS
    <3>2. x - lo \in T
      BY <3>1
    <3> QED BY <3>2
  <2>2. PICK x \in T : \A y \in T : x <= y
    BY <2>1, Least
  <2>3. \A y \in S : y - lo \in T
    OBVIOUS
  <2>4. \A y \in S : lo + x <= y
    BY <2>2, <2>3
  <2> QED BY <2>2, <2>4
<1>2. \E x \in S : \A y \in S : x >= y
  <2> DEFINE T == {x \in Nat : hi - x \in S}
  <2>1. T # {}
    <3>1. PICK x \in S : TRUE
      OBVIOUS
    <3>2. hi - x \in T
      BY <3>1
    <3> QED BY <3>2
  <2>2. PICK x \in T : \A y \in T : x <= y
    BY <2>1, Least
  <2>3. \A y \in S : hi - y \in T
    OBVIOUS
  <2>4. \A y \in S : x <= hi - y
    BY <2>2, <2>3
  <2>5. \A y \in S : hi - x >= y
    BY <2>4
  <2> QED BY <2>2, <2>5
<1>3. Min(S) \in S /\ \A x \in S : Min(S) <= x
  BY <1>1 DEF Min
<1>4. Max(S) \in S /\ \A x \in S : Max(S) >= x
  BY <1>2 DEF Max
<1> QED BY <1>3, <1>4
----------------------------------------------------------------------------
LEMMA Regroup ==
    ASSUME NEW S, NEW s \in Seq(S), NEW x \in S, NEW t \in Seq(S)
    PROVE  (s \o <<x>>) \o t = s \o (<<x>> \o t)
<1>1. <<x>> \in Seq(S)
  OBVIOUS
<1> QED BY <1>1, ConcatAssociative

----------------------------------------------------------------------------
(***************************************************************************)
(* The table of codes.  What is left of a letter behind its first mark is  *)
(* a letter itself, or nothing: TailOf.                                    *)
(***************************************************************************)
TailOf ==
    <<20, 19, 18, 9, 0, 18, 14, 19, 5, 15, 1, 4, 20, 5, 13, 7, 11, 14, 9, 0, 1, 21, 13, 21, 23, 4>>

TailAt(l) == TailOf[l] # 0 => Alphabet[l] = <<Alphabet[l][1]>> \o Alphabet[TailOf[l]]

LEMMA Tails == \A l \in Letters : TailAt(l)
<1>1. TailAt(1) /\ TailAt(2) /\ TailAt(3) /\ TailAt(4) /\ TailAt(5) /\ TailAt(6) /\ TailAt(7)
  BY DEF TailAt, TailOf, Alphabet
<1>2. TailAt(8) /\ TailAt(9) /\ TailAt(10) /\ TailAt(11) /\ TailAt(12) /\ TailAt(13) /\ TailAt(14)
  BY DEF TailAt, TailOf, Alphabet
<1>3. TailAt(15) /\ TailAt(16) /\ TailAt(17) /\ TailAt(18) /\ TailAt(19) /\ TailAt(20)
  BY DEF TailAt, TailOf, Alphabet
<1>4. TailAt(21) /\ TailAt(22) /\ TailAt(23) /\ TailAt(24) /\ TailAt(25) /\ TailAt(26)
  BY DEF TailAt, TailOf, Alphabet
<1> QED BY <1>1, <1>2, <1>3, <1>4 DEF Letters

Marks == {Dot, Dash}

LEMMA AlphabetIs == \A l \in Letters : Alphabet[l] \in Seq(Marks) /\ Len(Alphabet[l]) \in 1 .. 4
<1>1. Alphabet \in Seq(Seq(Marks)) /\ Len(Alphabet) = 26
  BY DEF Alphabet, Marks, Dot, Dash
<1>2. \A l \in Letters : Len(Alphabet[l]) \in 1 .. 4
  BY DEF Letters, Alphabet
<1> QED BY <1>1, <1>2, ElementOfSeq DEF Letters

LEMMA Interval == ASSUME NEW n \in Int PROVE \A x : x \in 0 .. n <=> x \in Int /\ 0 <= x /\ x <= n
OBVIOUS

LEMMA WordIs == \A x : x \in Word <=> x \in Int /\ 0 <= x /\ x <= 65535
<1>1. WordMax \in Int
  BY DEF WordMax
<1>2. \A x : x \in Word <=> x \in Int /\ 0 <= x /\ x <= WordMax
  BY <1>1, Interval, Zenon DEF Word
<1> QED BY <1>2 DEF WordMax

LEMMA Below == \A x : x \in 1 .. TopBit - 1 <=> x \in Int /\ 1 <= x /\ x <= TopBit - 1
<1>1. TopBit - 1 \in Int
  BY DEF TopBit
<1>2. \A n \in Int : \A x : x \in 1 .. n <=> x \in Int /\ 1 <= x /\ x <= n
  OBVIOUS
<1> QED BY <1>1, <1>2

LEMMA CodesAreWords ==
    \A l \in Letters : /\ morsecode_codes[l] \in Int
                       /\ morsecode_codes[l] >= 32768 /\ morsecode_codes[l] <= 65535
BY SMTT(60) DEF Letters, morsecode_codes

LEMMA FirstMark ==
    \A l \in Letters : Alphabet[l][1] = IF morsecode_codes[l] >= 57344 THEN Dash ELSE Dot
BY SMTT(60) DEF Letters, Alphabet, morsecode_codes, Dot, Dash

(***************************************************************************)
(* The shift of flash_leds, in 16 bits, and without them.                  *)
(***************************************************************************)
MarkOf(w) == IF w >= 57344 THEN Dash ELSE Dot
Shift(w) == (w * (IF MarkOf(w) = Dash THEN 8 ELSE 2)) % 65536
TopOff(w) == IF w >= 57344 THEN 8 * (w - 57344) ELSE 2 * (w - 32768)

LEMMA ShiftIs == ASSUME NEW w \in Int, w >= 32768, w <= 65535 PROVE Shift(w) = TopOff(w)
<1>1. CASE w >= 57344
  <2> DEFINE r == 8 * (w - 57344)
  <2>1. r \in Int /\ r >= 0 /\ r <= 65535 /\ w * 8 = 7 * 65536 + r
    BY <1>1
  <2> HIDE DEF r
  <2>2. (7 * 65536 + r) % 65536 = r
    BY <2>1
  <2>3. Shift(w) = (w * 8) % 65536 /\ TopOff(w) = r
    BY <1>1 DEF Shift, TopOff, MarkOf, Dot, Dash, r
  <2> QED BY <2>1, <2>2, <2>3
<1>2. CASE w < 57344
  <2> DEFINE r == 2 * (w - 32768)
  <2>1. r \in Int /\ r >= 0 /\ r <= 65535 /\ w * 2 = 1 * 65536 + r
    BY <1>2
  <2> HIDE DEF r
  <2>2. (1 * 65536 + r) % 65536 = r
    BY <2>1
  <2>3. Shift(w) = (w * 2) % 65536 /\ TopOff(w) = r
    BY <1>2 DEF Shift, TopOff, MarkOf, Dot, Dash, r
  <2> QED BY <2>1, <2>2, <2>3
<1> QED BY <1>1, <1>2

LEMMA TailCodes ==
    \A l \in Letters :
        /\ TailOf[l] # 0 => TailOf[l] \in Letters /\ 2 * TopOff(morsecode_codes[l]) = morsecode_codes[TailOf[l]]
        /\ TailOf[l] = 0 => Len(Alphabet[l]) = 1 /\ TopOff(morsecode_codes[l]) = 0
<1>1. \A l \in Letters : TailOf[l] # 0 => TailOf[l] \in Letters
  BY DEF Letters, TailOf
<1>2. \A l \in Letters : TailOf[l] # 0 => 2 * TopOff(morsecode_codes[l]) = morsecode_codes[TailOf[l]]
  BY SMTT(60) DEF Letters, TailOf, morsecode_codes, TopOff
<1>3. \A l \in Letters : TailOf[l] = 0 => Len(Alphabet[l]) = 1 /\ TopOff(morsecode_codes[l]) = 0
  BY SMTT(60) DEF Letters, TailOf, morsecode_codes, Alphabet, TopOff
<1> QED BY <1>1, <1>2, <1>3

(***************************************************************************)
(* The word w of letter l when the marks said are over: a mark is next, or *)
(* the word is just behind one.                                            *)
(***************************************************************************)
Coming(l, said, w) == \E r \in Letters : Alphabet[l] = said \o Alphabet[r] /\ w = morsecode_codes[r]
Behind(l, said, w) ==
    said # <<>> /\ (Coming(l, said, 2 * w) \/ (said = Alphabet[l] /\ w = 0))

LEMMA MarkFlashed ==
    ASSUME NEW l \in Letters, NEW said \in Seq(Marks), NEW w, Coming(l, said, w)
    PROVE  /\ MarkOf(w) \in Marks /\ Shift(w) \in Int /\ 0 <= Shift(w) /\ Shift(w) <= 32767
           /\ Behind(l, Append(said, MarkOf(w)), Shift(w))
<1>1. PICK r \in Letters : Alphabet[l] = said \o Alphabet[r] /\ w = morsecode_codes[r]
  BY DEF Coming
<1>2. w \in Int /\ w >= 32768 /\ w <= 65535
  BY <1>1, CodesAreWords
<1>3. Shift(w) = TopOff(w) /\ MarkOf(w) = Alphabet[r][1] /\ MarkOf(w) \in Marks
  BY <1>1, <1>2, ShiftIs, FirstMark DEF MarkOf, Marks
<1>4. Alphabet[r] \in Seq(Marks) /\ Len(Alphabet[r]) \in 1 .. 4
  BY AlphabetIs
<1>5. CASE TailOf[r] = 0
  <2>1. Alphabet[r] = <<MarkOf(w)>>
    BY <1>3, <1>4, <1>5, TailCodes
  <2>2. Alphabet[l] = Append(said, MarkOf(w)) /\ Shift(w) = 0
    BY <1>1, <1>3, <1>5, <2>1, TailCodes
  <2>3. Append(said, MarkOf(w)) # <<>>
    BY <1>3, AppendProperties
  <2> QED BY <1>3, <2>2, <2>3 DEF Behind
<1>6. CASE TailOf[r] # 0
  <2> DEFINE t == TailOf[r]
  <2>1. t \in Letters /\ 2 * Shift(w) = morsecode_codes[t] /\ Alphabet[r] = <<MarkOf(w)>> \o Alphabet[t]
    BY <1>1, <1>3, <1>6, TailCodes, Tails DEF TailAt
  <2>2. Alphabet[t] \in Seq(Marks) /\ morsecode_codes[t] \in Int
        /\ morsecode_codes[t] >= 32768 /\ morsecode_codes[t] <= 65535
    BY <2>1, AlphabetIs, CodesAreWords
  <2> HIDE DEF t
  <2>3. Append(said, MarkOf(w)) = said \o <<MarkOf(w)>>
    BY <1>3
  <2>4. (said \o <<MarkOf(w)>>) \o Alphabet[t] = said \o (<<MarkOf(w)>> \o Alphabet[t])
    <3> DEFINE a == Alphabet[t]
               x == MarkOf(w)
    <3>1. a \in Seq(Marks) /\ x \in Marks
      BY <1>3, <2>2
    <3> HIDE DEF a, x
    <3>2. (said \o <<x>>) \o a = said \o (<<x>> \o a)
      BY <3>1, Regroup
    <3> QED BY <3>2 DEF a, x
  <2>5. Coming(l, Append(said, MarkOf(w)), 2 * Shift(w))
    BY <1>1, <2>1, <2>3, <2>4 DEF Coming
  <2>6. Append(said, MarkOf(w)) # <<>>
    BY <1>3, AppendProperties
  <2>7. Shift(w) \in Int
    BY <1>2, <1>3 DEF TopOff
  <2>8. 0 <= Shift(w) /\ Shift(w) <= 32767
    BY <2>1, <2>2, <2>7
  <2> QED BY <1>3, <2>5, <2>6, <2>7, <2>8 DEF Behind
<1> QED BY <1>5, <1>6
----------------------------------------------------------------------------
(***************************************************************************)
(* The recursive functions Said and Matched exist, and go place by place.  *)
(***************************************************************************)
Char == Letters \cup {Blank, Other}

LEMMA SymbolSeqs ==
    /\ \A l \in Letters : Alphabet[l] \in Seq(Symbols)
    /\ \A text, n : GapBefore(text, n) \in Seq(Symbols)
<1>1. Marks \subseteq Symbols
  BY DEF Marks, Symbols
<1>2. \A l \in Letters : Alphabet[l] \in Seq(Symbols)
  BY <1>1, AlphabetIs, SeqMonotonic
<1>3. Gap \in Symbols
  BY DEF Symbols
<1>4. <<>> \in Seq(Symbols) /\ <<Gap>> \in Seq(Symbols) /\ <<Gap, Gap, Gap>> \in Seq(Symbols)
  BY <1>3
<1>5. \A text, n : GapBefore(text, n) \in {<<>>, <<Gap>>, <<Gap, Gap, Gap>>}
  BY DEF GapBefore
<1> QED BY <1>2, <1>4, <1>5

\* What Said adds at place n.
Adds(text, n, v) ==
    IF text[n] \in Letters THEN v \o GapBefore(text, n) \o Alphabet[text[n]] ELSE v

LEMMA SaidIs ==
    ASSUME NEW text \in Seq(Char)
    PROVE  /\ Said(text) \in [0 .. Len(text) -> Seq(Symbols)]
           /\ Said(text)[0] = <<>>
           /\ \A n \in 1 .. Len(text) : Said(text)[n] = Adds(text, n, Said(text)[n - 1])
<1> DEFINE L == Len(text)
           V == Seq(Symbols)
           Recur(f) == f = [n \in 0 .. L |->
                              IF n = 0 THEN <<>>
                              ELSE IF text[n] \in Letters
                              THEN f[n - 1] \o GapBefore(text, n) \o Alphabet[text[n]]
                              ELSE f[n - 1]]
<1>1. L \in Nat
  OBVIOUS
<1>2. \A n \in 1 .. L : \A v \in V : Adds(text, n, v) \in V
  <2> SUFFICES ASSUME NEW n \in 1 .. L, NEW v \in V PROVE Adds(text, n, v) \in V
    OBVIOUS
  <2>1. CASE text[n] \in Letters
    <3>1. GapBefore(text, n) \in V /\ Alphabet[text[n]] \in V
      BY <2>1, SymbolSeqs
    <3>2. v \o GapBefore(text, n) \in V
      BY <3>1, ConcatProperties
    <3>3. (v \o GapBefore(text, n)) \o Alphabet[text[n]] \in V
      BY <3>1, <3>2, ConcatProperties
    <3> QED BY <2>1, <3>3 DEF Adds
  <2>2. CASE text[n] \notin Letters
    BY <2>2 DEF Adds
  <2> QED BY <2>1, <2>2
<1>3. <<>> \in V
  OBVIOUS
<1> HIDE DEF V
<1> DEFINE Upto(n, h) == h[0] = <<>> /\ \A i \in 1 .. n : h[i] = Adds(text, i, h[i - 1])
           Exists(n) == n <= L => \E h \in [0 .. n -> V] : Upto(n, h)
<1>4. \E h \in [0 .. L -> V] : Upto(L, h)
  <2> DEFINE S == {n \in Nat : Exists(n)}
  <2> HIDE DEF L
  <2>1. 0 \in S
    <3> DEFINE h == [i \in 0 .. 0 |-> <<>>]
    <3>1. h \in [0 .. 0 -> V] /\ Upto(0, h)
      <4>1. 0 \in 0 .. 0 /\ 1 .. 0 = {}
        OBVIOUS
      <4>2. h \in [0 .. 0 -> V]
        BY <1>3
      <4>3. h[0] = <<>>
        BY <4>1
      <4> HIDE DEF h
      <4> QED BY <4>1, <4>2, <4>3
    <3> QED BY <3>1
  <2>2. \A n \in Nat : Exists(n) => Exists(n + 1)
    <3> SUFFICES ASSUME NEW n \in Nat, Exists(n), n + 1 <= L
                 PROVE  \E h \in [0 .. n + 1 -> V] : Upto(n + 1, h)
      OBVIOUS
    <3>1. PICK h \in [0 .. n -> V] : Upto(n, h)
      BY <1>1
    <3> DEFINE x == Adds(text, n + 1, h[n])
               k == [i \in 0 .. n + 1 |-> IF i <= n THEN h[i] ELSE x]
    <3>2. x \in V
      BY <1>1, <1>2
    <3> HIDE DEF x
    <3>3. k \in [0 .. n + 1 -> V] /\ k[0] = <<>>
      BY <3>1, <3>2
    <3>4. ASSUME NEW i \in 1 .. n + 1 PROVE k[i] = Adds(text, i, k[i - 1])
      <4>1. CASE i = n + 1
        <5>1. k[i] = x /\ k[i - 1] = h[n]
          BY <4>1
        <5> QED BY <4>1, <5>1 DEF x
      <4>2. CASE i <= n
        <5>1. k[i] = h[i] /\ k[i - 1] = h[i - 1] /\ i \in 1 .. n
          BY <4>2
        <5> HIDE DEF k
        <5> QED BY <3>1, <5>1
      <4> QED BY <4>1, <4>2
    <3> HIDE DEF k
    <3> QED BY <3>3, <3>4
  <2> HIDE DEF Exists
  <2>3. Nat \subseteq S
    <3>1. \A n \in Nat : n \in S => n + 1 \in S
      BY <2>2
    <3> HIDE DEF S
    <3> QED BY <2>1, <3>1, Induct
  <2>4. Exists(L)
    BY <1>1, <2>3
  <2> QED BY <1>1, <2>4 DEF Exists
<1> HIDE DEF Exists, Upto
<1> PICK h \in [0 .. L -> V] : Upto(L, h)
  BY <1>4
<1>5. Recur(h)
  <2>1. /\ h = [n \in 0 .. L |-> h[n]] /\ h[0] = <<>>
        /\ \A n \in 1 .. L : h[n] = Adds(text, n, h[n - 1])
    BY DEF Upto
  <2>2. \A n \in 0 .. L : n # 0 => n \in 1 .. L
    BY <1>1
  <2> QED BY <2>1, <2>2 DEF Adds
<1>6. Said(text) = CHOOSE f : Recur(f)
  BY DEF Said
<1> HIDE DEF Recur
<1>7. Recur(Said(text))
  BY <1>5, <1>6
<1> DEFINE s == Said(text)
<1>8. /\ s = [n \in 0 .. L |-> s[n]] /\ s[0] = <<>>
      /\ \A n \in 1 .. L : s[n] = Adds(text, n, s[n - 1])
  <2> HIDE DEF s
  <2>1. Recur(s)
    BY <1>7 DEF s
  <2>2. s = [n \in 0 .. L |-> IF n = 0 THEN <<>> ELSE Adds(text, n, s[n - 1])]
    BY <2>1 DEF Recur, Adds
  <2>3. 0 \in 0 .. L /\ \A n \in 1 .. L : n \in 0 .. L /\ n # 0
    BY <1>1
  <2> HIDE DEF L
  <2> QED BY <2>2, <2>3
<1> HIDE DEF s
<1>9. \A n \in 0 .. L : s[n] \in V
  <2> DEFINE S == {n \in Nat : n <= L => s[n] \in V}
  <2>1. 0 \in S
    BY <1>3, <1>8
  <2>2. ASSUME NEW n \in Nat, n \in S PROVE n + 1 \in S
    <3> SUFFICES ASSUME n + 1 <= L PROVE s[n + 1] \in V
      OBVIOUS
    <3>1. n + 1 \in 1 .. L /\ (n + 1) - 1 = n /\ s[n] \in V
      BY <1>1
    <3> QED BY <1>2, <1>8, <3>1
  <2>3. Nat \subseteq S
    <3> HIDE DEF S
    <3> QED BY <2>1, <2>2, Induct
  <2> QED BY <1>1, <2>3
<1> QED BY <1>8, <1>9 DEF s, V

LEMMA Associative ==
    \A s, t, u \in Seq(Symbols) : (s \o t) \o u = s \o (t \o u)
BY ConcatAssociative

\* What is said of more of the text only adds to what is said of less.
LEMMA SaidGrows ==
    ASSUME NEW text \in Seq(Char), NEW i \in 0 .. Len(text), NEW j \in i .. Len(text)
    PROVE  \E u \in Seq(Symbols) : Said(text)[j] = Said(text)[i] \o u
<1> DEFINE s == Said(text)
           V == Seq(Symbols)
           Grown(n) == i + n <= Len(text) => \E u \in V : s[i + n] = s[i] \o u
           S == {n \in Nat : Grown(n)}
<1>1. \A n \in 0 .. Len(text) : s[n] \in V
  BY SaidIs
<1>2. 0 \in S
  <2>1. s[i + 0] = s[i] \o <<>> /\ <<>> \in V
    BY <1>1
  <2> QED BY <2>1
<1>3. \A n \in Nat : n \in S => n + 1 \in S
  <2> SUFFICES ASSUME NEW n \in Nat, Grown(n) PROVE Grown(n + 1)
    <3> HIDE DEF Grown
    <3> QED OBVIOUS
  <2> DEFINE m == i + (n + 1)
  <2> SUFFICES ASSUME m <= Len(text) PROVE \E u \in V : s[m] = s[i] \o u
    <3> HIDE DEF s, V
    <3> QED OBVIOUS
  <2>1. PICK u \in V : s[m - 1] = s[i] \o u
    <3>1. m - 1 = i + n /\ i + n <= Len(text)
      OBVIOUS
    <3> HIDE DEF s, V, m
    <3> QED BY <3>1
  <2>2. m \in 1 .. Len(text) /\ s[m] = Adds(text, m, s[m - 1]) /\ s[i] \in V
    BY <1>1, SaidIs
  <2> HIDE DEF m, s
  <2>3. CASE text[m] \in Letters
    <3> DEFINE p == GapBefore(text, m)
               a == Alphabet[text[m]]
    <3>1. p \in V /\ a \in V
      BY <2>3, SymbolSeqs
    <3>2. s[m] = ((s[i] \o u) \o p) \o a
      BY <2>1, <2>2, <2>3 DEF Adds
    <3> HIDE DEF p, a, V
    <3> DEFINE h == s[i]
    <3>3. ((h \o u) \o p) \o a = h \o ((u \o p) \o a)
      <4>1. h \in Seq(Symbols) /\ u \in Seq(Symbols) /\ p \in Seq(Symbols) /\ a \in Seq(Symbols)
        BY <2>1, <2>2, <3>1 DEF V
      <4> HIDE DEF h
      <4> DEFINE w == u \o p
      <4>2. w \in Seq(Symbols)
        BY <4>1, ConcatProperties
      <4>3. (h \o u) \o p = h \o w
        BY <4>1, Associative, Zenon
      <4> HIDE DEF w
      <4>4. (h \o w) \o a = h \o (w \o a)
        BY <4>1, <4>2, Associative, ZenonT(60)
      <4>5. ((h \o u) \o p) \o a = (h \o w) \o a
        BY <4>3, Zenon
      <4> QED BY <4>4, <4>5, Zenon DEF w
    <3>4. (u \o p) \o a \in V
      BY <2>1, <3>1, ConcatProperties DEF V
    <3> QED BY <3>2, <3>3, <3>4 DEF m
  <2>4. CASE text[m] \notin Letters
    BY <2>1, <2>2, <2>4 DEF Adds, m
  <2> QED BY <2>3, <2>4
<1>4. Nat \subseteq S
  <2> HIDE DEF S
  <2> QED BY <1>2, <1>3, Induct
<1> QED
  <2>1. j - i \in Nat /\ i + (j - i) = j
    OBVIOUS
  <2>2. j - i \in S
    BY <1>4, <2>1
  <2> QED BY <2>1, <2>2

\* Places without a letter add nothing.
LEMMA SaidSame ==
    ASSUME NEW text \in Seq(Char), NEW i \in 0 .. Len(text), NEW j \in i .. Len(text),
           \A n \in i + 1 .. j : text[n] \notin Letters
    PROVE  Said(text)[j] = Said(text)[i]
<1> DEFINE s == Said(text)
           S == {n \in Nat : i + n <= j => s[i + n] = s[i]}
<1>1. 0 \in S
  OBVIOUS
<1>2. \A n \in Nat : n \in S => n + 1 \in S
  <2> SUFFICES ASSUME NEW n \in Nat, n \in S, i + n + 1 <= j PROVE s[i + n + 1] = s[i]
    OBVIOUS
  <2>1. i + n + 1 \in 1 .. Len(text) /\ text[i + n + 1] \notin Letters
    OBVIOUS
  <2>2. s[i + n + 1] = Adds(text, i + n + 1, s[(i + n + 1) - 1])
    BY <2>1, SaidIs
  <2>3. (i + n + 1) - 1 = i + n /\ s[i + n] = s[i]
    OBVIOUS
  <2> QED BY <2>1, <2>2, <2>3 DEF Adds
<1>3. Nat \subseteq S
  <2> HIDE DEF S
  <2> QED BY <1>1, <1>2, Induct
<1> QED
  <2>1. j - i \in Nat /\ i + (j - i) = j
    OBVIOUS
  <2>2. j - i \in S
    BY <1>3, <2>1
  <2> QED BY <2>1, <2>2
\* What Matched adds at place n.
Match(s, t, n, m) == IF m < Len(s) /\ s[m + 1] = t[n] THEN m + 1 ELSE m

LEMMA MatchedIs ==
    ASSUME NEW s \in Seq(Symbols), NEW t \in Seq(Symbols)
    PROVE  /\ Matched(s, t) \in [0 .. Len(t) -> 0 .. Len(s)]
           /\ Matched(s, t)[0] = 0
           /\ \A n \in 1 .. Len(t) : Matched(s, t)[n] = Match(s, t, n, Matched(s, t)[n - 1])
<1> DEFINE L == Len(t)
           V == 0 .. Len(s)
           Recur(f) == f = [n \in 0 .. L |->
                              IF n = 0 THEN 0
                              ELSE LET m == f[n - 1]
                                   IN IF m < Len(s) /\ s[m + 1] = t[n] THEN m + 1 ELSE m]
<1>1. L \in Nat /\ 0 \in V
  OBVIOUS
<1>2. \A n \in 1 .. L : \A m \in V : Match(s, t, n, m) \in V
  BY DEF Match
<1> DEFINE Upto(n, h) == h[0] = 0 /\ \A i \in 1 .. n : h[i] = Match(s, t, i, h[i - 1])
           Exists(n) == n <= L => \E h \in [0 .. n -> V] : Upto(n, h)
<1> HIDE DEF V
<1>4. \E h \in [0 .. L -> V] : Upto(L, h)
  <2> DEFINE S == {n \in Nat : Exists(n)}
  <2> HIDE DEF L
  <2>1. 0 \in S
    <3> DEFINE h == [i \in 0 .. 0 |-> 0]
    <3>1. h \in [0 .. 0 -> V] /\ Upto(0, h)
      <4>1. 0 \in 0 .. 0 /\ 1 .. 0 = {}
        OBVIOUS
      <4>2. h \in [0 .. 0 -> V]
        BY <1>1
      <4>3. h[0] = 0
        BY <4>1
      <4> HIDE DEF h
      <4> QED BY <4>1, <4>2, <4>3
    <3> QED BY <3>1
  <2>2. \A n \in Nat : Exists(n) => Exists(n + 1)
    <3> SUFFICES ASSUME NEW n \in Nat, Exists(n), n + 1 <= L
                 PROVE  \E h \in [0 .. n + 1 -> V] : Upto(n + 1, h)
      OBVIOUS
    <3>1. PICK h \in [0 .. n -> V] : Upto(n, h)
      BY <1>1
    <3> DEFINE x == Match(s, t, n + 1, h[n])
               k == [i \in 0 .. n + 1 |-> IF i <= n THEN h[i] ELSE x]
    <3>2. x \in V
      BY <1>1, <1>2
    <3> HIDE DEF x
    <3>3. k \in [0 .. n + 1 -> V] /\ k[0] = 0
      BY <3>1, <3>2
    <3>4. ASSUME NEW i \in 1 .. n + 1 PROVE k[i] = Match(s, t, i, k[i - 1])
      <4>1. CASE i = n + 1
        <5>1. k[i] = x /\ k[i - 1] = h[n]
          BY <4>1
        <5> QED BY <4>1, <5>1 DEF x
      <4>2. CASE i <= n
        <5>1. k[i] = h[i] /\ k[i - 1] = h[i - 1] /\ i \in 1 .. n
          BY <4>2
        <5> HIDE DEF k
        <5> QED BY <3>1, <5>1
      <4> QED BY <4>1, <4>2
    <3> HIDE DEF k
    <3> QED BY <3>3, <3>4
  <2> HIDE DEF Exists
  <2>3. Nat \subseteq S
    <3>1. \A n \in Nat : n \in S => n + 1 \in S
      BY <2>2
    <3> HIDE DEF S
    <3> QED BY <2>1, <3>1, Induct
  <2>4. Exists(L)
    BY <1>1, <2>3
  <2> QED BY <1>1, <2>4 DEF Exists
<1> HIDE DEF Exists, Upto
<1> PICK h \in [0 .. L -> V] : Upto(L, h)
  BY <1>4
<1>5. Recur(h)
  <2>1. /\ h = [n \in 0 .. L |-> h[n]] /\ h[0] = 0
        /\ \A n \in 1 .. L : h[n] = Match(s, t, n, h[n - 1])
    BY DEF Upto
  <2>2. \A n \in 0 .. L : n # 0 => n \in 1 .. L
    BY <1>1
  <2> QED BY <2>1, <2>2 DEF Match
<1>6. Matched(s, t) = CHOOSE f : Recur(f)
  BY DEF Matched
<1> HIDE DEF Recur
<1>7. Recur(Matched(s, t))
  BY <1>5, <1>6
<1> DEFINE m == Matched(s, t)
<1>8. /\ m = [n \in 0 .. L |-> m[n]] /\ m[0] = 0
      /\ \A n \in 1 .. L : m[n] = Match(s, t, n, m[n - 1])
  <2> HIDE DEF m
  <2>1. Recur(m)
    BY <1>7 DEF m
  <2>2. m = [n \in 0 .. L |-> IF n = 0 THEN 0 ELSE Match(s, t, n, m[n - 1])]
    BY <2>1 DEF Recur, Match
  <2>3. 0 \in 0 .. L /\ \A n \in 1 .. L : n \in 0 .. L /\ n # 0
    BY <1>1
  <2> HIDE DEF L
  <2> QED BY <2>2, <2>3
<1> HIDE DEF m
<1>9. \A n \in 0 .. L : m[n] \in V
  <2> DEFINE S == {n \in Nat : n <= L => m[n] \in V}
  <2>1. 0 \in S
    BY <1>1, <1>8
  <2>2. ASSUME NEW n \in Nat, n \in S PROVE n + 1 \in S
    <3> SUFFICES ASSUME n + 1 <= L PROVE m[n + 1] \in V
      OBVIOUS
    <3>1. n + 1 \in 1 .. L /\ (n + 1) - 1 = n /\ m[n] \in V
      BY <1>1
    <3> QED BY <1>2, <1>8, <3>1
  <2>3. Nat \subseteq S
    <3> HIDE DEF S
    <3> QED BY <2>1, <2>2, Induct
  <2> QED BY <1>1, <2>3
<1> QED BY <1>8, <1>9 DEF m, V

\* More to choose from: still a subsequence.
LEMMA SubsequenceOfMore ==
    ASSUME NEW s \in Seq(Symbols), NEW t \in Seq(Symbols), NEW u \in Seq(Symbols), Subsequence(s, t)
    PROVE  Subsequence(s, t \o u)
<1> DEFINE m == Matched(s, t)
           w == t \o u
           k == Matched(s, w)
           S == {n \in Nat : n <= Len(t) => k[n] = m[n]}
           R == {n \in Nat : n <= Len(u) => k[Len(t) + n] = Len(s)}
<1>1. w \in Seq(Symbols) /\ Len(w) = Len(t) + Len(u) /\ \A n \in 1 .. Len(t) : w[n] = t[n]
  BY ConcatProperties
<1> HIDE DEF w
<1>2. /\ m[0] = 0 /\ k[0] = 0
      /\ \A n \in 1 .. Len(t) : m[n] = Match(s, t, n, m[n - 1])
      /\ \A n \in 1 .. Len(w) : k[n] = Match(s, w, n, k[n - 1])
  BY <1>1, MatchedIs
<1>3. m[Len(t)] = Len(s)
  BY DEF Subsequence
<1> HIDE DEF m, k
<1>4. Nat \subseteq S
  <2>1. 0 \in S
    BY <1>2
  <2>2. ASSUME NEW n \in Nat, n \in S PROVE n + 1 \in S
    <3> SUFFICES ASSUME n + 1 <= Len(t) PROVE k[n + 1] = m[n + 1]
      OBVIOUS
    <3>1. k[n] = m[n]
      <4>1. Len(t) \in Nat /\ n <= Len(t)
        BY LenProperties
      <4> QED BY <2>2, <4>1
    <3> HIDE DEF S, R
    <3>2. n + 1 \in 1 .. Len(t) /\ n + 1 \in 1 .. Len(w) /\ (n + 1) - 1 = n
      <4>1. Len(t) \in Nat /\ Len(u) \in Nat
        BY LenProperties
      <4>2. Len(w) = Len(t) + Len(u)
        BY <1>1
      <4> QED BY <4>1, <4>2
    <3>3. m[n + 1] = Match(s, t, n + 1, m[n]) /\ k[n + 1] = Match(s, w, n + 1, k[n])
      BY <1>2, <3>2
    <3>4. w[n + 1] = t[n + 1]
      BY <1>1, <3>2
    <3> QED BY <3>1, <3>3, <3>4 DEF Match
  <2> HIDE DEF S
  <2> QED BY <2>1, <2>2, Induct
<1>5. Nat \subseteq R
  <2>1. 0 \in R
    BY <1>3, <1>4
  <2>2. ASSUME NEW n \in Nat, n \in R PROVE n + 1 \in R
    <3> SUFFICES ASSUME n + 1 <= Len(u) PROVE k[Len(t) + (n + 1)] = Len(s)
      OBVIOUS
    <3> DEFINE i == Len(t) + (n + 1)
    <3>1. k[Len(t) + n] = Len(s)
      <4>1. Len(u) \in Nat /\ n <= Len(u)
        BY LenProperties
      <4> QED BY <2>2, <4>1
    <3> HIDE DEF R, S
    <3>2. i \in 1 .. Len(w) /\ i - 1 = Len(t) + n
      BY <1>1, LenProperties
    <3> HIDE DEF i
    <3>3. k[i] = Len(s)
      BY <1>2, <3>1, <3>2, LenProperties DEF Match
    <3> QED BY <3>3 DEF i
  <2> HIDE DEF R
  <2> QED BY <2>1, <2>2, Induct
<1>6. k[Len(w)] = Len(s)
  <2>1. Len(u) \in R
    BY <1>5
  <2> QED BY <1>1, <2>1
<1> QED BY <1>6 DEF Subsequence, k, w

\* One more on each side: still a subsequence.
LEMMA SubsequenceAndOne ==
    ASSUME NEW s \in Seq(Symbols), NEW t \in Seq(Symbols), NEW x \in Symbols, Subsequence(s, t)
    PROVE  Subsequence(Append(s, x), Append(t, x))
<1> DEFINE m == Matched(s, t)
           v == Append(s, x)
           w == Append(t, x)
           k == Matched(v, w)
           Either(n) == k[n] = m[n] \/ (m[n] = Len(s) /\ k[n] = Len(s) + 1)
           S == {n \in Nat : n <= Len(t) => Either(n)}
<1>1. /\ v \in Seq(Symbols) /\ Len(v) = Len(s) + 1 /\ v[Len(s) + 1] = x
      /\ \A n \in 1 .. Len(s) : v[n] = s[n]
      /\ w \in Seq(Symbols) /\ Len(w) = Len(t) + 1 /\ w[Len(t) + 1] = x
      /\ \A n \in 1 .. Len(t) : w[n] = t[n]
  BY AppendProperties
<1> HIDE DEF v, w
<1>2. /\ m[0] = 0 /\ k[0] = 0
      /\ \A n \in 1 .. Len(t) : m[n] = Match(s, t, n, m[n - 1])
      /\ \A n \in 1 .. Len(w) : k[n] = Match(v, w, n, k[n - 1])
      /\ \A n \in 0 .. Len(t) : m[n] \in 0 .. Len(s)
  <2>1. k[0] = 0 /\ \A n \in 1 .. Len(w) : k[n] = Match(v, w, n, k[n - 1])
    BY <1>1, MatchedIs
  <2>2. /\ m[0] = 0 /\ \A n \in 1 .. Len(t) : m[n] = Match(s, t, n, m[n - 1])
        /\ m \in [0 .. Len(t) -> 0 .. Len(s)]
    BY MatchedIs
  <2> HIDE DEF m, k
  <2> QED BY <2>1, <2>2
<1>3. m[Len(t)] = Len(s)
  BY DEF Subsequence
<1> HIDE DEF m, k
<1>4. Nat \subseteq S
  <2>1. 0 \in S
    BY <1>2
  <2>2. ASSUME NEW n \in Nat, n \in S PROVE n + 1 \in S
    <3> SUFFICES ASSUME n + 1 <= Len(t) PROVE Either(n + 1)
      OBVIOUS
    <3>0. Either(n)
      <4>1. Len(t) \in Nat /\ n <= Len(t)
        BY LenProperties
      <4> HIDE DEF Either
      <4> QED BY <2>2, <4>1
    <3> HIDE DEF S
    <3>1. n + 1 \in 1 .. Len(t) /\ n + 1 \in 1 .. Len(w) /\ (n + 1) - 1 = n /\ n \in 0 .. Len(t)
      BY <1>1, LenProperties
    <3>2. /\ m[n + 1] = Match(s, t, n + 1, m[n]) /\ k[n + 1] = Match(v, w, n + 1, k[n])
          /\ m[n] \in 0 .. Len(s) /\ w[n + 1] = t[n + 1]
      BY <1>1, <1>2, <3>1
    <3>3. CASE k[n] = m[n] /\ m[n] < Len(s)
      <4>1. v[m[n] + 1] = s[m[n] + 1]
        <5>1. m[n] + 1 \in 1 .. Len(s)
          BY <3>2, <3>3, LenProperties
        <5> QED BY <1>1, <5>1
      <4> QED BY <1>1, <3>2, <3>3, <4>1 DEF Match
    <3>4. CASE k[n] = m[n] /\ m[n] = Len(s)
      BY <1>1, <3>2, <3>4 DEF Match
    <3>5. CASE m[n] = Len(s) /\ k[n] = Len(s) + 1
      BY <1>1, <3>2, <3>5 DEF Match
    <3> QED BY <3>0, <3>1, <3>2, <3>3, <3>4, <3>5
  <2> HIDE DEF S
  <2> QED BY <2>1, <2>2, Induct
<1>5. k[Len(t) + 1] = Len(s) + 1
  <2>1. Either(Len(t))
    BY <1>4
  <2>2. k[Len(t) + 1] = Match(v, w, Len(t) + 1, k[Len(t)])
    BY <1>1, <1>2
  <2> QED BY <1>1, <1>3, <2>1, <2>2 DEF Match
<1> QED BY <1>1, <1>5 DEF Subsequence, k, v, w
----------------------------------------------------------------------------
(***************************************************************************)
(* User memory, and where a scan for letters ends.                         *)
(***************************************************************************)
Memory == [text : Seq(Char), before : Seq(Char), after : Seq(Char)]

LEMMA Scans ==
    ASSUME mem \in Memory, NEW i \in Int
    PROVE  /\ count \in Nat /\ Mapped \subseteq Int
           /\ LettersFrom(i) # {} =>
                /\ Min(LettersFrom(i)) \in LettersFrom(i)
                /\ \A j \in LettersFrom(i) : Min(LettersFrom(i)) <= j
           /\ LettersBefore(i) # {} =>
                /\ Max(LettersBefore(i)) \in LettersBefore(i)
                /\ \A j \in LettersBefore(i) : j <= Max(LettersBefore(i))
<1> DEFINE lo == -Len(mem.before)
           hi == count + Len(mem.after) - 1
<1>1. lo \in Int /\ hi \in Int /\ count \in Nat
  BY DEF Memory, count
<1>2. Mapped = lo .. hi
  BY DEF Mapped
<1> HIDE DEF lo, hi
<1>3. LettersFrom(i) \in SUBSET (lo .. hi) /\ LettersBefore(i) \in SUBSET (lo .. hi)
  BY <1>2 DEF LettersFrom, LettersBefore
<1>4. Mapped \subseteq Int
  BY <1>1, <1>2
<1> QED BY <1>1, <1>3, <1>4, Extremes

LEMMA Encoded == ASSUME NEW text \in Seq(Char) PROVE Encode(text) \in Seq(Symbols)
<1>1. Said(text)[Len(text)] \in Seq(Symbols)
  BY SaidIs
<1>2. <<Newline>> \in Seq(Symbols)
  BY DEF Symbols
<1> QED BY <1>1, <1>2, ConcatProperties DEF Encode

LEMMA ShiftedIs ==
    ASSUME NEW w \in Int
    PROVE  MarkOf(w) \in Symbols /\ Shift(w) \in Int /\ 0 <= Shift(w) /\ Shift(w) <= 65535
<1>1. w * 8 \in Int /\ w * 2 \in Int
  OBVIOUS
<1>2. \A x \in Int : x % 65536 \in Int /\ 0 <= x % 65536 /\ x % 65536 <= 65535
  OBVIOUS
<1> QED BY <1>1, <1>2 DEF Shift, MarkOf, Symbols, Dot, Dash
----------------------------------------------------------------------------
(***************************************************************************)
(* Types.                                                                  *)
(***************************************************************************)
MemoryTyped ==
    /\ mem \in Memory
    /\ received \in Seq(Symbols) /\ expected \in Seq(Symbols)
    /\ dropped \in BOOLEAN /\ stray \in BOOLEAN
    /\ pc = "flash" => curr \in Mapped /\ At(curr) \in Letters

TypedMemory == TypeOK /\ MemoryTyped

LEMMA InitTyped == Init => TypedMemory
<1> SUFFICES ASSUME Init PROVE TypedMemory
  OBVIOUS
<1>1. Len(Texts) \in Nat /\ FIFO_SIZE \in Nat
  BY MorseAssumption
<1>2. morse \in Word
  BY WordIs DEF Init
<1>3. mem \in Memory
  BY DEF Init, Memory
<1>4. /\ 0 \in 0 .. 3 /\ 0 \in 0 .. Len(Texts) /\ {0} \subseteq Int /\ <<>> \in Seq(Symbols) /\ Len(<<>>) = 0
      /\ 0 <= FIFO_SIZE
  BY <1>1
<1>5. TypeOK
  BY <1>1, <1>2, <1>4 DEF Init, TypeOK
<1> QED BY <1>3, <1>4, <1>5 DEF Init, TypedMemory, MemoryTyped

LEMMA PutTyped ==
    ASSUME echo_fifo \in Seq(Symbols), ~Full, NEW x \in Symbols
    PROVE  Append(echo_fifo, x) \in Seq(Symbols) /\ Len(Append(echo_fifo, x)) <= FIFO_SIZE
<1>1. echo_fifo \in Seq(Symbols) /\ Len(echo_fifo) < FIFO_SIZE /\ FIFO_SIZE \in Nat
  BY MorseAssumption DEF Full
<1> QED BY <1>1, AppendProperties, LenProperties

LEMMA TypedStep == TypedMemory /\ [Next]_vars => TypedMemory'
<1> SUFFICES ASSUME TypedMemory, [Next]_vars PROVE TypedMemory'
  OBVIOUS
<1> USE DEF scan, history
<1>0. /\ ledtrig \in BOOLEAN /\ led \in BOOLEAN /\ dark \in Nat
      /\ echo_fifo \in Seq(Symbols) /\ Len(echo_fifo) <= FIFO_SIZE
      /\ pc \in {"idle", "trim", "next", "flash"} /\ result \in {"none", "count", "EFAULT"}
      /\ start \in Int /\ curr \in Int /\ end \in Int /\ spaces \in 0 .. 3 /\ morse \in Word
      /\ writes \in 0 .. Len(Texts) /\ mem \in Memory
      /\ received \in Seq(Symbols) /\ expected \in Seq(Symbols)
      /\ dropped \in BOOLEAN /\ stray \in BOOLEAN
      /\ pc = "flash" => curr \in Mapped /\ At(curr) \in Letters
  BY DEF TypedMemory, TypeOK, MemoryTyped
<1>1. CASE UNCHANGED vars
  <2>1. Mapped' = Mapped /\ At(curr)' = At(curr)
    BY <1>1 DEF vars, Mapped, At, count
  <2> QED BY <1>0, <1>1, <2>1 DEF vars, TypedMemory, TypeOK, MemoryTyped
<1>2. CASE led_register
  <2>1. Mapped' = Mapped /\ At(curr)' = At(curr)
    BY <1>0, <1>2 DEF led_register, Mapped, At, count
  <2> QED BY <1>0, <1>2, <2>1 DEF led_register, TypedMemory, TypeOK, MemoryTyped
<1>3. CASE my_read
  <2>1. Mapped' = Mapped /\ At(curr)' = At(curr)
    BY <1>0, <1>3 DEF my_read, Mapped, At, count
  <2>2. received' \in Seq(Symbols) /\ echo_fifo' \in Seq(Symbols) /\ Len(echo_fifo') <= FIFO_SIZE
    <3>1. PICK n \in 1 .. Len(echo_fifo) :
              /\ received' = received \o SubSeq(echo_fifo, 1, n)
              /\ echo_fifo' = SubSeq(echo_fifo, n + 1, Len(echo_fifo))
      BY <1>0, <1>3 DEF my_read
    <3>2. SubSeq(echo_fifo, 1, n) \in Seq(Symbols)
      BY <1>0, SubSeqProperties
    <3>3. /\ SubSeq(echo_fifo, n + 1, Len(echo_fifo)) \in Seq(Symbols)
          /\ Len(SubSeq(echo_fifo, n + 1, Len(echo_fifo))) = Len(echo_fifo) - n
      BY <1>0, SubSeqProperties
    <3>4. Len(echo_fifo) - n <= FIFO_SIZE
      BY <1>0, MorseAssumption
    <3> QED BY <1>0, <3>1, <3>2, <3>3, <3>4, ConcatProperties
  <2> QED BY <1>0, <1>3, <2>1, <2>2 DEF my_read, TypedMemory, TypeOK, MemoryTyped
<1>4. CASE WriteStart
  <2>1. PICK text \in Texts[writes + 1], a \in Around :
            mem' = [text |-> text, before |-> a.before, after |-> a.after]
    BY <1>0, <1>4 DEF WriteStart
  <2>2. text \in Seq(Char) /\ a.before \in Seq(Char) /\ a.after \in Seq(Char)
    <3>1. writes + 1 \in 1 .. Len(Texts)
      <4>1. writes \in Nat /\ writes < Len(Texts) /\ Len(Texts) \in Nat
        BY <1>0, <1>4, MorseAssumption DEF WriteStart
      <4> QED BY <4>1
    <3>2. Texts[writes + 1] \in SUBSET Seq(Char)
      <4>1. Texts \in Seq(SUBSET Seq(Char))
        BY MorseAssumption DEF Char
      <4> QED BY <3>1, <4>1, ElementOfSeq
    <3> QED BY <1>0, <2>1, <3>2, MorseAssumption DEF Char
  <2>3. mem' \in Memory /\ mem'.text = text
    BY <1>0, <2>1, <2>2 DEF Memory
  <2>4. expected' \in Seq(Symbols)
    <3>1. Encode(text) \in Seq(Symbols)
      BY <1>0, <2>2, Encoded
    <3> QED BY <1>0, <1>4, <2>3, <3>1, ConcatProperties DEF WriteStart
  <2>5. writes' \in 0 .. Len(Texts)
    BY <1>0, <1>4, MorseAssumption DEF WriteStart
  <2> QED BY <1>0, <1>4, <2>3, <2>4, <2>5 DEF WriteStart, TypedMemory, TypeOK, MemoryTyped
<1>5. CASE Trim
  <2>1. start' \in Int /\ end' \in Int /\ curr' \in Int
    <3>1. count \in Nat /\ 0 \in Int
      BY <1>0, Scans
    <3>2. LettersFrom(0) # {} => Min(LettersFrom(0)) \in Int
      BY <1>0, Scans DEF LettersFrom
    <3>3. LettersBefore(count) # {} => Max(LettersBefore(count)) \in Int
      BY <1>0, <3>1, Scans DEF LettersBefore
    <3> QED BY <1>0, <1>5, <3>1, <3>2, <3>3 DEF Trim
  <2>2. pc' \in {"idle", "next"} /\ result' \in {"none", "count", "EFAULT"}
    BY <1>0, <1>5 DEF Trim, Return
  <2> QED BY <1>0, <1>5, <2>1, <2>2 DEF Trim, TypedMemory, TypeOK, MemoryTyped
<1>6. CASE NextLetter
  <2>1. CASE LettersFrom(curr) = {}
    BY <1>0, <1>6, <2>1 DEF NextLetter, Return, TypedMemory, TypeOK, MemoryTyped
  <2>2. CASE LettersFrom(curr) # {}
    <3>1. curr' \in Mapped /\ curr' \in Int /\ At(curr') \in Letters
      BY <1>0, <1>6, <2>2, Scans DEF NextLetter, LettersFrom
    <3>2. Mapped' = Mapped /\ At(curr)' = At(curr')
      BY <1>0, <1>6 DEF NextLetter, Mapped, At, count
    <3>3. morse' \in Word
      <4>1. morse' = morsecode_codes[At(curr')]
        BY <1>6, <2>2, Zenon DEF NextLetter
      <4> QED BY <3>1, <4>1, CodesAreWords, WordIs
    <3>4. spaces' \in {0, 1, 3}
      BY <1>0, <1>6, <2>2, Zenon DEF NextLetter
    <3>5. Pause(spaces') \in Nat /\ spaces' \in 0 .. 3
      BY <1>0, <3>4 DEF Pause
    <3>6. dark' \in Nat
      <4>1. dark' = dark + Pause(spaces')
        BY <1>6, <2>2, Zenon DEF NextLetter
      <4> QED BY <1>0, <3>5, <4>1
    <3>7. led' \in BOOLEAN
      BY <1>0, <1>6, <2>2 DEF NextLetter, Light
    <3>8. UNCHANGED <<ledtrig, echo_fifo, mem, start, end, result, writes, received,
                      expected, stray, dropped>> /\ pc' = "flash"
      BY <1>0, <1>6, <2>2 DEF NextLetter
    <3> QED BY <1>0, <3>1, <3>2, <3>3, <3>5, <3>6, <3>7, <3>8 DEF TypedMemory, TypeOK, MemoryTyped
  <2> QED BY <1>0, <2>1, <2>2
<1>7. CASE PutSpace
  <2>1. Mapped' = Mapped /\ At(curr)' = At(curr)
    BY <1>0, <1>7 DEF PutSpace, Mapped, At, count
  <2>2. Gap \in Symbols
    BY DEF Symbols
  <2>3. echo_fifo' \in Seq(Symbols) /\ Len(echo_fifo') <= FIFO_SIZE
    BY <1>0, <1>7, <2>2, PutTyped DEF PutSpace, Put, Drop
  <2>4. spaces' \in 0 .. 3 /\ pc' \in {"flash", "idle"} /\ result' \in {"none", "count", "EFAULT"}
    BY <1>0, <1>7 DEF PutSpace, Return
  <2>5. dropped' \in BOOLEAN /\ morse' = morse /\ curr' = curr /\ pc = "flash"
    BY <1>0, <1>7 DEF PutSpace, Put, Drop
  <2> QED BY <1>0, <1>7, <2>1, <2>3, <2>4, <2>5 DEF PutSpace, TypedMemory, TypeOK, MemoryTyped
<1>8. CASE Flash
  <2>1. Mapped' = Mapped /\ (curr' = curr => At(curr)' = At(curr))
    BY <1>0, <1>8 DEF Flash, Mapped, At, count
  <2>2. morse \in Int
    BY <1>0, WordIs
  <2>3. Mark \in Symbols /\ Shifted \in Word
    <3>1. Mark = MarkOf(morse) /\ Shifted = Shift(morse)
      BY DEF Mark, Shifted, MarkOf, Shift
    <3> QED BY <1>0, <2>2, <3>1, ShiftedIs, WordIs
  <2>4. echo_fifo' \in Seq(Symbols) /\ Len(echo_fifo') <= FIFO_SIZE
    BY <1>0, <1>8, <2>3, PutTyped DEF Flash, Put, Drop
  <2>5. morse' \in Word
    BY <1>0, <1>8, <2>3, WordIs DEF Flash
  <2>6. led' \in BOOLEAN
    BY <1>0, <1>8, Zenon DEF Flash, Light
  <2>7. /\ dropped' \in BOOLEAN /\ dark' = 0 /\ pc = "flash"
        /\ curr' \in Int /\ pc' \in {"flash", "next"} /\ (pc' = "flash" => curr' = curr)
    <3>1. /\ dropped' \in BOOLEAN /\ dark' = 0 /\ pc = "flash"
          /\ (curr' = curr /\ pc' = "flash") \/ (curr' = curr + 1 /\ pc' = "next")
      BY <1>0, <1>8, Zenon DEF Flash, Put, Drop
    <3> QED BY <1>0, <3>1
  <2>8. UNCHANGED <<ledtrig, mem, start, end, spaces, result, writes, received, expected, stray>>
    BY <1>0, <1>8 DEF Flash
  <2> QED BY <1>0, <2>1, <2>4, <2>5, <2>6, <2>7, <2>8 DEF TypedMemory, TypeOK, MemoryTyped
<1>9. CASE FlashGap
  <2>1. Mapped' = Mapped /\ At(curr)' = At(curr)
    BY <1>0, <1>9 DEF FlashGap, Mapped, At, count
  <2>2. morse' \in Word
    <3>1. morse \in Int /\ 1 <= morse /\ morse <= TopBit - 1
      BY <1>0, <1>9, WordIs, Below DEF FlashGap
    <3>2. morse * 2 \in Int /\ 0 <= morse * 2 /\ morse * 2 <= 65535
      BY <1>0, <3>1 DEF TopBit
    <3> QED BY <1>0, <1>9, <3>2, WordIs DEF FlashGap
  <2>3. led' \in BOOLEAN /\ dark' \in Nat
    <3>1. led' \in BOOLEAN /\ dark' = dark + 1
      BY <1>0, <1>9, Zenon DEF FlashGap, Light
    <3>2. dark + 1 \in Nat
      BY <1>0
    <3> QED BY <3>1, <3>2
  <2>4. UNCHANGED <<ledtrig, echo_fifo, pc, mem, start, end, curr, spaces, result, writes, received,
                    expected, stray, dropped>>
    BY <1>0, <1>9 DEF FlashGap
  <2> QED BY <1>0, <2>1, <2>2, <2>3, <2>4 DEF TypedMemory, TypeOK, MemoryTyped
<1>10. CASE LetterEnds
  <2>1. curr' \in Int /\ pc' = "next" /\ mem' = mem
    BY <1>0, <1>10 DEF LetterEnds
  <2> QED BY <1>0, <1>10, <2>1 DEF LetterEnds, TypedMemory, TypeOK, MemoryTyped
<1>11. CASE WriteEnds
  <2>1. Newline \in Symbols
    BY DEF Symbols
  <2>2. echo_fifo' \in Seq(Symbols) /\ Len(echo_fifo') <= FIFO_SIZE
    BY <1>0, <1>11, <2>1, PutTyped DEF WriteEnds, Put, Drop
  <2>3. pc' = "idle" /\ result' \in {"count", "EFAULT"} /\ led' \in BOOLEAN /\ dropped' \in BOOLEAN
    BY <1>0, <1>11 DEF WriteEnds, Return, Light, Put, Drop
  <2> QED BY <1>0, <1>11, <2>2, <2>3 DEF WriteEnds, TypedMemory, TypeOK, MemoryTyped
<1> QED BY <1>1, <1>2, <1>3, <1>4, <1>5, <1>6, <1>7, <1>8, <1>9, <1>10, <1>11 DEF Next, my_write

\* A letter's word stays within 16 bits, a scan within mapped memory, the kfifo
\* within its size: whatever the texts and the memory around them (my_write).
THEOREM DriverTyped == Spec => []TypeOK
<1>1. Spec => []TypedMemory
  BY InitTyped, TypedStep, PTL DEF Spec
<1>2. TypedMemory => TypeOK
  BY DEF TypedMemory
<1> QED BY <1>1, <1>2, PTL
----------------------------------------------------------------------------
(***************************************************************************)
(* Sequences of symbols.                                                   *)
(***************************************************************************)
Starts(p, e) == \E r \in Seq(Symbols) : e = p \o r
Gaps(n) == [i \in 1 .. n |-> Gap]

LEMMA AppendIs ==
    ASSUME NEW s \in Seq(Symbols), NEW x \in Symbols
    PROVE  /\ Append(s, x) \in Seq(Symbols) /\ <<x>> \in Seq(Symbols)
           /\ Append(s, x) = s \o <<x>>
<1>1. Append(s, x) \in Seq(Symbols) /\ <<x>> \in Seq(Symbols)
  BY AppendProperties
<1>2. Append(s, x) = s \o <<x>>
  OBVIOUS
<1> QED BY <1>1, <1>2

LEMMA AppendInside ==
    ASSUME NEW s \in Seq(Symbols), NEW t \in Seq(Symbols), NEW x \in Symbols
    PROVE  Append(s \o t, x) = s \o Append(t, x)
<1> DEFINE y == <<x>>
           w == s \o t
<1>1. y \in Seq(Symbols) /\ w \in Seq(Symbols)
  BY AppendIs, ConcatProperties
<1>2. Append(w, x) = w \o y /\ Append(t, x) = t \o y
  BY <1>1, AppendIs
<1>3. w \o y = s \o (t \o y)
  <2> HIDE DEF y
  <2> QED BY <1>1, Associative, Zenon
<1> QED BY <1>2, <1>3

LEMMA StartsTwice ==
    ASSUME NEW p \in Seq(Symbols), NEW q, NEW e, Starts(p, q), Starts(q, e)
    PROVE  Starts(p, e)
<1>1. PICK r \in Seq(Symbols) : q = p \o r
  BY DEF Starts
<1>2. PICK u \in Seq(Symbols) : e = q \o u
  BY DEF Starts
<1>3. (p \o r) \o u = p \o (r \o u) /\ r \o u \in Seq(Symbols)
  BY Associative, ConcatProperties, Zenon
<1> QED BY <1>1, <1>2, <1>3, Zenon DEF Starts

LEMMA StartsAfter ==
    ASSUME NEW b \in Seq(Symbols), NEW p \in Seq(Symbols), NEW e, Starts(p, e)
    PROVE  Starts(b \o p, b \o e)
<1>1. PICK r \in Seq(Symbols) : e = p \o r
  BY DEF Starts
<1>2. (b \o p) \o r = b \o (p \o r)
  BY Associative, Zenon
<1> QED BY <1>1, <1>2, Zenon DEF Starts

LEMMA StartsItself ==
    ASSUME NEW p \in Seq(Symbols) PROVE Starts(p, p)
<1>1. p = p \o <<>> /\ <<>> \in Seq(Symbols)
  BY ConcatEmptySeq
<1> QED BY <1>1 DEF Starts

LEMMA StartsPrefix ==
    ASSUME NEW p \in Seq(Symbols), NEW e, Starts(p, e)
    PROVE  IsPrefix(p, e)
<1>1. PICK r \in Seq(Symbols) : e = p \o r
  BY DEF Starts
<1>2. /\ e \in Seq(Symbols) /\ Len(e) = Len(p) + Len(r) /\ Len(p) \in Nat /\ Len(r) \in Nat
      /\ \A i \in 1 .. Len(p) : e[i] = p[i]
  BY <1>1, ConcatProperties, LenProperties
<1> HIDE DEF Starts
<1>3. SubSeq(p, 1, Len(p)) = SubSeq(e, 1, Len(p)) /\ Len(p) <= Len(e)
  BY <1>2, SubSeqProperties
<1> QED BY <1>3 DEF IsPrefix

LEMMA GapsAre ==
    ASSUME NEW n \in Nat
    PROVE  /\ Gaps(n) \in Seq(Symbols) /\ Len(Gaps(n)) = n
           /\ Append(Gaps(n), Gap) = Gaps(n + 1)
<1>1. Gap \in Symbols
  BY DEF Symbols
<1>2. Gaps(n) \in Seq(Symbols) /\ Len(Gaps(n)) = n
  BY <1>1 DEF Gaps
<1>3. Append(Gaps(n), Gap) = Gaps(n + 1)
  BY <1>1, <1>2 DEF Gaps
<1> QED BY <1>2, <1>3

LEMMA GapsFew == Gaps(0) = <<>> /\ Gaps(1) = <<Gap>> /\ Gaps(3) = <<Gap, Gap, Gap>>
BY DEF Gaps

LEMMA GapsTogether ==
    ASSUME NEW n \in Nat, NEW m \in Nat PROVE Gaps(n + m) = Gaps(n) \o Gaps(m)
<1>1. /\ Gaps(n) \in Seq(Symbols) /\ Len(Gaps(n)) = n /\ Gaps(m) \in Seq(Symbols) /\ Len(Gaps(m)) = m
      /\ Gaps(n + m) \in Seq(Symbols) /\ Len(Gaps(n + m)) = n + m
  BY GapsAre
<1>2. \A i \in 1 .. n : Gaps(n)[i] = Gap
  BY DEF Gaps
<1>3. \A i \in 1 .. m : Gaps(m)[i] = Gap
  BY DEF Gaps
<1>4. \A i \in 1 .. n + m : Gaps(n + m)[i] = Gap
  BY DEF Gaps
<1> DEFINE w == Gaps(n) \o Gaps(m)
<1>5. /\ w \in Seq(Symbols) /\ Len(w) = n + m
      /\ \A i \in 1 .. n : w[i] = Gaps(n)[i]
      /\ \A i \in n + 1 .. n + m : w[i] = Gaps(m)[i - n]
  BY <1>1, ConcatProperties
<1> HIDE DEF w
<1>6. \A i \in 1 .. n + m : w[i] = Gap
  <2> SUFFICES ASSUME NEW i \in 1 .. n + m PROVE w[i] = Gap
    OBVIOUS
  <2>1. CASE i <= n
    BY <1>2, <1>5, <2>1
  <2>2. CASE i > n
    <3>1. i \in n + 1 .. n + m /\ i - n \in 1 .. m
      BY <2>2
    <3> QED BY <1>3, <1>5, <3>1
  <2> QED BY <2>1, <2>2
<1>7. w = Gaps(n + m)
  BY <1>1, <1>4, <1>5, <1>6, SeqEqual
<1> QED BY <1>7 DEF w
----------------------------------------------------------------------------
(***************************************************************************)
(* A text, and what is told of it.                                         *)
(***************************************************************************)
LEMMA AtText ==
    ASSUME mem \in Memory, NEW i \in Int, 0 <= i, i < count
    PROVE  i \in Mapped /\ At(i) = mem.text[i + 1]
<1>1. mem.text \in Seq(Char) /\ mem.before \in Seq(Char) /\ mem.after \in Seq(Char)
  BY DEF Memory
<1> DEFINE t == mem.text
           a == mem.after
<1>2. Len(t) \in Nat /\ Len(a) \in Nat /\ Len(mem.before) \in Nat /\ Len(t) = count
  BY <1>1, LenProperties DEF count
<1>3. i + 1 \in 1 .. Len(t)
  BY <1>2
<1>4. (t \o a)[i + 1] = t[i + 1]
  <2> HIDE DEF t, a
  <2> QED BY <1>1, <1>3, ConcatProperties DEF t, a
<1> HIDE DEF t, a
<1>5. i \in Mapped
  BY <1>2 DEF Mapped, t, a
<1> QED BY <1>4, <1>5 DEF At, t, a

LEMMA Said0 ==
    ASSUME NEW text \in Seq(Char), NEW i \in 0 .. Len(text)
    PROVE  Said(text)[i] \in Seq(Symbols) /\ Starts(Said(text)[i], Encode(text))
<1>1. Len(text) \in 0 .. Len(text) /\ Len(text) \in i .. Len(text)
  BY LenProperties
<1>2. Said(text)[i] \in Seq(Symbols) /\ Said(text)[Len(text)] \in Seq(Symbols)
  BY <1>1, SaidIs
<1>3. Starts(Said(text)[i], Said(text)[Len(text)])
  BY <1>1, SaidGrows DEF Starts
<1>4. <<Newline>> \in Seq(Symbols)
  BY DEF Symbols
<1>5. Starts(Said(text)[Len(text)], Encode(text))
  BY <1>4 DEF Starts, Encode
<1> QED BY <1>2, <1>3, <1>5, StartsTwice

\* The letter at place c + 1, of which n gaps and the marks said are over.
LEMMA LetterStarts ==
    ASSUME NEW text \in Seq(Char), NEW c \in Nat, c + 1 \in 1 .. Len(text), text[c + 1] \in Letters,
           NEW n \in Nat, NEW m \in Nat, NEW said \in Seq(Symbols),
           GapBefore(text, c + 1) = Gaps(n + m), Starts(said, Alphabet[text[c + 1]]),
           m # 0 => said = <<>>
    PROVE  /\ Starts(Said(text)[c] \o (Gaps(n) \o said), Said(text)[c + 1])
           /\ m = 0 /\ said = Alphabet[text[c + 1]]
                => Said(text)[c + 1] = Said(text)[c] \o (Gaps(n) \o said)
<1> DEFINE s == Said(text)[c]
           a == Alphabet[text[c + 1]]
           g == Gaps(n)
           h == Gaps(m)
           w == Said(text)[c + 1]
<1>1. s \in Seq(Symbols)
  BY LenProperties, SaidIs
<1>2. a \in Seq(Symbols) /\ g \in Seq(Symbols) /\ h \in Seq(Symbols)
  BY SymbolSeqs, GapsAre
<1>3. w = (s \o (g \o h)) \o a
  <2>1. (c + 1) - 1 = c
    OBVIOUS
  <2>2. w = (s \o GapBefore(text, c + 1)) \o a
    BY <2>1, SaidIs DEF Adds
  <2> QED BY <2>2, GapsTogether
<1>4. Starts(said, a) /\ (m # 0 => said = <<>>) /\ (m = 0 => h = <<>>)
  BY GapsFew
<1> HIDE DEF s, a, g, h, w
<1>5. g \o h \in Seq(Symbols) /\ g \o said \in Seq(Symbols)
  BY <1>2, ConcatProperties
<1>6. w = s \o ((g \o h) \o a) /\ (g \o h) \o a = g \o (h \o a)
  <2>1. (g \o h) \o a = g \o (h \o a)
    BY <1>2, Associative
  <2> DEFINE k == g \o h
  <2>2. k \in Seq(Symbols) /\ w = (s \o k) \o a
    BY <1>3, <1>5
  <2> HIDE DEF k
  <2>3. (s \o k) \o a = s \o (k \o a)
    BY <1>1, <1>2, <2>2, Associative, ZenonT(60)
  <2>4. w = s \o (k \o a)
    BY <2>2, <2>3
  <2> QED BY <2>1, <2>4 DEF k
<1>7. Starts(said, h \o a)
  <2>1. CASE m = 0
    BY <1>2, <1>4, <2>1, ConcatEmptySeq
  <2>2. CASE m # 0
    <3>1. h \o a \in Seq(Symbols)
      BY <1>2, ConcatProperties
    <3>2. h \o a = <<>> \o (h \o a)
      BY <3>1, ConcatEmptySeq
    <3> QED BY <1>4, <2>2, <3>1, <3>2 DEF Starts
  <2> QED BY <2>1, <2>2
<1>8. Starts(g \o said, g \o (h \o a))
  BY <1>2, <1>7, StartsAfter
<1>9. Starts(s \o (g \o said), w)
  BY <1>1, <1>5, <1>6, <1>8, StartsAfter
<1>10. m = 0 /\ said = a => w = s \o (g \o said)
  BY <1>2, <1>4, <1>6, ConcatEmptySeq
<1> QED BY <1>9, <1>10 DEF s, a, g, w

LEMMA Rest ==
    ASSUME NEW l \in Letters, NEW said \in Seq(Marks), NEW w, Coming(l, said, w) \/ Behind(l, said, w)
    PROVE  said \in Seq(Symbols) /\ Starts(said, Alphabet[l])
<1>1. said \in Seq(Symbols)
  <2>1. Marks \subseteq Symbols
    BY DEF Marks, Symbols
  <2> QED BY <2>1, SeqMonotonic
<1>2. ASSUME NEW v, Coming(l, said, v) PROVE Starts(said, Alphabet[l])
  <2>1. PICK r \in Letters : Alphabet[l] = said \o Alphabet[r]
    BY <1>2 DEF Coming
  <2>2. Alphabet[r] \in Seq(Symbols)
    BY SymbolSeqs
  <2> QED BY <2>1, <2>2 DEF Starts
<1>3. CASE said = Alphabet[l]
  BY <1>1, <1>3, StartsItself
<1> QED BY <1>1, <1>2, <1>3 DEF Behind
----------------------------------------------------------------------------
(***************************************************************************)
(* What readers were told.  d is what was delivered, p what should have    *)
(* been by then: d lacks symbols of p only if some were lost.              *)
(***************************************************************************)
Faithful(d, lost, p) == Subsequence(d, p) /\ (~lost => d = p)

LEMMA FaithfulAndOne ==
    ASSUME NEW d \in Seq(Symbols), NEW lost, NEW p \in Seq(Symbols), NEW x \in Symbols, Faithful(d, lost, p)
    PROVE  Faithful(Append(d, x), lost, Append(p, x))
BY SubsequenceAndOne DEF Faithful

LEMMA FaithfulLost ==
    ASSUME NEW d \in Seq(Symbols), NEW lost, NEW p \in Seq(Symbols), NEW e, Faithful(d, lost, p), Starts(p, e)
    PROVE  Faithful(d, TRUE, e)
BY SubsequenceOfMore DEF Faithful, Starts

LEMMA NothingLost == Faithful(<<>>, FALSE, <<>>)
<1>1. <<>> \in Seq(Symbols) /\ Len(<<>>) = 0
  OBVIOUS
<1>2. Matched(<<>>, <<>>)[0] = 0
  BY <1>1, MatchedIs
<1> QED BY <1>1, <1>2 DEF Faithful, Subsequence

LEMMA DeliveredIs == TypedMemory => Delivered \in Seq(Symbols)
BY ConcatProperties DEF TypedMemory, TypeOK, MemoryTyped, Delivered

LEMMA ReadKeeps == ASSUME TypedMemory, my_read PROVE Delivered' = Delivered
<1>1. PICK n \in 1 .. Len(echo_fifo) :
          /\ received' = received \o SubSeq(echo_fifo, 1, n)
          /\ echo_fifo' = SubSeq(echo_fifo, n + 1, Len(echo_fifo))
  BY DEF my_read
<1> DEFINE a == SubSeq(echo_fifo, 1, n)
           b == SubSeq(echo_fifo, n + 1, Len(echo_fifo))
<1>2. received \in Seq(Symbols) /\ echo_fifo \in Seq(Symbols) /\ Len(echo_fifo) \in Nat
  BY LenProperties DEF TypedMemory, TypeOK, MemoryTyped
<1>3. a \in Seq(Symbols) /\ b \in Seq(Symbols)
  BY <1>2, SubSeqProperties
<1>4. a \o b = echo_fifo
  <2>1. SubSeq(echo_fifo, 1, Len(echo_fifo)) = echo_fifo
    BY <1>2, SubSeqFull
  <2>2. SubSeq(echo_fifo, 1, n) \o SubSeq(echo_fifo, n + 1, Len(echo_fifo)) = SubSeq(echo_fifo, 1, Len(echo_fifo))
    <3>1. 1 \in 1 .. Len(echo_fifo) + 1 /\ n \in 1 - 1 .. Len(echo_fifo) /\ Len(echo_fifo) \in n .. Len(echo_fifo)
      BY <1>2
    <3> QED BY <1>2, <3>1, ConcatAdjacentSubSeq
  <2> QED BY <2>1, <2>2
<1> HIDE DEF a, b
<1>5. (received \o a) \o b = received \o (a \o b)
  BY <1>2, <1>3, Associative
<1> QED BY <1>1, <1>4, <1>5 DEF Delivered, a, b

LEMMA PutAdds ==
    ASSUME TypedMemory, NEW x \in Symbols, Put(x), received' = received
    PROVE  Delivered' = Append(Delivered, x) /\ dropped' = dropped
<1>1. received \in Seq(Symbols) /\ echo_fifo \in Seq(Symbols)
  BY DEF TypedMemory, TypeOK, MemoryTyped
<1>2. Append(received \o echo_fifo, x) = received \o Append(echo_fifo, x)
  BY <1>1, AppendInside
<1> QED BY <1>2 DEF Put, Delivered
----------------------------------------------------------------------------
(***************************************************************************)
(* The inductive invariant of ReadersGetTheText and OverflowOnlyLoses,     *)
(* while every text has a letter.  Behind base, what was expected before   *)
(* the text, the letters before curr are told, then n of the gaps and the  *)
(* marks said of the next one.                                             *)
(***************************************************************************)
TrimmedText ==
    /\ start \in Nat /\ end \in Nat /\ start < end /\ end <= count
    /\ mem.text[start + 1] \in Letters /\ mem.text[end] \in Letters
    /\ \A i \in 1 .. start : mem.text[i] \notin Letters
    /\ \A i \in end + 1 .. count : mem.text[i] \notin Letters

OnLetters ==
    /\ start <= curr /\ curr <= end
    /\ pc = "next" /\ curr > start => mem.text[curr] \in Letters
    /\ pc = "flash" => curr < end

InLetter(base, n, said) ==
    /\ Coming(At(curr), said, morse) \/ Behind(At(curr), said, morse)
    /\ spaces > 0 => said = <<>>
    /\ GapBefore(mem.text, curr + 1) = Gaps(n + spaces)
    /\ Faithful(Delivered, dropped, (base \o Said(mem.text)[curr]) \o (Gaps(n) \o said))

Told(base) ==
    /\ pc = "trim" => Faithful(Delivered, dropped, base)
    /\ pc = "next" => /\ TrimmedText /\ OnLetters
                      /\ Faithful(Delivered, dropped, base \o Said(mem.text)[curr])
    /\ pc = "flash" => /\ TrimmedText /\ OnLetters
                       /\ \E n \in Nat, said \in Seq(Marks) : InLetter(base, n, said)

Spoken ==
    ~stray => /\ pc = "idle" => Faithful(Delivered, dropped, expected)
              /\ pc # "idle" => /\ Worded(mem.text)
                                /\ \E base \in Seq(Symbols) :
                                      expected = base \o Encode(mem.text) /\ Told(base)

LEMMA StillTold ==
    ASSUME pc' # "idle", mem' = mem, expected' = expected, Worded(mem.text),
           NEW base \in Seq(Symbols), expected = base \o Encode(mem.text), Told(base)'
    PROVE  Spoken'
BY DEF Spoken

LEMMA InText ==
    ASSUME TypedMemory, TrimmedText, OnLetters
    PROVE  /\ mem \in Memory /\ mem.text \in Seq(Char) /\ count = Len(mem.text) /\ count \in Nat
           /\ curr \in Nat /\ curr \in 0 .. Len(mem.text)
           /\ pc = "flash" => /\ curr + 1 \in 1 .. Len(mem.text) /\ curr + 1 \in 0 .. Len(mem.text)
                              /\ At(curr) = mem.text[curr + 1] /\ At(curr) \in Letters
<1>1. mem \in Memory /\ curr \in Int /\ (pc = "flash" => At(curr) \in Letters)
  BY DEF TypedMemory, TypeOK, MemoryTyped
<1>2. mem.text \in Seq(Char) /\ count = Len(mem.text) /\ count \in Nat
  BY <1>1, LenProperties DEF Memory, count
<1>3. curr \in Nat /\ curr \in 0 .. Len(mem.text)
  BY <1>1, <1>2 DEF TrimmedText, OnLetters
<1>4. pc = "flash" => /\ curr + 1 \in 1 .. Len(mem.text) /\ curr + 1 \in 0 .. Len(mem.text)
                      /\ 0 <= curr /\ curr < count
  BY <1>1, <1>2, <1>3 DEF TrimmedText, OnLetters
<1> QED BY <1>1, <1>2, <1>3, <1>4, AtText

\* What should be told by now is how the expected symbols start.
LEMMA ToldStarts ==
    ASSUME TypedMemory, TrimmedText, OnLetters, NEW base \in Seq(Symbols)
    PROVE  /\ base \o Said(mem.text)[curr] \in Seq(Symbols)
           /\ Starts(base \o Said(mem.text)[curr], base \o Encode(mem.text))
           /\ pc = "flash" =>
                \A n \in Nat, said \in Seq(Marks) : InLetter(base, n, said) =>
                   LET p == (base \o Said(mem.text)[curr]) \o (Gaps(n) \o said) IN
                   /\ p \in Seq(Symbols) /\ said \in Seq(Symbols) /\ Starts(p, base \o Encode(mem.text))
                   /\ Starts(p, base \o Said(mem.text)[curr + 1])
                   /\ spaces = 0 /\ said = Alphabet[At(curr)] => base \o Said(mem.text)[curr + 1] = p
<1> DEFINE t == mem.text
           s == Said(t)[curr]
           e == Encode(t)
<1>1. t \in Seq(Char) /\ curr \in 0 .. Len(t) /\ curr \in Nat
  BY InText
<1>2. s \in Seq(Symbols) /\ Starts(s, e)
  BY <1>1, Said0
<1> HIDE DEF s, e
<1>3. base \o s \in Seq(Symbols) /\ Starts(base \o s, base \o e)
  BY <1>2, StartsAfter, ConcatProperties
<1>4. ASSUME pc = "flash", NEW n \in Nat, NEW said \in Seq(Marks), InLetter(base, n, said)
      PROVE  LET p == (base \o s) \o (Gaps(n) \o said) IN
             /\ p \in Seq(Symbols) /\ said \in Seq(Symbols) /\ Starts(p, base \o e)
             /\ Starts(p, base \o Said(t)[curr + 1])
             /\ spaces = 0 /\ said = Alphabet[At(curr)] => base \o Said(t)[curr + 1] = p
  <2> DEFINE g == Gaps(n) \o said
             w == Said(t)[curr + 1]
  <2>1. curr + 1 \in 1 .. Len(t) /\ curr + 1 \in 0 .. Len(t) /\ At(curr) = t[curr + 1] /\ t[curr + 1] \in Letters
    BY <1>4, InText
  <2>2. said \in Seq(Symbols) /\ Starts(said, Alphabet[t[curr + 1]])
    BY <1>4, <2>1, Rest DEF InLetter
  <2>3. g \in Seq(Symbols)
    BY <2>2, GapsAre, ConcatProperties
  <2>4. spaces \in Nat
    BY DEF TypedMemory, TypeOK
  <2>5. Starts(s \o g, w) /\ (spaces = 0 /\ said = Alphabet[t[curr + 1]] => w = s \o g)
    <3>1. spaces # 0 => said = <<>>
      BY <1>4, <2>4 DEF InLetter
    <3>2. GapBefore(t, curr + 1) = Gaps(n + spaces)
      BY <1>4 DEF InLetter
    <3> HIDE DEF t
    <3>3. t \in Seq(Char) /\ curr \in Nat /\ curr + 1 \in 1 .. Len(t) /\ t[curr + 1] \in Letters /\ said \in Seq(Symbols)
          /\ Starts(said, Alphabet[t[curr + 1]]) /\ spaces \in Nat
      BY <1>1, <2>1, <2>2, <2>4
    <3> QED BY <3>1, <3>2, <3>3, LetterStarts, ZenonT(60) DEF s
  <2>6. w \in Seq(Symbols) /\ Starts(w, e)
    BY <1>1, <2>1, Said0 DEF e
  <2> HIDE DEF g, w
  <2>7. s \o g \in Seq(Symbols) /\ (base \o s) \o g \in Seq(Symbols) /\ (base \o s) \o g = base \o (s \o g)
    BY <1>2, <1>3, <2>3, Associative, ConcatProperties
  <2>8. Starts(base \o (s \o g), base \o w)
    BY <2>5, <2>7, StartsAfter
  <2>9. Starts(base \o (s \o g), base \o e)
    BY <2>5, <2>6, <2>7, StartsTwice, StartsAfter
  <2> QED BY <2>1, <2>2, <2>5, <2>7, <2>8, <2>9 DEF g, w
<1> QED BY <1>3, <1>4 DEF s, e
LEMMA InitSpoken == Init => Spoken
<1>1. Init => Delivered = <<>> /\ dropped = FALSE /\ expected = <<>> /\ pc = "idle"
  <2>1. <<>> \o <<>> = <<>>
    OBVIOUS
  <2> QED BY <2>1 DEF Init, Delivered
<1> QED BY <1>1, NothingLost DEF Spoken

\* What neither tells nor goes on.
LEMMA SpokenKept ==
    ASSUME Spoken, Delivered' = Delivered,
           UNCHANGED <<mem, start, curr, end, spaces, morse, pc, expected, dropped, stray>>
    PROVE  Spoken'
<1>1. At(curr)' = At(curr) /\ count' = count
  BY DEF At, count
<1>2. TrimmedText' = TrimmedText /\ OnLetters' = OnLetters
  BY <1>1 DEF TrimmedText, OnLetters
<1>3. ASSUME NEW base, NEW n, NEW said PROVE InLetter(base, n, said)' = InLetter(base, n, said)
  BY <1>1 DEF InLetter
<1>4. ASSUME NEW base PROVE Told(base) => Told(base)'
  BY <1>2, <1>3 DEF Told
<1> QED BY <1>4 DEF Spoken

LEMMA StartSpoken == ASSUME TypedMemory, TypedMemory', Spoken, WriteStart PROVE Spoken'
<1> SUFFICES ASSUME ~stray' PROVE Spoken'
  BY DEF Spoken
<1> PICK base : base = expected
  OBVIOUS
<1>1. /\ pc = "idle" /\ pc' = "trim" /\ expected' = base \o Encode(mem'.text)
      /\ ~stray /\ Worded(mem'.text) /\ dropped' = dropped /\ Delivered' = Delivered
  BY DEF WriteStart, Delivered
<1>2. Faithful(Delivered', dropped', base) /\ base \in Seq(Symbols)
  BY <1>1 DEF Spoken, TypedMemory, MemoryTyped
<1>3. Told(base)'
  BY <1>1, <1>2 DEF Told
<1> QED BY <1>1, <1>2, <1>3 DEF Spoken

\* A text with a letter can be trimmed.
LEMMA TrimFinds ==
    ASSUME mem \in Memory, Worded(mem.text)
    PROVE  /\ 0 \in Mapped /\ LettersFrom(0) # {} /\ LettersBefore(count) # {}
           /\ LET s == Min(LettersFrom(0))
                  e == Max(LettersBefore(count)) + 1
              IN /\ s \in Nat /\ e \in Nat /\ s < e /\ e <= count
                 /\ mem.text[s + 1] \in Letters /\ mem.text[e] \in Letters
                 /\ \A i \in 1 .. s : mem.text[i] \notin Letters
                 /\ \A i \in e + 1 .. count : mem.text[i] \notin Letters
<1> DEFINE t == mem.text
           s == Min(LettersFrom(0))
           m == Max(LettersBefore(count))
<1>1. t \in Seq(Char) /\ count = Len(t) /\ count \in Nat
  BY Scans DEF Memory, count
<1>2. PICK k \in 1 .. count : t[k] \in Letters
  BY <1>1 DEF Worded
<1>3. \A i \in 1 .. count : /\ i - 1 \in Mapped /\ At(i - 1) = t[i]
                            /\ (t[i] \in Letters => i - 1 \in LettersFrom(0) /\ i - 1 \in LettersBefore(count))
  <2> SUFFICES ASSUME NEW i \in 1 .. count
               PROVE  /\ i - 1 \in Mapped /\ At(i - 1) = t[i]
                      /\ (t[i] \in Letters => i - 1 \in LettersFrom(0) /\ i - 1 \in LettersBefore(count))
    OBVIOUS
  <2>1. i - 1 \in Int /\ 0 <= i - 1 /\ i - 1 < count /\ (i - 1) + 1 = i
    BY <1>1
  <2>2. i - 1 \in Mapped /\ At(i - 1) = t[i]
    BY <2>1, AtText
  <2> QED BY <2>1, <2>2 DEF LettersFrom, LettersBefore
<1>4. k - 1 \in LettersFrom(0) /\ k - 1 \in LettersBefore(count)
  BY <1>2, <1>3
<1>5. /\ s \in LettersFrom(0) /\ \A j \in LettersFrom(0) : s <= j
      /\ m \in LettersBefore(count) /\ \A j \in LettersBefore(count) : j <= m
  BY <1>1, <1>4, Scans
<1>6. s \in Int /\ m \in Int /\ Mapped \subseteq Int
  <2>1. Mapped \subseteq Int
    BY <1>1, Scans
  <2>2. s \in Mapped /\ m \in Mapped
    <3> HIDE DEF s, m
    <3> QED BY <1>5 DEF LettersFrom, LettersBefore
  <2> HIDE DEF s, m
  <2> QED BY <2>1, <2>2
<1> HIDE DEF s, m
<1>7. 0 <= s /\ s <= k - 1 /\ k - 1 <= m /\ m < count
  BY <1>4, <1>5 DEF LettersFrom, LettersBefore
<1>8. t[s + 1] \in Letters /\ t[m + 1] \in Letters
  <2>1. s + 1 \in 1 .. count /\ m + 1 \in 1 .. count /\ (s + 1) - 1 = s /\ (m + 1) - 1 = m
    BY <1>1, <1>2, <1>6, <1>7
  <2>2. At(s) \in Letters /\ At(m) \in Letters
    BY <1>5 DEF LettersFrom, LettersBefore
  <2>3. At(s) = t[s + 1] /\ At(m) = t[m + 1]
    BY <1>3, <2>1
  <2> QED BY <2>2, <2>3
<1>9. \A i \in 1 .. s : t[i] \notin Letters
  <2> SUFFICES ASSUME NEW i \in 1 .. s, t[i] \in Letters PROVE FALSE
    OBVIOUS
  <2>1. i \in 1 .. count
    BY <1>1, <1>2, <1>6, <1>7
  <2>2. s <= i - 1
    BY <1>3, <1>5, <2>1
  <2> QED BY <1>6, <2>2
<1>10. \A i \in m + 2 .. count : t[i] \notin Letters
  <2> SUFFICES ASSUME NEW i \in m + 2 .. count, t[i] \in Letters PROVE FALSE
    OBVIOUS
  <2>1. i \in 1 .. count
    BY <1>1, <1>2, <1>6, <1>7
  <2>2. i - 1 <= m
    BY <1>3, <1>5, <2>1
  <2> QED BY <1>6, <2>2
<1>11. 0 \in Mapped
  <2>1. 1 \in 1 .. count /\ 1 - 1 = 0
    BY <1>1, <1>2
  <2> QED BY <1>3, <2>1
<1>12. s \in Nat /\ m + 1 \in Nat /\ s < m + 1 /\ m + 1 <= count /\ (m + 1) + 1 = m + 2
  BY <1>1, <1>2, <1>6, <1>7
<1> QED BY <1>4, <1>8, <1>9, <1>10, <1>11, <1>12 DEF s, m

LEMMA TrimSpoken == ASSUME TypedMemory, TypedMemory', Spoken, Trim PROVE Spoken'
<1> SUFFICES ASSUME ~stray PROVE Spoken'
  BY DEF Spoken, Trim, history
<1>1. pc = "trim" /\ mem \in Memory /\ mem' = mem /\ expected' = expected /\ dropped' = dropped
      /\ Delivered' = Delivered
  BY DEF Trim, history, TypedMemory, MemoryTyped, Delivered
<1>2. PICK base \in Seq(Symbols) : expected = base \o Encode(mem.text) /\ Told(base)
  BY <1>1 DEF Spoken
<1>3. Worded(mem.text)
  BY <1>1 DEF Spoken
<1>4. Faithful(Delivered, dropped, base)
  BY <1>1, <1>2 DEF Told
<1>5. /\ pc' = "next" /\ start' = Min(LettersFrom(0)) /\ end' = Max(LettersBefore(count)) + 1
      /\ curr' = start'
  BY <1>1, <1>3, TrimFinds DEF Trim
<1>6. TrimmedText' /\ OnLetters'
  <2>1. count' = count
    BY <1>1 DEF count
  <2> QED BY <1>1, <1>3, <1>5, <2>1, TrimFinds DEF TrimmedText, OnLetters
<1>7. mem.text \in Seq(Char) /\ start' \in 0 .. Len(mem.text) /\ \A i \in 1 .. start' : mem.text[i] \notin Letters
  BY <1>1, <1>3, <1>5, TrimFinds DEF Memory, count
<1>8. Said(mem.text)[start'] = <<>>
  <2>1. 0 \in 0 .. Len(mem.text) /\ start' \in 0 .. Len(mem.text) /\ 0 + 1 = 1
    BY <1>7
  <2>2. Said(mem.text)[start'] = Said(mem.text)[0]
    <3> DEFINE t == mem.text
               z == 0
               k == start'
    <3>1. t \in Seq(Char) /\ z \in 0 .. Len(t) /\ k \in z .. Len(t) /\ \A i \in z + 1 .. k : t[i] \notin Letters
      BY <1>7, <2>1
    <3> HIDE DEF t, z, k
    <3>2. Said(t)[k] = Said(t)[z]
      BY <3>1, SaidSame
    <3> QED BY <3>2 DEF t, z, k
  <2> QED BY <1>7, <2>2, SaidIs
<1>9. Faithful(Delivered', dropped', base \o Said(mem'.text)[curr'])
  BY <1>1, <1>4, <1>5, <1>8, ConcatEmptySeq
<1>10. Told(base)'
  BY <1>5, <1>6, <1>9 DEF Told
<1> QED BY <1>1, <1>2, <1>3, <1>5, <1>10, StillTold
\* The scan for the next letter of a trimmed text stays in it.
LEMMA NextFinds ==
    ASSUME TypedMemory, TrimmedText, OnLetters, curr < end
    PROVE  LET c == Min(LettersFrom(curr)) IN
           /\ LettersFrom(curr) # {} /\ c \in Nat /\ curr <= c /\ c < end
           /\ mem.text[c + 1] \in Letters /\ At(c) = mem.text[c + 1]
           /\ \A i \in curr + 1 .. c : mem.text[i] \notin Letters
           /\ \A i \in curr .. c - 1 : At(i) = mem.text[i + 1]
<1> DEFINE t == mem.text
           c == Min(LettersFrom(curr))
<1>1. /\ mem \in Memory /\ t \in Seq(Char) /\ count = Len(t) /\ count \in Nat /\ curr \in Nat
      /\ end \in Nat /\ end <= count /\ t[end] \in Letters
  BY InText DEF TrimmedText
<1>2. \A i \in 0 .. count - 1 : i \in Mapped /\ At(i) = t[i + 1]
  <2> SUFFICES ASSUME NEW i \in 0 .. count - 1 PROVE i \in Mapped /\ At(i) = t[i + 1]
    OBVIOUS
  <2>1. i \in Int /\ 0 <= i /\ i < count
    BY <1>1
  <2> QED BY <1>1, <2>1, AtText
<1>3. end - 1 \in LettersFrom(curr)
  <2>1. end - 1 \in 0 .. count - 1 /\ (end - 1) + 1 = end /\ end - 1 >= curr
    BY <1>1
  <2> QED BY <1>1, <1>2, <2>1 DEF LettersFrom
<1>4. c \in LettersFrom(curr) /\ \A j \in LettersFrom(curr) : c <= j
  BY <1>1, <1>3, Scans
<1>5. Mapped \subseteq Int
  BY <1>1, Scans
<1> HIDE DEF c
<1>6. c \in Int /\ c >= curr /\ At(c) \in Letters
  BY <1>4, <1>5 DEF LettersFrom
<1>7. c <= end - 1
  BY <1>3, <1>4
<1>8. c \in Nat /\ curr <= c /\ c < end /\ c \in 0 .. count - 1
  BY <1>1, <1>6, <1>7
<1>9. At(c) = t[c + 1]
  BY <1>2, <1>8
<1>10. \A i \in curr .. c - 1 : i \in 0 .. count - 1 /\ At(i) = t[i + 1]
  BY <1>1, <1>2, <1>8
<1>11. \A i \in curr + 1 .. c : t[i] \notin Letters
  <2> SUFFICES ASSUME NEW i \in curr + 1 .. c, t[i] \in Letters PROVE FALSE
    OBVIOUS
  <2>1. i - 1 \in 0 .. count - 1 /\ i - 1 >= curr /\ (i - 1) + 1 = i /\ ~(c <= i - 1)
    BY <1>1, <1>8
  <2>2. i - 1 \in LettersFrom(curr)
    BY <1>2, <2>1 DEF LettersFrom
  <2> QED BY <1>4, <2>1, <2>2
<1> QED BY <1>3, <1>6, <1>8, <1>9, <1>10, <1>11 DEF c

\* The pause the code makes before it is the gap of the standard code.
LEMMA NextPauses ==
    ASSUME TypedMemory, TrimmedText, OnLetters, pc = "next", curr < end
    PROVE  LET c == Min(LettersFrom(curr))
               n == IF \E i \in curr .. c - 1 : At(i) = Blank THEN 3 ELSE IF c # start THEN 1 ELSE 0
           IN n \in Nat /\ GapBefore(mem.text, c + 1) = Gaps(n)
<1> DEFINE t == mem.text
           c == Min(LettersFrom(curr))
           Blanks == \E i \in curr .. c - 1 : At(i) = Blank
<1>1. /\ c \in Nat /\ curr <= c /\ t[c + 1] \in Letters
      /\ \A i \in curr + 1 .. c : t[i] \notin Letters
      /\ \A i \in curr .. c - 1 : At(i) = t[i + 1]
  BY NextFinds
<1>2. curr \in Nat /\ start \in Nat /\ start <= curr /\ t[start + 1] \in Letters
      /\ (curr > start => t[curr] \in Letters) /\ \A i \in 1 .. start : t[i] \notin Letters
  BY InText DEF TrimmedText, OnLetters
<1> HIDE DEF c
<1> HIDE DEF t
<1>3. (c + 1) - 1 = c
  BY <1>1
<1>4. Blank \notin Letters
  BY DEF Blank, Letters
<1>5. CASE c = start
  <2>1. curr = c
    BY <1>1, <1>2, <1>5
  <2>2. ~Blanks
    BY <1>1, <2>1
  <2>3. GapBefore(t, c + 1) = <<>>
    BY <1>2, <1>3, <1>5 DEF GapBefore
  <2> QED BY <1>5, <2>2, <2>3, GapsFew DEF c, t
<1>6. CASE c # start
  <2>1. start + 1 \in 1 .. c
    BY <1>1, <1>2, <1>6
  <2>2. ~\A i \in 1 .. c : t[i] \notin Letters
    BY <1>2, <2>1
  <2>3. CASE Blanks
    <3>1. PICK i \in curr .. c - 1 : At(i) = Blank
      BY <2>3
    <3>2. i + 1 \in 1 .. c /\ t[i + 1] = Blank /\ \A j \in i + 1 .. c : t[j] \notin Letters
      BY <1>1, <1>2, <3>1
    <3>3. GapBefore(t, c + 1) = <<Gap, Gap, Gap>>
      BY <1>3, <2>2, <3>2 DEF GapBefore
    <3> QED BY <2>3, <3>3, GapsFew DEF c, t
  <2>4. CASE ~Blanks
    <3>1. ~\E i \in 1 .. c : t[i] = Blank /\ \A j \in i .. c : t[j] \notin Letters
      <4> SUFFICES ASSUME NEW i \in 1 .. c, t[i] = Blank, \A j \in i .. c : t[j] \notin Letters
                   PROVE  FALSE
        OBVIOUS
      <4>1. CASE i > curr
        <5>1. i - 1 \in curr .. c - 1 /\ (i - 1) + 1 = i
          BY <1>1, <1>2, <4>1
        <5> QED BY <1>1, <2>4, <5>1
      <4>2. CASE i <= curr /\ curr > start
        <5>1. curr \in i .. c
          BY <1>1, <1>2, <4>2
        <5> QED BY <1>2, <4>2, <5>1
      <4>3. CASE i <= curr /\ curr = start
        <5>1. start + 1 \in i .. c
          BY <1>1, <1>2, <2>1, <4>3
        <5> QED BY <1>2, <5>1
      <4> QED BY <1>2, <4>1, <4>2, <4>3
    <3>2. GapBefore(t, c + 1) = <<Gap>>
      BY <1>3, <2>2, <3>1 DEF GapBefore
    <3> QED BY <1>6, <2>4, <3>2, GapsFew DEF c, t
  <2> QED BY <2>3, <2>4
<1> QED BY <1>5, <1>6

LEMMA NextSpoken == ASSUME TypedMemory, TypedMemory', Spoken, NextLetter PROVE Spoken'
<1> SUFFICES ASSUME ~stray PROVE Spoken'
  BY DEF Spoken, NextLetter, history
<1>1. /\ pc = "next" /\ curr < end /\ mem' = mem /\ start' = start /\ end' = end
      /\ expected' = expected /\ dropped' = dropped /\ Delivered' = Delivered
  BY DEF NextLetter, scan, history, Delivered
<1>2. PICK base \in Seq(Symbols) : expected = base \o Encode(mem.text) /\ Told(base)
  BY <1>1 DEF Spoken
<1>3. Worded(mem.text)
  BY <1>1 DEF Spoken
<1>4. TrimmedText /\ OnLetters /\ Faithful(Delivered, dropped, base \o Said(mem.text)[curr])
  BY <1>1, <1>2 DEF Told
<1> DEFINE c == Min(LettersFrom(curr))
           Blanks == \E i \in curr .. c - 1 : At(i) = Blank
           g == IF Blanks THEN 3 ELSE IF c # start THEN 1 ELSE 0
<1>5. /\ LettersFrom(curr) # {} /\ c \in Nat /\ curr <= c /\ c < end
      /\ mem.text[c + 1] \in Letters /\ At(c) = mem.text[c + 1]
      /\ \A i \in curr + 1 .. c : mem.text[i] \notin Letters
  BY <1>1, <1>4, NextFinds
<1>6. g \in Nat /\ GapBefore(mem.text, c + 1) = Gaps(g)
  BY <1>1, <1>4, NextPauses
<1>7. curr' = c /\ morse' = morsecode_codes[At(curr')] /\ spaces' = g /\ pc' = "flash"
  BY <1>5 DEF NextLetter
<1> HIDE DEF g, c
<1>8. At(curr)' = At(c) /\ At(curr') = At(c) /\ count' = count
  BY <1>1, <1>7 DEF At, count
<1>9. TrimmedText' /\ OnLetters'
  <2>1. TrimmedText'
    BY <1>1, <1>4, <1>8 DEF TrimmedText
  <2>2. OnLetters'
    BY <1>1, <1>4, <1>5, <1>7, InText DEF OnLetters, TrimmedText
  <2> QED BY <2>1, <2>2
<1>10. Said(mem.text)[c] = Said(mem.text)[curr]
  <2>1. /\ mem.text \in Seq(Char) /\ curr \in 0 .. Len(mem.text) /\ count = Len(mem.text) /\ curr \in Nat
        /\ end \in Nat /\ end <= count
    BY <1>4, InText DEF TrimmedText
  <2>2. c \in curr .. Len(mem.text)
    BY <1>5, <2>1
  <2> QED BY <1>5, <2>1, <2>2, SaidSame
<1> DEFINE a == Alphabet[mem.text[c + 1]]
           z == <<>>
<1>11. Coming(mem.text[c + 1], z, morse')
  <2>1. a = <<>> \o a
    <3>1. a \in Seq(Symbols)
      BY <1>5, SymbolSeqs
    <3> QED BY <3>1, ConcatEmptySeq
  <2> QED BY <1>5, <1>7, <1>8, <2>1 DEF Coming
<1>12. z \in Seq(Marks)
  OBVIOUS
<1>13. (base \o Said(mem.text)[c]) \o (Gaps(0) \o z) = base \o Said(mem.text)[curr]
  <2>1. base \o Said(mem.text)[curr] \in Seq(Symbols)
    BY <1>4, ToldStarts
  <2>2. Gaps(0) \o z = <<>>
    BY GapsFew
  <2> QED BY <1>10, <2>1, <2>2, ConcatEmptySeq
<1>14. InLetter(base, 0, z)'
  <2>1. Coming(At(curr), z, morse)'
    BY <1>5, <1>8, <1>11 DEF Coming
  <2>2. GapBefore(mem.text, curr + 1)' = Gaps(0 + spaces)'
    BY <1>1, <1>6, <1>7
  <2>3. Faithful(Delivered', dropped', (base \o Said(mem'.text)[curr']) \o (Gaps(0) \o z))
    BY <1>1, <1>4, <1>7, <1>13
  <2> QED BY <2>1, <2>2, <2>3 DEF InLetter
<1>15. Told(base)'
  <2> HIDE DEF z
  <2> QED BY <1>7, <1>9, <1>12, <1>14 DEF Told
<1> QED BY <1>1, <1>2, <1>3, <1>7, <1>15, StillTold
LEMMA InLetterNow ==
    ASSUME TypedMemory, Spoken, ~stray, pc = "flash"
    PROVE  /\ Worded(mem.text) /\ TrimmedText /\ OnLetters /\ At(curr) \in Letters
           /\ \E base \in Seq(Symbols), n \in Nat, said \in Seq(Marks) :
                 expected = base \o Encode(mem.text) /\ InLetter(base, n, said)
<1>1. PICK base \in Seq(Symbols) : expected = base \o Encode(mem.text) /\ Told(base)
  BY DEF Spoken
<1>2. TrimmedText /\ OnLetters /\ \E n \in Nat, said \in Seq(Marks) : InLetter(base, n, said)
  BY <1>1 DEF Told
<1>3. At(curr) \in Letters
  BY <1>2, InText
<1> QED BY <1>1, <1>2, <1>3 DEF Spoken

\* The word of a letter has its top bit just when a mark is next.
LEMMA TopBitIs ==
    ASSUME NEW l \in Letters, NEW said, NEW w, Coming(l, said, w) \/ Behind(l, said, w)
    PROVE  /\ Coming(l, said, w) => w \in Int /\ w >= TopBit /\ w # 0
           /\ ~Coming(l, said, w) => ~(w \in Int /\ w >= TopBit)
           /\ w = 0 => said = Alphabet[l]
           /\ w \in 1 .. TopBit - 1 => said # <<>> /\ Coming(l, said, 2 * w)
<1>1. ASSUME NEW v, Coming(l, said, v) PROVE v \in Int /\ v >= 32768 /\ v <= 65535
  BY <1>1, CodesAreWords DEF Coming
<1>2. TopBit = 32768
  BY DEF TopBit
<1>3. Coming(l, said, w) => w \in Int /\ w >= TopBit /\ w # 0
  BY <1>1, <1>2
<1>4. ASSUME ~Coming(l, said, w), w \in Int, w >= TopBit PROVE FALSE
  <2>1. Behind(l, said, w)
    BY <1>4
  <2>2. Coming(l, said, 2 * w) => 2 * w <= 65535
    BY <1>1
  <2>3. ~(2 * w <= 65535) /\ w # 0
    BY <1>2, <1>4
  <2> QED BY <2>1, <2>2, <2>3 DEF Behind
<1>5. ASSUME w = 0 PROVE said = Alphabet[l]
  <2>1. Behind(l, said, w)
    BY <1>3, <1>5
  <2>2. ~Coming(l, said, 2 * w)
    <3>1. 2 * w = 0 /\ ~(0 >= 32768)
      BY <1>5
    <3> QED BY <1>1, <3>1
  <2> QED BY <2>1, <2>2 DEF Behind
<1>6. ASSUME w \in 1 .. TopBit - 1 PROVE said # <<>> /\ Coming(l, said, 2 * w)
  <2>1. w \in Int /\ 1 <= w /\ w <= TopBit - 1
    BY <1>6, Below
  <2>2. ~(w >= TopBit) /\ w # 0
    BY <1>2, <2>1
  <2>3. Behind(l, said, w)
    BY <1>3, <2>2
  <2> QED BY <2>2, <2>3 DEF Behind
<1> QED BY <1>3, <1>4, <1>5, <1>6

LEMMA PutSpaceSpoken == ASSUME TypedMemory, TypedMemory', Spoken, PutSpace PROVE Spoken'
<1> SUFFICES ASSUME ~stray PROVE Spoken'
  BY DEF Spoken, PutSpace, history
<1>1. /\ pc = "flash" /\ spaces > 0 /\ mem' = mem /\ start' = start /\ end' = end /\ curr' = curr
      /\ morse' = morse /\ expected' = expected /\ received' = received /\ stray' = stray
  BY DEF PutSpace, scan, history
<1>2. PICK base \in Seq(Symbols), n \in Nat, said \in Seq(Marks) :
          expected = base \o Encode(mem.text) /\ InLetter(base, n, said)
  BY <1>1, InLetterNow
<1>3. Worded(mem.text) /\ TrimmedText /\ OnLetters
  BY <1>1, InLetterNow
<1> DEFINE p == (base \o Said(mem.text)[curr]) \o (Gaps(n) \o said)
<1>4. /\ p \in Seq(Symbols) /\ Starts(p, expected) /\ Faithful(Delivered, dropped, p)
      /\ said = <<>> /\ Delivered \in Seq(Symbols) /\ Gap \in Symbols
  BY <1>1, <1>2, <1>3, ToldStarts, DeliveredIs DEF InLetter, Symbols
<1>5. CASE Drop /\ Return("EFAULT")
  <2>1. pc' = "idle" /\ dropped' = TRUE /\ Delivered' = Delivered
    BY <1>1, <1>5 DEF Drop, Return, Delivered
  <2> HIDE DEF p
  <2>2. Faithful(Delivered, TRUE, expected)
    BY <1>4, FaithfulLost
  <2> QED BY <1>1, <2>1, <2>2 DEF Spoken
<1>6. CASE ~Full /\ Put(Gap) /\ spaces' = spaces - 1 /\ UNCHANGED <<pc, result>>
  <2>1. Delivered' = Append(Delivered, Gap) /\ dropped' = dropped
    BY <1>1, <1>4, <1>6, PutAdds
  <2>2. Faithful(Delivered', dropped', Append(p, Gap))
    <3> HIDE DEF p
    <3> QED BY <1>4, <2>1, FaithfulAndOne
  <2>3. Append(p, Gap) = (base \o Said(mem.text)[curr]) \o (Gaps(n + 1) \o said)
    <3> DEFINE b == base \o Said(mem.text)[curr]
               a == Gaps(n)
    <3>1. b \in Seq(Symbols) /\ a \in Seq(Symbols) /\ Append(a, Gap) = Gaps(n + 1) /\ Gaps(n + 1) \in Seq(Symbols)
      <4>1. b \in Seq(Symbols)
        BY <1>3, ToldStarts
      <4>2. n + 1 \in Nat
        OBVIOUS
      <4> QED BY <4>1, <4>2, GapsAre
    <3> HIDE DEF a, b
    <3>2. Append(b \o a, Gap) = b \o Append(a, Gap)
      <4>1. Gap \in Symbols
        BY <1>4
      <4> QED BY <3>1, <4>1, AppendInside
    <3>3. a \o said = a /\ Gaps(n + 1) \o said = Gaps(n + 1)
      BY <1>4, <3>1, ConcatEmptySeq
    <3> QED BY <3>1, <3>2, <3>3 DEF a, b
  <2> HIDE DEF p
  <2>4. InLetter(base, n + 1, said)'
    <3>1. At(curr)' = At(curr)
      BY <1>1 DEF At
    <3>2. n + spaces = (n + 1) + spaces'
      BY <1>6 DEF TypedMemory, TypeOK
    <3>3. Coming(At(curr)', said, morse') \/ Behind(At(curr)', said, morse')
      BY <1>1, <1>2, <3>1 DEF InLetter
    <3>4. GapBefore(mem'.text, curr' + 1) = Gaps((n + 1) + spaces')
      BY <1>1, <1>2, <3>2 DEF InLetter
    <3>5. Faithful(Delivered', dropped', (base \o Said(mem'.text)[curr']) \o (Gaps(n + 1) \o said))
      BY <1>1, <2>2, <2>3
    <3> QED BY <1>4, <3>3, <3>4, <3>5 DEF InLetter
  <2>5. TrimmedText' /\ OnLetters'
    <3>1. count' = count /\ pc' = pc
      BY <1>1, <1>6 DEF count
    <3> QED BY <1>1, <1>3, <3>1 DEF TrimmedText, OnLetters
  <2>6. pc' = "flash" /\ n + 1 \in Nat
    BY <1>1, <1>6
  <2>7. Told(base)'
    BY <2>4, <2>5, <2>6 DEF Told
  <2> QED BY <1>1, <1>2, <1>3, <2>6, <2>7, StillTold
<1> QED BY <1>5, <1>6 DEF PutSpace
LEMMA FlashSpoken == ASSUME TypedMemory, TypedMemory', Spoken, Flash PROVE Spoken'
<1> SUFFICES ASSUME ~stray PROVE Spoken'
  BY DEF Spoken, Flash, history
<1>1. /\ pc = "flash" /\ spaces = 0 /\ morse >= TopBit /\ mem' = mem /\ start' = start /\ end' = end
      /\ spaces' = spaces /\ expected' = expected /\ received' = received /\ stray' = stray
  BY DEF Flash, scan, history
<1>2. PICK base \in Seq(Symbols), n \in Nat, said \in Seq(Marks) :
          expected = base \o Encode(mem.text) /\ InLetter(base, n, said)
  BY <1>1, InLetterNow
<1>3. Worded(mem.text) /\ TrimmedText /\ OnLetters /\ At(curr) \in Letters
  BY <1>1, InLetterNow
<1> DEFINE p == (base \o Said(mem.text)[curr]) \o (Gaps(n) \o said)
           x == MarkOf(morse)
<1>4. /\ p \in Seq(Symbols) /\ said \in Seq(Symbols) /\ Starts(p, base \o Said(mem.text)[curr + 1])
      /\ Faithful(Delivered, dropped, p) /\ Delivered \in Seq(Symbols)
  BY <1>1, <1>2, <1>3, ToldStarts, DeliveredIs DEF InLetter
<1>5. Coming(At(curr), said, morse)
  <2>1. morse \in Int
    BY WordIs DEF TypedMemory, TypeOK
  <2> QED BY <1>1, <1>2, <1>3, <2>1, TopBitIs DEF InLetter
<1>6. x \in Marks /\ x \in Symbols /\ Behind(At(curr), Append(said, x), Shift(morse))
  <2>1. Marks \subseteq Symbols
    BY DEF Marks, Symbols
  <2> QED BY <1>3, <1>5, <2>1, MarkFlashed
<1>7. Mark = x /\ Shifted = Shift(morse)
  BY DEF Mark, Shifted, MarkOf, Shift
<1> HIDE DEF x
<1>8. CASE Drop /\ morse' = 0 /\ pc' = "next" /\ curr' = curr + 1
  <2>1. pc' = "next" /\ curr' = curr + 1 /\ dropped' = TRUE /\ Delivered' = Delivered
    BY <1>1, <1>8 DEF Drop, Delivered
  <2>2. Faithful(Delivered, TRUE, base \o Said(mem.text)[curr + 1])
    <3> DEFINE e == base \o Said(mem.text)[curr + 1]
    <3>1. Starts(p, e)
      BY <1>4
    <3> HIDE DEF p, e
    <3>2. Faithful(Delivered, TRUE, e)
      BY <1>4, <3>1, FaithfulLost
    <3> QED BY <3>2 DEF e
  <2>3. TrimmedText' /\ OnLetters'
    <3>1. count' = count /\ curr \in Nat /\ At(curr) = mem.text[curr + 1]
      BY <1>1, <1>3, InText DEF count
    <3>2. TrimmedText'
      BY <1>1, <1>3, <3>1 DEF TrimmedText
    <3>3. OnLetters'
      BY <1>1, <1>3, <2>1, <3>1 DEF TrimmedText, OnLetters
    <3> QED BY <3>2, <3>3
  <2>4. Told(base)'
    BY <1>1, <2>1, <2>2, <2>3 DEF Told
  <2> QED BY <1>1, <1>2, <1>3, <2>1, <2>4, StillTold
<1>9. CASE ~Full /\ Put(Mark) /\ morse' = Shifted /\ UNCHANGED <<pc, curr>>
  <2>1. Delivered' = Append(Delivered, x) /\ dropped' = dropped
    BY <1>1, <1>6, <1>7, <1>9, PutAdds
  <2>2. Faithful(Delivered', dropped', Append(p, x))
    <3> HIDE DEF p
    <3> QED BY <1>4, <1>6, <2>1, FaithfulAndOne
  <2>3. Append(p, x) = (base \o Said(mem.text)[curr]) \o (Gaps(n) \o Append(said, x))
    <3> DEFINE b == base \o Said(mem.text)[curr]
               a == Gaps(n)
               w == a \o said
    <3>1. b \in Seq(Symbols)
      BY <1>3, ToldStarts
    <3>2. a \in Seq(Symbols)
      BY GapsAre
    <3>3. w \in Seq(Symbols)
      BY <1>4, <3>2, ConcatProperties
    <3> HIDE DEF a, b
    <3>4. Append(w, x) = a \o Append(said, x)
      BY <1>4, <1>6, <3>2, AppendInside
    <3> HIDE DEF w
    <3>5. Append(b \o w, x) = b \o Append(w, x)
      BY <1>6, <3>1, <3>3, AppendInside
    <3> QED BY <3>4, <3>5 DEF a, b, w
  <2> HIDE DEF p
  <2> PICK more : more = Append(said, x)
    OBVIOUS
  <2>4. InLetter(base, n, more)'
    <3>1. At(curr)' = At(curr) /\ curr' = curr /\ morse' = Shift(morse) /\ spaces' = 0
      BY <1>1, <1>7, <1>9 DEF At
    <3>2. Behind(At(curr)', more, morse')
      BY <1>6, <3>1
    <3>3. GapBefore(mem'.text, curr' + 1) = Gaps(n + spaces')
      BY <1>1, <1>2, <3>1 DEF InLetter
    <3>4. Faithful(Delivered', dropped', (base \o Said(mem'.text)[curr']) \o (Gaps(n) \o more))
      BY <1>1, <2>2, <2>3, <3>1
    <3> QED BY <3>1, <3>2, <3>3, <3>4 DEF InLetter
  <2>5. TrimmedText' /\ OnLetters'
    <3>1. count' = count /\ pc' = pc /\ curr' = curr
      BY <1>1, <1>9 DEF count
    <3> QED BY <1>1, <1>3, <3>1 DEF TrimmedText, OnLetters
  <2>6. pc' = "flash" /\ more \in Seq(Marks)
    BY <1>1, <1>6, <1>9, AppendProperties
  <2>7. Told(base)'
    <3> QED BY <2>4, <2>5, <2>6 DEF Told
  <2> QED BY <1>1, <1>2, <1>3, <2>6, <2>7, StillTold
<1> QED BY <1>8, <1>9, Zenon DEF Flash
LEMMA FlashGapSpoken == ASSUME TypedMemory, TypedMemory', Spoken, FlashGap PROVE Spoken'
<1> SUFFICES ASSUME ~stray PROVE Spoken'
  BY DEF Spoken, FlashGap, history
<1>1. /\ pc = "flash" /\ pc' = "flash" /\ spaces = 0 /\ morse \in 1 .. TopBit - 1 /\ morse' = morse * 2
      /\ mem' = mem /\ start' = start /\ end' = end /\ curr' = curr /\ spaces' = spaces
      /\ expected' = expected /\ dropped' = dropped /\ Delivered' = Delivered
  BY DEF FlashGap, scan, history, Delivered
<1>2. PICK base \in Seq(Symbols), n \in Nat, said \in Seq(Marks) :
          expected = base \o Encode(mem.text) /\ InLetter(base, n, said)
  BY <1>1, InLetterNow
<1>3. Worded(mem.text) /\ TrimmedText /\ OnLetters /\ At(curr) \in Letters
  BY <1>1, InLetterNow
<1>4. At(curr)' = At(curr) /\ count' = count
  BY <1>1 DEF At, count
<1>5. Coming(At(curr), said, morse')
  <2>1. Coming(At(curr), said, 2 * morse)
    BY <1>1, <1>2, <1>3, TopBitIs DEF InLetter
  <2>2. morse * 2 = 2 * morse
    <3>1. morse \in Int
      BY WordIs DEF TypedMemory, TypeOK
    <3> QED BY <3>1
  <2> QED BY <1>1, <2>1, <2>2
<1>6. InLetter(base, n, said)'
  BY <1>1, <1>2, <1>4, <1>5 DEF InLetter
<1>7. TrimmedText' /\ OnLetters'
  BY <1>1, <1>3, <1>4 DEF TrimmedText, OnLetters
<1>8. Told(base)'
  BY <1>1, <1>6, <1>7 DEF Told
<1> QED BY <1>1, <1>2, <1>3, <1>8, StillTold

LEMMA LetterEndsSpoken == ASSUME TypedMemory, TypedMemory', Spoken, LetterEnds PROVE Spoken'
<1> SUFFICES ASSUME ~stray PROVE Spoken'
  BY DEF Spoken, LetterEnds, history
<1>1. /\ pc = "flash" /\ pc' = "next" /\ spaces = 0 /\ morse = 0 /\ curr' = curr + 1
      /\ mem' = mem /\ start' = start /\ end' = end
      /\ expected' = expected /\ dropped' = dropped /\ Delivered' = Delivered
  BY DEF LetterEnds, scan, history, Delivered
<1>2. PICK base \in Seq(Symbols), n \in Nat, said \in Seq(Marks) :
          expected = base \o Encode(mem.text) /\ InLetter(base, n, said)
  BY <1>1, InLetterNow
<1>3. Worded(mem.text) /\ TrimmedText /\ OnLetters /\ At(curr) \in Letters
  BY <1>1, InLetterNow
<1>4. said = Alphabet[At(curr)]
  BY <1>1, <1>2, <1>3, TopBitIs DEF InLetter
<1>5. Faithful(Delivered, dropped, base \o Said(mem.text)[curr + 1])
  BY <1>1, <1>2, <1>3, <1>4, ToldStarts DEF InLetter
<1>6. TrimmedText' /\ OnLetters'
  <2>1. count' = count /\ curr \in Nat /\ At(curr) = mem.text[curr + 1]
    BY <1>1, <1>3, InText DEF count
  <2>2. TrimmedText'
    BY <1>1, <1>3, <2>1 DEF TrimmedText
  <2>3. OnLetters'
    BY <1>1, <1>3, <2>1 DEF TrimmedText, OnLetters
  <2> QED BY <2>2, <2>3
<1>7. Told(base)'
  BY <1>1, <1>5, <1>6 DEF Told
<1> QED BY <1>1, <1>2, <1>3, <1>7, StillTold

LEMMA WriteEndsSpoken == ASSUME TypedMemory, TypedMemory', Spoken, WriteEnds PROVE Spoken'
<1> SUFFICES ASSUME ~stray PROVE Spoken'
  BY DEF Spoken, WriteEnds, history
<1>1. /\ pc = "next" /\ pc' = "idle" /\ curr >= end /\ expected' = expected /\ received' = received
  BY DEF WriteEnds, Return, history
<1>2. PICK base \in Seq(Symbols) : expected = base \o Encode(mem.text) /\ Told(base)
  BY <1>1 DEF Spoken
<1>3. TrimmedText /\ OnLetters /\ Faithful(Delivered, dropped, base \o Said(mem.text)[curr])
  BY <1>1, <1>2 DEF Told
<1> DEFINE t == mem.text
           p == base \o Said(t)[curr]
<1>4. t \in Seq(Char) /\ count = Len(t) /\ curr \in Nat /\ curr \in 0 .. Len(t) /\ count \in Nat
  BY <1>3, InText
<1>5. curr = end /\ end <= count /\ \A i \in end + 1 .. count : t[i] \notin Letters
  BY <1>1, <1>3, <1>4 DEF TrimmedText, OnLetters
<1>6. Said(t)[Len(t)] = Said(t)[curr]
  <2>1. Len(t) \in curr .. Len(t)
    BY <1>4
  <2> HIDE DEF t
  <2> QED BY <1>4, <1>5, <2>1, SaidSame
<1>7. Newline \in Symbols
  BY DEF Symbols
<1>8. /\ p \in Seq(Symbols) /\ Starts(p, expected) /\ Delivered \in Seq(Symbols)
      /\ Faithful(Delivered, dropped, p)
  BY <1>2, <1>3, ToldStarts, DeliveredIs
<1>9. expected = Append(p, Newline)
  <2> DEFINE s == Said(t)[curr]
             w == <<Newline>>
  <2>1. s \in Seq(Symbols)
    BY <1>4, Said0
  <2>2. w \in Seq(Symbols)
    BY <1>7
  <2>3. expected = base \o (s \o w)
    BY <1>2, <1>6 DEF Encode
  <2>4. Append(p, Newline) = (base \o s) \o w
    BY <1>7, <1>8, AppendIs
  <2> HIDE DEF s, w
  <2> QED BY <2>1, <2>2, <2>3, <2>4, Associative
<1> HIDE DEF p
<1>10. CASE ~Full /\ Put(Newline) /\ Return("count")
  <2>1. Delivered' = Append(Delivered, Newline) /\ dropped' = dropped
    BY <1>1, <1>7, <1>10, PutAdds
  <2>2. Faithful(Delivered', dropped', expected')
    BY <1>1, <1>7, <1>8, <1>9, <2>1, FaithfulAndOne
  <2> QED BY <1>1, <2>2 DEF Spoken
<1>11. CASE Drop /\ Return("EFAULT")
  <2>1. dropped' = TRUE /\ Delivered' = Delivered
    BY <1>1, <1>11 DEF Drop, Delivered
  <2>2. Faithful(Delivered', dropped', expected')
    BY <1>1, <1>8, <2>1, FaithfulLost
  <2> QED BY <1>1, <2>2 DEF Spoken
<1> QED BY <1>10, <1>11 DEF WriteEnds

LEMMA SpokenStep == ASSUME TypedMemory, TypedMemory', Spoken, [Next]_vars PROVE Spoken'
<1>1. CASE UNCHANGED vars
  BY <1>1, SpokenKept DEF vars, Delivered
<1>2. CASE led_register
  BY <1>2, SpokenKept DEF led_register, scan, history, Delivered
<1>3. CASE my_read
  BY <1>3, SpokenKept, ReadKeeps DEF my_read, scan
<1> QED BY <1>1, <1>2, <1>3, StartSpoken, TrimSpoken, NextSpoken, PutSpaceSpoken, FlashSpoken,
           FlashGapSpoken, LetterEndsSpoken, WriteEndsSpoken DEF Next, my_write

LEMMA SpokenSafe == ASSUME TypedMemory, Spoken PROVE ReadersGetTheText /\ OverflowOnlyLoses
<1> SUFFICES ASSUME ~stray PROVE ReadersGetTheText /\ OverflowOnlyLoses
  BY DEF ReadersGetTheText, OverflowOnlyLoses
<1>1. Delivered \in Seq(Symbols) /\ expected \in Seq(Symbols)
  BY DeliveredIs DEF TypedMemory, MemoryTyped
<1>2. CASE pc = "idle"
  <2>1. Faithful(Delivered, dropped, expected)
    BY <1>2 DEF Spoken
  <2>2. IsPrefix(expected, expected)
    BY <1>1, StartsItself, StartsPrefix
  <2> QED BY <2>1, <2>2 DEF Faithful, ReadersGetTheText, OverflowOnlyLoses
<1>3. ASSUME pc # "idle", NEW p \in Seq(Symbols), Faithful(Delivered, dropped, p), Starts(p, expected)
      PROVE  ReadersGetTheText /\ OverflowOnlyLoses
  <2>1. Subsequence(Delivered, expected)
    BY <1>1, <1>3, FaithfulLost DEF Faithful
  <2>2. IsPrefix(p, expected)
    BY <1>3, StartsPrefix
  <2> QED BY <1>3, <2>1, <2>2 DEF Faithful, ReadersGetTheText, OverflowOnlyLoses
<1>4. CASE pc # "idle"
  <2>1. PICK base \in Seq(Symbols) : expected = base \o Encode(mem.text) /\ Told(base)
    BY <1>4 DEF Spoken
  <2>2. pc \in {"trim", "next", "flash"}
    BY <1>4 DEF TypedMemory, TypeOK
  <2>3. CASE pc = "trim"
    <3>1. mem.text \in Seq(Char)
      BY DEF TypedMemory, MemoryTyped, Memory
    <3>2. Starts(base, expected)
      BY <2>1, <3>1, Encoded DEF Starts
    <3> QED BY <1>3, <2>1, <2>3, <3>2 DEF Told
  <2>4. CASE pc = "next"
    BY <1>3, <2>1, <2>4, ToldStarts DEF Told
  <2>5. CASE pc = "flash"
    <3>1. PICK n \in Nat, said \in Seq(Marks) : InLetter(base, n, said)
      BY <2>1, <2>5 DEF Told
    <3>2. TrimmedText /\ OnLetters
      BY <2>1, <2>5 DEF Told
    <3> QED BY <1>3, <2>1, <2>5, <3>1, <3>2, ToldStarts DEF InLetter
  <2> QED BY <2>2, <2>3, <2>4, <2>5
<1> QED BY <1>2, <1>4

LEMMA SpokenAlways == Spec => [](TypedMemory /\ Spoken)
<1>1. Init => TypedMemory /\ Spoken
  BY InitTyped, InitSpoken
<1>2. TypedMemory /\ Spoken /\ [Next]_vars => TypedMemory' /\ Spoken'
  BY TypedStep, SpokenStep
<1> QED BY <1>1, <1>2, PTL DEF Spec

\* Whatever is between the letters of the texts and around them, and whenever reads
\* come, readers get the standard Morse code of every text as long as the kfifo never
\* overflowed: 16-bit words, shifts and pauses are the alphabet (my_write, flash_leds).
THEOREM TextRead == Spec => []ReadersGetTheText
<1>1. TypedMemory /\ Spoken => ReadersGetTheText
  BY SpokenSafe
<1> QED BY <1>1, SpokenAlways, PTL

\* A kfifo that overflows loses symbols of the code, never adds or swaps any, also when
\* it ends a letter and the write goes on (my_write, flash_leds).
THEOREM OverflowLoses == Spec => []OverflowOnlyLoses
<1>1. TypedMemory /\ Spoken => OverflowOnlyLoses
  BY SpokenSafe
<1> QED BY <1>1, SpokenAlways, PTL
----------------------------------------------------------------------------
(***************************************************************************)
(* How long the light was dark, also for a text without a letter: Trailing *)
(* counts the gaps that were put last.                                     *)
(***************************************************************************)
LEMMA TrailingIs ==
    ASSUME NEW s \in Seq(Symbols)
    PROVE  /\ Trailing(s) \in Nat
           /\ s = <<>> => Trailing(s) = 0
           /\ s # <<>> /\ Last(s) # Gap => Trailing(s) = 0
           /\ \A x \in Symbols : Trailing(Append(s, x)) = IF x = Gap THEN Trailing(s) + 1 ELSE 0
<1> DEFINE T(t) == {i \in 1 .. Len(t) : \A j \in i .. Len(t) : t[j] = Gap}
<1>1. Len(s) \in Nat
  BY LenProperties
<1>2. IsFiniteSet(T(s))
  <2>1. T(s) \subseteq 1 .. Len(s) /\ IsFiniteSet(1 .. Len(s))
    BY <1>1, FS_Interval
  <2> QED BY <2>1, FS_Subset
<1>3. ASSUME NEW t \in Seq(Symbols), Len(t) \in Nat \ {0}, t[Len(t)] # Gap PROVE Trailing(t) = 0
  <2>1. T(t) = {}
    BY <1>3
  <2> QED BY <2>1, FS_EmptySet DEF Trailing
<1>4. s = <<>> => Trailing(s) = 0
  <2> SUFFICES ASSUME s = <<>> PROVE Trailing(s) = 0
    OBVIOUS
  <2>1. T(s) = {}
    OBVIOUS
  <2> QED BY <2>1, FS_EmptySet DEF Trailing
<1>5. s # <<>> /\ Last(s) # Gap => Trailing(s) = 0
  <2>1. s # <<>> => Len(s) \in Nat \ {0}
    BY EmptySeq
  <2> QED BY <1>3, <2>1 DEF Last
<1>6. ASSUME NEW x \in Symbols PROVE Trailing(Append(s, x)) = IF x = Gap THEN Trailing(s) + 1 ELSE 0
  <2> DEFINE w == Append(s, x)
  <2>1. /\ w \in Seq(Symbols) /\ Len(w) = Len(s) + 1 /\ w[Len(s) + 1] = x
        /\ \A i \in 1 .. Len(s) : w[i] = s[i]
    BY AppendProperties
  <2> HIDE DEF w
  <2>2. CASE x = Gap
    <3>1. T(w) = T(s) \cup {Len(s) + 1}
      <4>1. \A i \in 1 .. Len(s) : (\A j \in i .. Len(w) : w[j] = Gap) <=> (\A j \in i .. Len(s) : s[j] = Gap)
        <5> SUFFICES ASSUME NEW i \in 1 .. Len(s)
                     PROVE  (\A j \in i .. Len(w) : w[j] = Gap) <=> (\A j \in i .. Len(s) : s[j] = Gap)
          OBVIOUS
        <5>1. \A j \in i .. Len(s) : j \in i .. Len(w) /\ w[j] = s[j]
          BY <1>1, <2>1
        <5>2. \A j \in i .. Len(w) : j \in i .. Len(s) \/ j = Len(s) + 1
          BY <1>1, <2>1
        <5> QED BY <2>1, <2>2, <5>1, <5>2
      <4>2. 1 .. Len(w) = 1 .. Len(s) \cup {Len(s) + 1} /\ Len(w) .. Len(w) = {Len(s) + 1}
        BY <1>1, <2>1
      <4>3. Len(s) + 1 \in T(w)
        BY <1>1, <2>1, <2>2, <4>2
      <4> QED BY <4>1, <4>2, <4>3
    <3>2. Len(s) + 1 \notin T(s)
      BY <1>1
    <3>3. Cardinality(T(s) \cup {Len(s) + 1}) = Cardinality(T(s)) + 1
      <4> HIDE DEF T
      <4> QED BY <1>2, <3>2, FS_AddElement
    <3> QED BY <2>2, <3>1, <3>3 DEF Trailing, w
  <2>3. CASE x # Gap
    <3>1. Len(w) \in Nat \ {0} /\ w[Len(w)] # Gap
      BY <1>1, <2>1, <2>3
    <3> QED BY <1>3, <2>1, <2>3, <3>1 DEF w
  <2> QED BY <2>2, <2>3
<1>7. Trailing(s) \in Nat
  BY <1>2, FS_CardinalityType DEF Trailing
<1> QED BY <1>4, <1>5, <1>6, <1>7

\* Between texts: nothing was told yet, or a text's end.
Silent(d) == d = <<>> \/ Last(d) = Newline

LEMMA SilentIs ==
    ASSUME NEW d \in Seq(Symbols)
    PROVE  /\ Silent(d) => Trailing(d) = 0
           /\ Silent(Append(d, Newline))
<1>1. Newline # Gap /\ Newline \in Symbols
  BY DEF Newline, Gap, Symbols
<1>2. Last(Append(d, Newline)) = Newline
  <2>1. Len(Append(d, Newline)) = Len(d) + 1 /\ Append(d, Newline)[Len(d) + 1] = Newline
    BY <1>1, AppendProperties
  <2> QED BY <2>1 DEF Last
<1> QED BY <1>1, <1>2, TrailingIs DEF Silent

\* Where trim_spaces failed, the scan runs out of the text with its first letter.
Scanned ==
    /\ 0 <= start /\ start <= curr
    /\ \/ /\ start = 0 /\ end = count
          /\ LettersFrom(0) = {} \/ LettersBefore(count) = {}
          /\ pc = "next" /\ curr > start => curr >= end
       \/ end - 1 \in Mapped /\ At(end - 1) \in Letters

Timing(said) ==
    /\ Coming(At(curr), said, morse) \/ Behind(At(curr), said, morse)
    /\ spaces > 0 => said = <<>>
    /\ said = <<>> => \E gap \in {0, 1, 3} :
                         /\ dark = Pause(gap) /\ spaces <= gap /\ Trailing(Delivered) = gap - spaces
                         /\ gap = 0 => Silent(Delivered)
    /\ said # <<>> => /\ Trailing(Delivered) = 0
                      /\ dark = IF Coming(At(curr), said, morse) THEN 1 ELSE 0

Timed ==
    ~dropped => /\ pc \in {"idle", "trim"} => Silent(Delivered) /\ dark = 0
                /\ pc = "next" => /\ dark = 0 /\ Trailing(Delivered) = 0
                                  /\ curr = start => Silent(Delivered)
                /\ pc = "flash" => \E said \in Seq(Marks) : Timing(said)

ScannedSo == pc \in {"next", "flash"} => Scanned

LEMMA InitTimed == Init => ScannedSo /\ Timed
<1>1. <<>> \o <<>> = <<>>
  OBVIOUS
<1> QED BY <1>1 DEF Init, ScannedSo, Timed, Silent, Delivered
\* The memory and the bounds of the scan stay as they are during a letter.
LEMMA SameScan ==
    ASSUME mem' = mem, start' = start, end' = end
    PROVE  /\ count' = count /\ Mapped' = Mapped /\ At(curr)' = At(curr') /\ At(end - 1)' = At(end - 1)
           /\ LettersFrom(0)' = LettersFrom(0) /\ LettersBefore(count)' = LettersBefore(count)
<1>1. count' = count /\ Mapped' = Mapped
  BY DEF count, Mapped
<1>2. \A i : At(i)' = At(i)
  BY DEF At
<1> QED BY <1>1, <1>2 DEF LettersFrom, LettersBefore, At

LEMMA ScannedStep == ASSUME TypedMemory, ScannedSo, [Next]_vars PROVE ScannedSo'
<1>0. mem \in Memory /\ start \in Int /\ curr \in Int /\ end \in Int
  BY DEF TypedMemory, TypeOK, MemoryTyped
<1>1. CASE UNCHANGED <<mem, start, end, curr, pc>>
  BY <1>1, SameScan DEF ScannedSo, Scanned
<1>2. CASE WriteStart
  BY <1>2 DEF WriteStart, ScannedSo
<1>3. CASE Trim
  <2>1. CASE pc' = "idle"
    BY <2>1 DEF ScannedSo
  <2>2. CASE pc' # "idle"
    <3>1. /\ pc' = "next" /\ mem' = mem /\ curr' = start'
          /\ IF LettersFrom(0) # {} /\ LettersBefore(count) # {}
               THEN start' = Min(LettersFrom(0)) /\ end' = Max(LettersBefore(count)) + 1
               ELSE start' = 0 /\ end' = count
      BY <1>3, <2>2 DEF Trim, Return
    <3>2. count' = count /\ Mapped' = Mapped /\ \A i : At(i)' = At(i)
      BY <3>1 DEF count, Mapped, At
    <3>3. LettersFrom(0)' = LettersFrom(0) /\ LettersBefore(count)' = LettersBefore(count)
      BY <3>2 DEF LettersFrom, LettersBefore
    <3>4. CASE LettersFrom(0) # {} /\ LettersBefore(count) # {}
      <4> DEFINE m == Max(LettersBefore(count))
      <4>1. count \in Int /\ Mapped \subseteq Int
        BY <1>0, Scans
      <4>2. Min(LettersFrom(0)) \in LettersFrom(0) /\ m \in LettersBefore(count)
        BY <1>0, <3>4, <4>1, Scans
      <4> HIDE DEF m
      <4>3. Min(LettersFrom(0)) \in Int /\ 0 <= Min(LettersFrom(0)) /\ m \in Mapped /\ m \in Int /\ At(m) \in Letters
        BY <4>1, <4>2 DEF LettersFrom, LettersBefore
      <4>4. start' = Min(LettersFrom(0)) /\ end' = m + 1
        BY <3>1, <3>4 DEF m
      <4>5. end' - 1 = m
        BY <4>3, <4>4
      <4>6. At(end - 1)' = At(m)
        BY <3>1, <4>5 DEF At
      <4>7. 0 <= start' /\ start' <= curr'
        BY <3>1, <4>3, <4>4
      <4> QED BY <3>2, <4>3, <4>5, <4>6, <4>7 DEF ScannedSo, Scanned
    <3>5. CASE LettersFrom(0) = {} \/ LettersBefore(count) = {}
      <4>1. start' = 0 /\ end' = count' /\ curr' = 0
        BY <3>1, <3>2, <3>5
      <4> QED BY <3>3, <3>5, <4>1 DEF ScannedSo, Scanned
    <3> QED BY <3>4, <3>5
  <2> QED BY <2>1, <2>2
<1>4. CASE NextLetter
  <2>1. CASE pc' = "idle"
    BY <2>1 DEF ScannedSo
  <2>2. CASE pc' # "idle"
    <3>1. /\ pc = "next" /\ pc' = "flash" /\ LettersFrom(curr) # {} /\ curr' = Min(LettersFrom(curr))
          /\ mem' = mem /\ start' = start /\ end' = end
      BY <1>4, <2>2 DEF NextLetter, Return, scan
    <3>2. Mapped \subseteq Int /\ curr' \in LettersFrom(curr)
      BY <1>0, <3>1, Scans
    <3>3. curr' \in Int /\ curr <= curr'
      BY <3>2 DEF LettersFrom
    <3>4. start <= curr'
      BY <1>0, <3>1, <3>3 DEF ScannedSo, Scanned
    <3> QED BY <3>1, <3>4, SameScan DEF ScannedSo, Scanned
  <2> QED BY <2>1, <2>2
<1>5. ASSUME pc = "flash", pc' = "next", curr' = curr + 1, mem' = mem, start' = start, end' = end
      PROVE  ScannedSo'
  <2>1. Scanned /\ curr \in Mapped /\ At(curr) \in Letters
    BY <1>5 DEF ScannedSo, TypedMemory, MemoryTyped
  <2>2. 0 <= start' /\ start' <= curr'
    BY <1>0, <1>5, <2>1 DEF Scanned
  <2>3. CASE end - 1 \in Mapped /\ At(end - 1) \in Letters
    BY <1>5, <2>2, <2>3, SameScan DEF ScannedSo, Scanned
  <2>4. CASE start = 0 /\ end = count /\ (LettersFrom(0) = {} \/ LettersBefore(count) = {})
    <3>1. curr \in LettersFrom(0)
      BY <1>0, <2>1, <2>4 DEF LettersFrom, Scanned
    <3>2. curr \notin LettersBefore(count)
      BY <2>4, <3>1
    <3>3. ~(curr < count)
      BY <2>1, <3>2 DEF LettersBefore
    <3>4. curr' >= end'
      <4>1. count \in Int
        BY <1>0, Scans
      <4> QED BY <1>0, <1>5, <2>4, <3>3, <4>1
    <3> QED BY <1>5, <2>2, <2>4, <3>4, SameScan DEF ScannedSo, Scanned
  <2> QED BY <2>1, <2>3, <2>4 DEF Scanned
<1>6. CASE PutSpace
  BY <1>1, <1>6, SameScan DEF PutSpace, Return, scan, ScannedSo, Scanned
<1>7. CASE Flash
  <2>1. UNCHANGED <<mem, start, end, curr, pc>> \/ (pc = "flash" /\ pc' = "next" /\ curr' = curr + 1
                                                   /\ mem' = mem /\ start' = start /\ end' = end)
    BY <1>7, Zenon DEF Flash, scan
  <2> QED BY <1>1, <1>5, <2>1
<1>8. CASE FlashGap
  BY <1>1, <1>8 DEF FlashGap, scan
<1>9. CASE LetterEnds
  BY <1>5, <1>9 DEF LetterEnds, scan
<1>10. CASE WriteEnds
  BY <1>10 DEF WriteEnds, Return, ScannedSo
<1>11. CASE UNCHANGED vars
  BY <1>1, <1>11 DEF vars
<1>12. CASE led_register
  BY <1>1, <1>12 DEF led_register, scan
<1>13. CASE my_read
  BY <1>1, <1>13 DEF my_read, scan
<1> QED BY <1>2, <1>3, <1>4, <1>6, <1>7, <1>8, <1>9, <1>10, <1>11, <1>12, <1>13 DEF Next, my_write
\* What changes neither the text's place nor the light.
LEMMA TimedKept ==
    ASSUME Timed, Delivered' = Delivered, UNCHANGED <<mem, start, curr, spaces, morse, pc, dropped, dark>>
    PROVE  Timed'
<1>1. At(curr)' = At(curr)
  BY DEF At
<1>2. ASSUME NEW said PROVE Timing(said)' = Timing(said)
  BY <1>1 DEF Timing
<1> QED BY <1>2 DEF Timed

LEMMA NextTimed == ASSUME TypedMemory, ScannedSo, Timed, NextLetter PROVE Timed'
<1> SUFFICES ASSUME ~dropped PROVE Timed'
  BY DEF NextLetter, Timed
<1>0. mem \in Memory /\ start \in Int /\ curr \in Int /\ end \in Int /\ dark \in Nat
  BY DEF TypedMemory, TypeOK, MemoryTyped
<1>1. /\ pc = "next" /\ curr < end /\ mem' = mem /\ start' = start /\ end' = end
      /\ dropped' = dropped /\ Delivered' = Delivered
  BY DEF NextLetter, scan, history, Delivered
<1>2. /\ dark = 0 /\ Trailing(Delivered) = 0 /\ (curr = start => Silent(Delivered)) /\ Scanned
  BY <1>1 DEF Timed, ScannedSo
<1>3. CASE LettersFrom(curr) = {}
  <2>1. pc' = "idle" /\ dark' = dark
    BY <1>3 DEF NextLetter, Return
  <2>2. ~(end - 1 \in Mapped /\ At(end - 1) \in Letters)
    BY <1>0, <1>1, <1>3 DEF LettersFrom
  <2>3. curr = start
    BY <1>0, <1>1, <1>2, <2>2 DEF Scanned
  <2> QED BY <1>1, <1>2, <2>1, <2>3 DEF Timed
<1>4. CASE LettersFrom(curr) # {}
  <2> DEFINE Blanks == \E i \in curr .. curr' - 1 : At(i) = Blank
  <2>1. /\ curr' = Min(LettersFrom(curr)) /\ morse' = morsecode_codes[At(curr')] /\ pc' = "flash"
        /\ spaces' = (IF Blanks THEN 3 ELSE IF curr' # start THEN 1 ELSE 0)
        /\ dark' = dark + Pause(spaces')
    BY <1>4, Zenon DEF NextLetter
  <2>2. curr' \in LettersFrom(curr) /\ Mapped \subseteq Int
    BY <1>0, <1>4, <2>1, Scans
  <2>3. curr' \in Int /\ curr <= curr' /\ At(curr') \in Letters
    BY <2>2 DEF LettersFrom
  <2>4. spaces' \in {0, 1, 3}
    BY <2>1
  <2>5. spaces' = 0 => Silent(Delivered)
    <3>1. spaces' = 0 => curr' = start
      BY <2>1
    <3>2. start <= curr
      BY <1>2 DEF Scanned
    <3>3. curr' = start => curr = start
      BY <1>0, <2>3, <3>2
    <3> QED BY <1>2, <3>1, <3>3
  <2>6. Pause(spaces') \in Nat
    BY <2>4 DEF Pause
  <2>7. dark' = Pause(spaces')
    BY <1>2, <2>1, <2>6
  <2> DEFINE z == <<>>
             l == At(curr')
  <2>8. Coming(l, z, morse')
    <3>1. Alphabet[l] = <<>> \o Alphabet[l]
      <4>1. Alphabet[l] \in Seq(Symbols)
        BY <2>3, SymbolSeqs
      <4> QED BY <4>1, ConcatEmptySeq
    <3> QED BY <2>1, <2>3, <3>1 DEF Coming
  <2>9. At(curr)' = At(curr')
    BY <1>1 DEF At
  <2>10. Trailing(Delivered') = spaces' - spaces'
    <3>1. spaces' - spaces' = 0
      <4>1. \A k \in {0, 1, 3} : k - k = 0
        OBVIOUS
      <4> QED BY <2>4, <4>1
    <3> QED BY <1>1, <1>2, <3>1
  <2>11. Timing(z)'
    <3>1. Coming(At(curr)', z, morse')
      BY <2>8, <2>9
    <3>2. spaces' <= spaces'
      BY <2>4
    <3>3. \E gap \in {0, 1, 3} :
             /\ dark' = Pause(gap) /\ spaces' <= gap /\ Trailing(Delivered') = gap - spaces'
             /\ gap = 0 => Silent(Delivered')
      BY <1>1, <2>4, <2>5, <2>7, <2>10, <3>2
    <3> QED BY <3>1, <3>3 DEF Timing
  <2>12. z \in Seq(Marks)
    OBVIOUS
  <2> HIDE DEF z
  <2> QED BY <1>1, <2>1, <2>11, <2>12 DEF Timed
<1> QED BY <1>3, <1>4

LEMMA PutSpaceTimed == ASSUME TypedMemory, Timed, PutSpace PROVE Timed'
<1> SUFFICES ASSUME ~dropped' PROVE Timed'
  BY DEF Timed
<1>1. /\ pc = "flash" /\ pc' = "flash" /\ spaces > 0 /\ spaces' = spaces - 1 /\ Put(Gap)
      /\ UNCHANGED <<mem, curr, morse, dark, received>>
  BY DEF PutSpace, Drop, scan, history
<1>2. /\ Gap \in Symbols /\ Delivered \in Seq(Symbols) /\ spaces \in Nat
  BY DeliveredIs DEF Symbols, TypedMemory, TypeOK
<1>3. Delivered' = Append(Delivered, Gap) /\ dropped' = dropped
  BY <1>1, <1>2, PutAdds
<1>4. PICK said \in Seq(Marks) : Timing(said)
  BY <1>1, <1>3 DEF Timed
<1>5. said = <<>>
  BY <1>1, <1>4 DEF Timing
<1>6. PICK gap \in {0, 1, 3} : dark = Pause(gap) /\ spaces <= gap /\ Trailing(Delivered) = gap - spaces
  BY <1>4, <1>5 DEF Timing
<1>7. Trailing(Delivered') = gap - spaces' /\ spaces' <= gap /\ gap # 0
  <2>1. Trailing(Delivered') = Trailing(Delivered) + 1
    BY <1>2, <1>3, TrailingIs
  <2> QED BY <1>1, <1>2, <1>6, <2>1
<1>8. Coming(At(curr)', said, morse') \/ Behind(At(curr)', said, morse')
  BY <1>1, <1>4 DEF Timing, At
<1>9. Timing(said)'
  BY <1>1, <1>5, <1>6, <1>7, <1>8 DEF Timing
<1> QED BY <1>1, <1>9 DEF Timed

LEMMA FlashTimed == ASSUME TypedMemory, Timed, Flash PROVE Timed'
<1> SUFFICES ASSUME ~dropped' PROVE Timed'
  BY DEF Timed
<1>1. /\ pc = "flash" /\ pc' = "flash" /\ spaces = 0 /\ morse >= TopBit /\ morse' = Shifted /\ Put(Mark)
      /\ dark' = 0 /\ UNCHANGED <<mem, curr, spaces, received>>
  BY Zenon DEF Flash, Drop, scan, history
<1> DEFINE x == MarkOf(morse)
<1>2. Mark = x /\ Shifted = Shift(morse)
  BY DEF Mark, Shifted, MarkOf, Shift
<1>3. Delivered \in Seq(Symbols) /\ At(curr) \in Letters /\ morse \in Int
  BY <1>1, DeliveredIs, WordIs DEF TypedMemory, TypeOK, MemoryTyped
<1>4. dropped' = dropped
  BY <1>1 DEF Put
<1>5. PICK said \in Seq(Marks) : Timing(said)
  BY <1>1, <1>4 DEF Timed
<1>6. Coming(At(curr), said, morse)
  BY <1>1, <1>3, <1>5, TopBitIs DEF Timing
<1>7. /\ x \in Marks /\ Behind(At(curr), Append(said, x), Shift(morse))
      /\ Shift(morse) \in Int /\ Shift(morse) <= 32767
  BY <1>3, <1>6, MarkFlashed
<1>8. x \in Symbols /\ x # Gap
  BY <1>7 DEF Marks, Symbols, Dot, Dash, Gap
<1> HIDE DEF x
<1>9. Delivered' = Append(Delivered, x)
  BY <1>1, <1>2, <1>8, PutAdds
<1>10. Trailing(Delivered') = 0
  BY <1>3, <1>8, <1>9, TrailingIs
<1> PICK more : more = Append(said, x)
  OBVIOUS
<1>11. more \in Seq(Marks) /\ more # <<>>
  BY <1>7, AppendProperties
<1>12. ~Coming(At(curr), more, morse')
  <2>1. ~(morse' >= TopBit)
    BY <1>1, <1>2, <1>7 DEF TopBit
  <2> QED BY <1>3, <2>1, TopBitIs
<1>13. At(curr)' = At(curr)
  BY <1>1 DEF At
<1>14. Behind(At(curr)', more, morse') /\ ~Coming(At(curr)', more, morse')
  BY <1>1, <1>2, <1>7, <1>12, <1>13
<1>15. Timing(more)'
  BY <1>1, <1>10, <1>11, <1>14 DEF Timing
<1> QED BY <1>1, <1>11, <1>15 DEF Timed

LEMMA FlashGapTimed == ASSUME TypedMemory, Timed, FlashGap PROVE Timed'
<1> SUFFICES ASSUME ~dropped' PROVE Timed'
  BY DEF Timed
<1>1. /\ pc = "flash" /\ pc' = "flash" /\ spaces = 0 /\ morse \in 1 .. TopBit - 1 /\ morse' = morse * 2
      /\ dark' = dark + 1 /\ Delivered' = Delivered /\ UNCHANGED <<mem, curr, spaces, dropped>>
  BY DEF FlashGap, scan, history, Delivered
<1>2. At(curr) \in Letters /\ morse \in Int
  BY <1>1, WordIs DEF TypedMemory, TypeOK, MemoryTyped
<1>3. PICK said \in Seq(Marks) : Timing(said)
  BY <1>1 DEF Timed
<1>4. said # <<>> /\ Coming(At(curr), said, 2 * morse)
  BY <1>1, <1>2, <1>3, TopBitIs DEF Timing
<1>5. ~Coming(At(curr), said, morse)
  <2>1. ~(morse >= TopBit)
    <3>1. morse \in Int /\ morse <= TopBit - 1
      BY <1>1, Below
    <3> QED BY <3>1 DEF TopBit
  <2> QED BY <1>2, <2>1, TopBitIs
<1>6. Trailing(Delivered) = 0 /\ dark = 0
  BY <1>3, <1>4, <1>5 DEF Timing
<1>7. At(curr)' = At(curr) /\ morse' = 2 * morse
  BY <1>1, <1>2 DEF At
<1>8. Coming(At(curr)', said, morse')
  BY <1>4, <1>7
<1>9. Timing(said)'
  BY <1>1, <1>4, <1>6, <1>8 DEF Timing
<1> QED BY <1>1, <1>9 DEF Timed

LEMMA LetterEndsTimed == ASSUME TypedMemory, ScannedSo, Timed, LetterEnds PROVE Timed'
<1> SUFFICES ASSUME ~dropped' PROVE Timed'
  BY DEF Timed
<1>1. /\ pc = "flash" /\ pc' = "next" /\ spaces = 0 /\ morse = 0 /\ curr' = curr + 1
      /\ Delivered' = Delivered /\ UNCHANGED <<mem, start, dropped, dark>>
  BY DEF LetterEnds, scan, history, Delivered
<1>2. At(curr) \in Letters /\ curr \in Int /\ start \in Int
  BY <1>1 DEF TypedMemory, TypeOK, MemoryTyped
<1>3. PICK said \in Seq(Marks) : Timing(said)
  BY <1>1 DEF Timed
<1>4. said = Alphabet[At(curr)] /\ ~Coming(At(curr), said, morse)
  BY <1>1, <1>2, <1>3, TopBitIs DEF Timing
<1>5. said # <<>>
  <2>1. Len(said) \in 1 .. 4
    BY <1>2, <1>4, AlphabetIs
  <2>2. Len(<<>>) \notin 1 .. 4
    OBVIOUS
  <2> QED BY <2>1, <2>2
<1>6. Trailing(Delivered) = 0 /\ dark = 0
  BY <1>3, <1>4, <1>5 DEF Timing
<1>7. curr' # start'
  <2>1. start <= curr
    BY <1>1 DEF ScannedSo, Scanned
  <2> QED BY <1>1, <1>2, <2>1
<1> QED BY <1>1, <1>6, <1>7 DEF Timed
LEMMA TimedStep == ASSUME TypedMemory, ScannedSo, Timed, [Next]_vars PROVE Timed'
<1>0. Delivered \in Seq(Symbols)
  BY DeliveredIs
<1>1. CASE WriteStart
  <2>1. pc = "idle" /\ pc' = "trim" /\ Delivered' = Delivered /\ dropped' = dropped /\ dark' = dark
    BY <1>1 DEF WriteStart, Delivered
  <2> QED BY <2>1 DEF Timed
<1>2. CASE Trim
  <2>1. /\ pc = "trim" /\ Delivered' = Delivered /\ dropped' = dropped /\ dark' = dark
        /\ pc' = "idle" \/ (pc' = "next" /\ curr' = start')
    BY <1>2 DEF Trim, Return, history, Delivered
  <2> QED BY <1>0, <2>1, SilentIs DEF Timed
<1>3. CASE WriteEnds
  <2>1. CASE dropped'
    BY <2>1 DEF Timed
  <2>2. CASE ~dropped'
    <3>1. pc = "next" /\ pc' = "idle" /\ Put(Newline) /\ received' = received /\ dark' = dark
      BY <1>3, <2>2 DEF WriteEnds, Drop, Return, history
    <3>2. Newline \in Symbols
      BY DEF Symbols
    <3>3. Delivered' = Append(Delivered, Newline) /\ dropped' = dropped
      BY <3>1, <3>2, PutAdds
    <3>4. Silent(Delivered')
      BY <1>0, <3>3, SilentIs
    <3> QED BY <3>1, <3>3, <3>4 DEF Timed
  <2> QED BY <2>1, <2>2
<1>4. CASE my_read
  BY <1>4, ReadKeeps, TimedKept DEF my_read, scan
<1>5. CASE led_register
  BY <1>5, TimedKept DEF led_register, scan, history, Delivered
<1>6. CASE UNCHANGED vars
  BY <1>6, TimedKept DEF vars, Delivered
<1> QED BY <1>1, <1>2, <1>3, <1>4, <1>5, <1>6, NextTimed, PutSpaceTimed, FlashTimed, FlashGapTimed,
           LetterEndsTimed DEF Next, my_write

\* The flash of a mark of a text, with nothing lost: how long it was dark before.
DarkTells ==
    LET told == Trailing(Delivered) IN
    Flash /\ ~dropped' /\ Delivered # <<>> /\ Last(Delivered) # Newline
      => dark = (CASE told = 0 -> 1 [] told = 1 -> 3 [] told = 3 -> 7)

LEMMA FlashTold == ASSUME TypedMemory, Timed PROVE DarkTells
<1> SUFFICES ASSUME Flash, ~dropped', Delivered # <<>>, Last(Delivered) # Newline
             PROVE  LET told == Trailing(Delivered)
                    IN dark = (CASE told = 0 -> 1 [] told = 1 -> 3 [] told = 3 -> 7)
  BY DEF DarkTells
<1>1. pc = "flash" /\ spaces = 0 /\ morse >= TopBit /\ Put(Mark)
  BY Zenon DEF Flash, Drop
<1>2. ~dropped
  BY <1>1 DEF Put
<1>3. PICK said \in Seq(Marks) : Timing(said)
  BY <1>1, <1>2 DEF Timed
<1>4. At(curr) \in Letters /\ morse \in Int
  BY <1>1, WordIs DEF TypedMemory, TypeOK, MemoryTyped
<1>5. Coming(At(curr), said, morse)
  BY <1>1, <1>3, <1>4, TopBitIs DEF Timing
<1>6. CASE said # <<>>
  BY <1>3, <1>5, <1>6 DEF Timing
<1>7. CASE said = <<>>
  <2>1. PICK gap \in {0, 1, 3} :
            dark = Pause(gap) /\ Trailing(Delivered) = gap - spaces /\ (gap = 0 => Silent(Delivered))
    BY <1>3, <1>7 DEF Timing
  <2>2. gap # 0 /\ Trailing(Delivered) = gap
    BY <1>1, <2>1 DEF Silent
  <2> QED BY <2>1, <2>2 DEF Pause
<1> QED BY <1>6, <1>7

\* The light tells what the kfifo tells: as long as nothing was lost it was dark for 1, 3
\* or 7 dot times before a mark as no gap, one or three were put before it, also past
\* the end of a text without letters (my_write, flash_leds).
THEOREM DarkTold == Spec => DarkAsLongAsTold
<1>1. Init => TypedMemory /\ ScannedSo /\ Timed
  BY InitTyped, InitTimed
<1>2. TypedMemory /\ ScannedSo /\ Timed /\ [Next]_vars => TypedMemory' /\ ScannedSo' /\ Timed'
  BY TypedStep, ScannedStep, TimedStep
<1>3. TypedMemory /\ Timed => [DarkTells]_vars
  BY FlashTold
<1> QED BY <1>1, <1>2, <1>3, PTL DEF Spec, DarkAsLongAsTold, DarkTells
=============================================================================
