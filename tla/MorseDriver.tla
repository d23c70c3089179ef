---------------------------- MODULE MorseDriver ----------------------------
(***************************************************************************)
(* The Morse code driver (work/morsecode/morsedriver.c): a write flashes   *)
(* the letters of a text on an LED and puts its dots, dashes and gaps into *)
(* a kfifo, which a read empties.  One user writes at a time; reads come   *)
(* at any time, also while a write sleeps between two flashes.             *)
(*                                                                         *)
(* A letter is its place in the alphabet: charToMorse takes both cases to  *)
(* one code.  A dot and a dash are their lengths in dot times.  The driver *)
(* scans user memory for letters with no regard to the length of the text, *)
(* so the memory around the text is part of the state.                     *)
(* received, expected, dropped and stray are history variables.            *)
(***************************************************************************)
EXTENDS Integers, SequencesExt

CONSTANTS
    FIFO_SIZE,   \* places in the kfifo (256 in the code)
    Texts,       \* Texts[k] is what the k-th write may be: the model stops at the last
    Around       \* [before, after]: readable memory next to a text

Letters == 1 .. 26
Blank == 0      \* ' ', which separates words
Other == -1     \* any other character

Dot == 1
Dash == 3
Gap == 0
Newline == -1
Symbols == {Dot, Dash, Gap, Newline}

ASSUME MorseAssumption ==
    /\ FIFO_SIZE \in Nat \ {0}
    /\ Texts \in Seq(SUBSET Seq(Letters \cup {Blank, Other}))
    /\ \A a \in Around : {a.before, a.after} \subseteq Seq(Letters \cup {Blank, Other})

VARIABLES
    ledtrig,     \* the LED trigger is registered
    echo_fifo, led,
    dark,        \* dot times since the light was last put on
    pc,          \* where the write is; "idle" between writes
    mem,         \* [text, before, after]: the user's memory
    start, curr, end,
    spaces,      \* gaps still to be put before the letter
    morse,       \* what is left of the letter's code
    result,      \* of the last write
    writes, received, expected, dropped, stray

vars == <<ledtrig, echo_fifo, led, dark, pc, mem, start, curr, end, spaces, morse,
          result, writes, received, expected, dropped, stray>>
scan == <<mem, start, end>>
history == <<writes, received, expected, stray>>

WordMax == 65535   \* an unsigned short
Word == 0 .. WordMax
TopBit == 32768    \* its first dot time

\* One bit per dot time, the first one on top: morsecode_codes.
morsecode_codes ==
    <<47104, 60032, 60320, 59904, 32768, 44672, 61056, 43520, 40960, 48056, 60288, 47744,
      60928, 59392, 61152, 48032, 61112, 47616, 43008, 57344, 44544, 43904, 48000, 60128,
      60344, 61088>>
----------------------------------------------------------------------------
(***************************************************************************)
(* User memory: the text begins at address 0.                              *)
(***************************************************************************)
count == Len(mem.text)
Mapped == -Len(mem.before) .. count + Len(mem.after) - 1
At(i) == IF i < 0 THEN mem.before[Len(mem.before) + 1 + i] ELSE (mem.text \o mem.after)[i + 1]
LettersFrom(i) == {j \in Mapped : j >= i /\ At(j) \in Letters}
LettersBefore(i) == {j \in Mapped : j < i /\ At(j) \in Letters}

\* kfifo_put; a full kfifo refuses.
Full == Len(echo_fifo) >= FIFO_SIZE
Put(symbol) == echo_fifo' = Append(echo_fifo, symbol) /\ UNCHANGED dropped
Drop == Full /\ dropped' = TRUE /\ UNCHANGED echo_fifo

\* Without its trigger the light stays as it is.
Light(on) == led' = IF ledtrig THEN on ELSE led

Return(r) == pc' = "idle" /\ result' = r
----------------------------------------------------------------------------
(***************************************************************************)
(* What a listener is to hear: the standard code, marks run together, one  *)
(* gap between letters and three between words.                            *)
(***************************************************************************)
Alphabet ==
    <<<<1,3>>, <<3,1,1,1>>, <<3,1,3,1>>, <<3,1,1>>, <<1>>, <<1,1,3,1>>, <<3,3,1>>,
      <<1,1,1,1>>, <<1,1>>, <<1,3,3,3>>, <<3,1,3>>, <<1,3,1,1>>, <<3,3>>, <<3,1>>,
      <<3,3,3>>, <<1,3,3,1>>, <<3,3,1,3>>, <<1,3,1>>, <<1,1,1>>, <<3>>, <<1,1,3>>,
      <<1,1,1,3>>, <<1,3,3>>, <<3,1,1,3>>, <<3,1,3,3>>, <<3,3,1,1>>>>

Worded(text) == \E i \in 1 .. Len(text) : text[i] \in Letters

\* Before the letter at place n: nothing if it is the first, else a word gap if
\* there is a blank after the letter before it.
GapBefore(text, n) ==
    IF \A i \in 1 .. n - 1 : text[i] \notin Letters THEN <<>>
    ELSE IF \E i \in 1 .. n - 1 : text[i] = Blank /\ \A j \in i .. n - 1 : text[j] \notin Letters
    THEN <<Gap, Gap, Gap>> ELSE <<Gap>>

\* Said(text)[n]: the code of the first n places of the text.
Said(text) ==
    LET said[n \in 0 .. Len(text)] ==
            IF n = 0 THEN <<>>
            ELSE IF text[n] \in Letters THEN said[n - 1] \o GapBefore(text, n) \o Alphabet[text[n]]
            ELSE said[n - 1]
    IN said

Encode(text) == Said(text)[Len(text)] \o <<Newline>>

\* s is t with some of its elements left out: Matched(s, t)[n] of the elements of s
\* are found in order among the first n of t.
Matched(s, t) ==
    LET matched[n \in 0 .. Len(t)] ==
            IF n = 0 THEN 0
            ELSE LET m == matched[n - 1]
                 IN IF m < Len(s) /\ s[m + 1] = t[n] THEN m + 1 ELSE m
    IN matched

Subsequence(s, t) == Matched(s, t)[Len(t)] = Len(s)
----------------------------------------------------------------------------
Init ==
    /\ ledtrig = FALSE /\ echo_fifo = <<>> /\ led = FALSE /\ dark = 0
    /\ pc = "idle" /\ mem = [text |-> <<>>, before |-> <<>>, after |-> <<>>]
    /\ start = 0 /\ curr = 0 /\ end = 0 /\ spaces = 0 /\ morse = 0
    /\ result = "none" /\ writes = 0
    /\ received = <<>> /\ expected = <<>> /\ dropped = FALSE /\ stray = FALSE

\* morsecode_init makes the device file first, the trigger after it.
led_register ==
    /\ ~ledtrig
    /\ ledtrig' = TRUE
    /\ UNCHANGED <<echo_fifo, led, dark, pc, scan, curr, spaces, morse, result, history, dropped>>

my_read ==
    /\ echo_fifo # <<>>
    /\ \E n \in 1 .. Len(echo_fifo) :
         /\ received' = received \o SubSeq(echo_fifo, 1, n)
         /\ echo_fifo' = SubSeq(echo_fifo, n + 1, Len(echo_fifo))
    /\ UNCHANGED <<ledtrig, led, dark, pc, scan, curr, spaces, morse, result, writes,
                   expected, dropped, stray>>

(***************************************************************************)
(* my_write, up to each sleep or put.                                      *)
(***************************************************************************)
WriteStart ==
    /\ pc = "idle" /\ writes < Len(Texts)
    /\ \E text \in Texts[writes + 1], a \in Around : mem' = [text |-> text, before |-> a.before, after |-> a.after]
    /\ pc' = "trim" /\ writes' = writes + 1
    /\ expected' = expected \o Encode(mem'.text)
    /\ stray' = (stray \/ ~Worded(mem'.text))
    /\ UNCHANGED <<ledtrig, echo_fifo, led, dark, start, curr, end, spaces, morse, result,
                   received, dropped>>

\* Mutant: only the front is trimmed.
TrimFront ==
    /\ pc = "trim" /\ pc' = "next"
    /\ start' = (IF LettersFrom(0) # {} THEN Min(LettersFrom(0)) ELSE 0)
    /\ curr' = start' /\ end' = count
    /\ UNCHANGED <<ledtrig, echo_fifo, led, dark, mem, spaces, morse, result, history, dropped>>

\* my_write ignores that trim_spaces failed and goes on with the whole text.
Trim ==
    /\ pc = "trim"
    /\ IF 0 \notin Mapped
         THEN Return("EFAULT") /\ UNCHANGED <<start, curr, end>>
         ELSE /\ pc' = "next" /\ UNCHANGED result
              /\ IF LettersFrom(0) # {} /\ LettersBefore(count) # {}
                   THEN start' = Min(LettersFrom(0)) /\ end' = Max(LettersBefore(count)) + 1
                   ELSE start' = 0 /\ end' = count
              /\ curr' = start'
    /\ UNCHANGED <<ledtrig, echo_fifo, led, dark, mem, spaces, morse, history, dropped>>

\* Mutant: the word's pause after the letter's.
PauseTwice(n) == CASE n = 3 -> 10 [] n = 1 -> 3 [] OTHER -> 0
Pause(n) == CASE n = 3 -> 7 [] n = 1 -> 3 [] OTHER -> 0

\* Other characters are passed over; a blank among them makes a longer gap.
NextLetter ==
    /\ pc = "next" /\ curr < end
    /\ IF LettersFrom(curr) = {}
         THEN Return("EFAULT") /\ UNCHANGED <<led, dark, curr, spaces, morse>>
         ELSE /\ curr' = Min(LettersFrom(curr))
              /\ morse' = morsecode_codes[At(curr')]
              /\ spaces' = IF \E i \in curr .. curr' - 1 : At(i) = Blank THEN 3
                           ELSE IF curr' # start THEN 1 ELSE 0
              /\ dark' = dark + Pause(spaces')
              /\ IF spaces' = 0 THEN UNCHANGED led ELSE Light(FALSE)
              /\ pc' = "flash" /\ UNCHANGED result
    /\ UNCHANGED <<ledtrig, echo_fifo, scan, history, dropped>>

PutSpace ==
    /\ pc = "flash" /\ spaces > 0
    /\ \/ ~Full /\ Put(Gap) /\ spaces' = spaces - 1 /\ UNCHANGED <<pc, result>>
       \/ Drop /\ Return("EFAULT") /\ spaces' = 0
    /\ UNCHANGED <<ledtrig, led, dark, scan, curr, morse, history>>

\* flash_leds: the top bits tell a dash from a dot, and are shifted away.
Mark == IF morse >= 57344 THEN Dash ELSE Dot

\* morse << 3 past a dash, morse << 1 past a dot.  Mutant: in a word wider than 16 bits.
ShiftedWide == morse * (IF Mark = Dash THEN 8 ELSE 2)
Shifted == (morse * (IF Mark = Dash THEN 8 ELSE 2)) % 65536

\* Mutants: a full kfifo makes the letter start again; makes the write wait.
FlashStartsAgain ==
    /\ pc = "flash" /\ spaces = 0 /\ morse >= TopBit
    /\ Light(TRUE) /\ dark' = 0
    /\ \/ ~Full /\ Put(Mark) /\ morse' = Shifted
       \/ Drop /\ morse' = morsecode_codes[At(curr)]
    /\ UNCHANGED <<ledtrig, pc, scan, curr, spaces, result, history>>
FlashWaits ==
    /\ pc = "flash" /\ spaces = 0 /\ morse >= TopBit
    /\ Light(TRUE) /\ dark' = 0
    /\ ~Full /\ Put(Mark) /\ morse' = Shifted
    /\ UNCHANGED <<ledtrig, pc, scan, curr, spaces, result, history>>

\* A full kfifo ends the letter, not the write: its error is ignored.
Flash ==
    /\ pc = "flash" /\ spaces = 0 /\ morse >= TopBit
    /\ Light(TRUE) /\ dark' = 0
    /\ \/ ~Full /\ Put(Mark) /\ morse' = Shifted /\ UNCHANGED <<pc, curr>>
       \/ Drop /\ morse' = 0 /\ pc' = "next" /\ curr' = curr + 1
    /\ UNCHANGED <<ledtrig, scan, spaces, result, history>>

FlashGap ==
    /\ pc = "flash" /\ spaces = 0 /\ morse \in 1 .. TopBit - 1
    /\ Light(FALSE) /\ dark' = dark + 1
    /\ morse' = morse * 2
    /\ UNCHANGED <<ledtrig, echo_fifo, pc, scan, curr, spaces, result, history, dropped>>

LetterEnds ==
    /\ pc = "flash" /\ spaces = 0 /\ morse = 0
    /\ pc' = "next" /\ curr' = curr + 1
    /\ UNCHANGED <<ledtrig, echo_fifo, led, dark, scan, spaces, morse, result, history, dropped>>

WriteEnds ==
    /\ pc = "next" /\ curr >= end
    /\ Light(FALSE)
    /\ \/ ~Full /\ Put(Newline) /\ Return("count")
       \/ Drop /\ Return("EFAULT")
    /\ UNCHANGED <<ledtrig, dark, scan, curr, spaces, morse, history>>

my_write == \/ Trim \/ NextLetter \/ PutSpace \/ Flash \/ FlashGap \/ LetterEnds \/ WriteEnds
Next == led_register \/ my_read \/ WriteStart \/ my_write

Spec == Init /\ [][Next]_vars
FairSpec == Spec /\ WF_vars(my_write)
----------------------------------------------------------------------------
\* Types: the code is a 16-bit word, the light's state a Boolean.
TypeOK ==
    /\ ledtrig \in BOOLEAN /\ led \in BOOLEAN /\ dark \in Nat
    /\ echo_fifo \in Seq(Symbols) /\ Len(echo_fifo) <= FIFO_SIZE
    /\ pc \in {"idle", "trim", "next", "flash"} /\ result \in {"none", "count", "EFAULT"}
    /\ {start, curr, end} \subseteq Int /\ spaces \in 0 .. 3 /\ morse \in Word
    /\ writes \in 0 .. Len(Texts)

Delivered == received \o echo_fifo

\* As long as the kfifo never overflowed, readers get the standard Morse code
\* of every text, in order, whatever is between its letters and around it;
\* all of it once the write is over (my_write, flash_leds, trim_spaces).
ReadersGetTheText ==
    ~dropped /\ ~stray => /\ IsPrefix(Delivered, expected)
                          /\ pc = "idle" => Delivered = expected

\* An overflow loses symbols but never adds or swaps any.
OverflowOnlyLoses == ~stray => Subsequence(Delivered, expected)

Trailing(s) == Cardinality({i \in 1 .. Len(s) : \A j \in i .. Len(s) : s[j] = Gap})

\* The light tells what the kfifo tells: inside a text it was dark for 1, 3 or
\* 7 dot times as a mark follows a mark, a letter gap or a word gap.
DarkAsLongAsTold ==
    [][LET told == Trailing(Delivered) IN
       Flash /\ ~dropped' /\ Delivered # <<>> /\ Last(Delivered) # Newline
         => dark = (CASE told = 0 -> 1 [] told = 1 -> 3 [] told = 3 -> 7)]_vars

\* A write always returns, full kfifo or not: there is no wait in it but sleeps.
WriteReturns == pc # "idle" ~> pc = "idle"
============================================================================
