------------------------- MODULE ReactionGameProofs -------------------------
(***************************************************************************)
(* The light, the best time and the quit flag of the reaction game, for    *)
(* every set of waiting times and every limit.                             *)
(***************************************************************************)
EXTENDS ReactionGame, TLAPS

Lamp == IF toPress = "UP" THEN 0 ELSE 3

\* While an answer is expected the LED of the direction is lit, and no other.
LampLit == pc \in {"react", "look"} => leds = {Lamp}

\* A flag that is set finds the game outside of the reaction, and dark.
QuitDark == quit => leds = {} /\ pc \in {"head", "wait", "sleep", "ended", "failed"}

IInv == TypeOK /\ DarkUnlessReacting /\ LampLit /\ QuitDark

USE GameAssumption DEF GameAssumption

LEMMA InitIInv == Init => IInv
<1> SUFFICES ASSUME Init PROVE IInv
  OBVIOUS
<1>1. TypeOK
  <2>1. Limit \in 0 .. Limit /\ 0 \in 0 .. Limit + 1
    BY SMT
  <2> QED BY <2>1 DEF Init, TypeOK, Directions, Sides, LEDs
<1> QED BY <1>1 DEF Init, IInv, DarkUnlessReacting, LampLit, QuitDark

LEMMA WaitStep ==
  ASSUME IInv, Leave \/ GetReady \/ TooSoon \/ QuitWaiting \/ QuitLate \/ Go
  PROVE  IInv'
<1>1. CASE Leave
  BY <1>1 DEF Leave, Step, IInv, TypeOK, DarkUnlessReacting, LampLit, Lamp, QuitDark, round, score
<1>2. CASE GetReady
  BY <1>2 DEF GetReady, Step, IInv, TypeOK, DarkUnlessReacting, LampLit, Lamp, QuitDark, round, score
<1>3. CASE TooSoon
  BY <1>3 DEF TooSoon, Step, IInv, TypeOK, DarkUnlessReacting, LampLit, Lamp, QuitDark, round, score
<1>4. CASE QuitWaiting
  BY <1>4 DEF QuitWaiting, resetLEDs, Step, IInv, TypeOK, DarkUnlessReacting, LampLit, Lamp, QuitDark, LEDs, round, score
<1>5. CASE QuitLate
  BY <1>5 DEF QuitLate, resetLEDs, Step, IInv, TypeOK, DarkUnlessReacting, LampLit, Lamp, QuitDark, LEDs, round, score
<1>6. CASE Go
  <2>1. leds' = {Lamp'} /\ Lamp' \in LEDs /\ ~quit' /\ pc' = "react"
    BY <1>6 DEF Go, Step, IInv, DarkUnlessReacting, Lamp, LEDs, round
  <2>2. TypeOK'
    BY <1>6, <2>1 DEF Go, Step, IInv, TypeOK, round, score
  <2> QED BY <2>1, <2>2 DEF IInv, DarkUnlessReacting, LampLit, QuitDark
<1> QED BY <1>1, <1>2, <1>3, <1>4, <1>5, <1>6

LEMMA ReactStep ==
  ASSUME IInv, ReadClock \/ NoInput \/ Correct \/ Incorrect \/ QuitReacting \/ LookAgain
  PROVE  IInv'
<1>1. CASE ReadClock
  BY <1>1 DEF ReadClock, Step, IInv, TypeOK, DarkUnlessReacting, LampLit, Lamp, QuitDark, round
<1>2. CASE NoInput
  BY <1>2 DEF NoInput, resetLEDs, Step, IInv, TypeOK, DarkUnlessReacting, LampLit, Lamp, QuitDark, LEDs, round
<1>3. CASE Correct
  BY <1>3 DEF Correct, Step, IInv, TypeOK, DarkUnlessReacting, LampLit, Lamp, QuitDark, round
<1>4. CASE Incorrect
  BY <1>4 DEF Incorrect, Step, IInv, TypeOK, DarkUnlessReacting, LampLit, Lamp, QuitDark, round, score
<1>5. CASE QuitReacting
  BY <1>5 DEF QuitReacting, resetLEDs, Step, IInv, TypeOK, DarkUnlessReacting, LampLit, Lamp, QuitDark, LEDs, round, score
<1>6. CASE LookAgain
  BY <1>6 DEF LookAgain, Step, IInv, TypeOK, DarkUnlessReacting, LampLit, Lamp, QuitDark, round, score
<1> QED BY <1>1, <1>2, <1>3, <1>4, <1>5, <1>6

LEMMA OtherStep ==
  ASSUME IInv, flashLEDs \/ SleepEnds \/ Exit \/ getTimeInMs \/ Move \/ UNCHANGED vars
  PROVE  IInv'
<1>1. CASE flashLEDs
  BY <1>1 DEF flashLEDs, Flash, FlashEnds, Step, IInv, TypeOK, DarkUnlessReacting, LampLit, Lamp, QuitDark, LEDs, round, score
<1>2. CASE SleepEnds
  BY <1>2 DEF SleepEnds, Step, IInv, TypeOK, DarkUnlessReacting, LampLit, Lamp, QuitDark, round, score
<1>3. CASE Exit
  BY <1>3 DEF Exit, IInv, TypeOK, DarkUnlessReacting, LampLit, Lamp, QuitDark, round, score
<1>4. CASE getTimeInMs
  BY <1>4 DEF getTimeInMs, IInv, TypeOK, DarkUnlessReacting, LampLit, Lamp, QuitDark, round, score
<1>5. CASE Move
  BY <1>5 DEF Move, IInv, TypeOK, DarkUnlessReacting, LampLit, Lamp, QuitDark, round, score
<1>6. CASE UNCHANGED vars
  BY <1>6 DEF vars, IInv, TypeOK, DarkUnlessReacting, LampLit, Lamp, QuitDark, round, score
<1> QED BY <1>1, <1>2, <1>3, <1>4, <1>5, <1>6

LEMMA Inductive == Spec => []IInv
<1>1. IInv /\ [Next]_vars => IInv'
  BY WaitStep, ReactStep, OtherStep DEF Next, main
<1> QED BY InitIInv, <1>1, PTL DEF Spec

\* Types for every set of waiting times and every limit; a time that counts is
\* below the limit (hello.c:75-81).
THEOREM GameTyped == Spec => []TypeOK
BY Inductive, PTL DEF IInv

\* No LED is lit in a wait, in a pause or after the end, whichever of the five
\* ways a round took (hello.c:58-104).
THEOREM DarkRounds == Spec => []DarkUnlessReacting
BY Inductive, PTL DEF IInv

\* Only the press of the one direction that is lit improves the best time
\* (hello.c:64-81).
THEOREM BestEarned == Spec => BestIsEarned
<1>1. ASSUME IInv, [Next]_vars, currentBest' # currentBest
      PROVE  /\ currentBest' < currentBest
             /\ \/ pressed = "UP" /\ leds = {0}
                \/ pressed = "DOWN" /\ leds = {3}
  <2>1. Correct
    BY <1>1 DEF Next, main, Leave, GetReady, TooSoon, QuitWaiting, QuitLate, Go, ReadClock, NoInput,
                Incorrect, QuitReacting, LookAgain, flashLEDs, Flash, FlashEnds, SleepEnds, Exit,
                getTimeInMs, Move, vars, score
  <2>2. currentBest' < currentBest
    BY <1>1, <2>1 DEF Correct, IInv, TypeOK
  <2>3. pressed = toPress /\ leds = {Lamp} /\ toPress \in {"UP", "DOWN"}
    BY <1>1, <2>1 DEF Correct, Step, IInv, TypeOK, LampLit, Directions
  <2> QED BY <2>2, <2>3 DEF Lamp
<1> QED BY <1>1, Inductive, PTL DEF Spec, BestIsEarned

\* Once the player has quit no LED is lit again, though the game may go through
\* another wait before it ends (hello.c:57, 95-99).
THEOREM QuitDarkens == Spec => QuitStaysDark
<1>1. ASSUME IInv, [Next]_vars, quit PROVE leds' = {}
  <2>1. quit'
    BY <1>1 DEF Next, main, Leave, GetReady, TooSoon, QuitWaiting, QuitLate, Go, ReadClock, NoInput, Correct,
                Incorrect, QuitReacting, LookAgain, flashLEDs, Flash, FlashEnds, SleepEnds, Exit,
                getTimeInMs, Move, vars, IInv, TypeOK
  <2>2. IInv'
    BY <1>1, WaitStep, ReactStep, OtherStep DEF Next, main
  <2> QED BY <2>1, <2>2 DEF IInv, QuitDark
<1> QED BY <1>1, Inductive, PTL DEF Spec, QuitStaysDark
============================================================================
