---------------------------- MODULE ReactionGame ----------------------------
(***************************************************************************)
(* The reaction game (work/as1): wait for a random time, light the LED of  *)
(* a direction, measure how long the player takes.  The loop polls the     *)
(* joystick and the clock; the player and the clock go on between any two  *)
(* looks.  Times are in the unit of the constants; the clock stands still  *)
(* for the model when its value can make no more difference.               *)
(***************************************************************************)
EXTENDS Integers

CONSTANTS
    WaitTimes,   \* of chooseWaitTime
    Limit        \* 5000

ASSUME GameAssumption == Limit \in Nat \ {0} /\ WaitTimes \subseteq 0 .. Limit

Directions == {"UP", "DOWN"}
Sides == {"LEFT", "RIGHT"}
LEDs == 0 .. 3

VARIABLES
    pc, leds,            \* leds: those that are lit
    pressed,             \* where the player holds the joystick, "none": nowhere
    elapsed,             \* on the clock since timeSinceStart or timeSinceReady
    waitTime, toPress, elapsedTime, currentBest, quit

round == <<waitTime, toPress>>
score == <<elapsedTime, currentBest>>
vars == <<pc, leds, pressed, elapsed, round, score, quit>>

Init ==
    /\ pc = "head" /\ leds = {} /\ pressed \in Directions \cup Sides \cup {"none"}
    /\ elapsed = 0 /\ waitTime \in WaitTimes /\ toPress \in Directions
    /\ elapsedTime = 0 /\ currentBest = Limit /\ quit = FALSE
----------------------------------------------------------------------------
Step(from, to) == pc = from /\ pc' = to /\ UNCHANGED pressed

\* The test of the loop looks at the joystick, not at quit.
Leave ==
    /\ Step("head", "ended") /\ pressed \in Sides
    /\ UNCHANGED <<leds, elapsed, round, score, quit>>

GetReady ==
    /\ Step("head", "wait") /\ pressed \notin Sides
    /\ toPress' \in Directions /\ waitTime' \in WaitTimes /\ elapsed' = 0
    /\ UNCHANGED <<leds, score, quit>>

\* The wait is over only if the clock is seen at waitTime exactly.
StillWaiting == elapsed # waitTime

TooSoon ==
    /\ Step("wait", "sleep") /\ StillWaiting /\ pressed \in Directions
    /\ UNCHANGED <<leds, elapsed, round, score, quit>>

resetLEDs == leds' = leds \ {0, 3}

\* Mutant: without the break.
QuitWaitsOn ==
    /\ Step("wait", "wait") /\ StillWaiting /\ pressed \in Sides
    /\ quit' = TRUE /\ UNCHANGED <<leds, elapsed, round, score>>

QuitWaiting ==
    /\ Step("wait", "ended") /\ StillWaiting /\ pressed \in Sides
    /\ quit' = TRUE /\ resetLEDs /\ UNCHANGED <<elapsed, round, score>>

\* A quit of the last round ends the game here.
QuitLate ==
    /\ Step("wait", "ended") /\ ~StillWaiting /\ quit
    /\ resetLEDs /\ UNCHANGED <<elapsed, round, score, quit>>

\* Mutant: the flag is not looked at.
GoAnyhow ==
    /\ Step("wait", "react") /\ ~StillWaiting
    /\ elapsed' = 0 /\ leds' = leds \cup {IF toPress = "UP" THEN 0 ELSE 3}
    /\ UNCHANGED <<round, score, quit>>

Go ==
    /\ Step("wait", "react") /\ ~StillWaiting /\ ~quit
    /\ elapsed' = 0 /\ leds' = leds \cup {IF toPress = "UP" THEN 0 ELSE 3}
    /\ UNCHANGED <<round, score, quit>>

\* The clock is read before the joystick.
ReadClock ==
    /\ Step("react", "look") /\ elapsed < Limit /\ elapsedTime' = elapsed
    /\ UNCHANGED <<leds, elapsed, round, currentBest, quit>>

\* Mutants: the light stays; the next round begins.
NoInputStaysLit ==
    /\ Step("react", "ended") /\ elapsed >= Limit /\ elapsedTime' = elapsed
    /\ UNCHANGED <<leds, elapsed, round, currentBest, quit>>
NoInputPlaysOn ==
    /\ Step("react", "head") /\ elapsed >= Limit /\ elapsedTime' = elapsed
    /\ resetLEDs /\ UNCHANGED <<elapsed, round, currentBest, quit>>

NoInput ==
    /\ Step("react", "ended") /\ elapsed >= Limit /\ elapsedTime' = elapsed
    /\ resetLEDs /\ UNCHANGED <<elapsed, round, currentBest, quit>>

\* Mutant: any direction will do.
CorrectAnyway ==
    /\ Step("look", "flashOn") /\ pressed \in Directions
    /\ currentBest' = (IF elapsedTime < currentBest THEN elapsedTime ELSE currentBest)
    /\ UNCHANGED <<leds, elapsed, round, elapsedTime, quit>>
Correct ==
    /\ Step("look", "flashOn") /\ pressed = toPress
    /\ currentBest' = (IF elapsedTime < currentBest THEN elapsedTime ELSE currentBest)
    /\ UNCHANGED <<leds, elapsed, round, elapsedTime, quit>>

Incorrect ==
    /\ Step("look", "flashOn") /\ pressed \in Directions \ {toPress}
    /\ UNCHANGED <<leds, elapsed, round, score, quit>>

\* Leaves the inner loop only.
QuitReacting ==
    /\ Step("look", "head") /\ pressed \in Sides
    /\ quit' = TRUE /\ resetLEDs /\ UNCHANGED <<elapsed, round, score>>

LookAgain ==
    /\ Step("look", "react") /\ pressed = "none"
    /\ UNCHANGED <<leds, elapsed, round, score, quit>>

\* flashLEDs, two or ten times, and resetLEDs.
Flash(from, to, lit) == Step(from, to) /\ leds' = lit /\ UNCHANGED <<elapsed, round, score, quit>>
FlashEnds == Flash("flashOff", "sleep", {})
flashLEDs ==
    Flash("flashOn", "flashOff", LEDs) \/ Flash("flashOff", "flashOn", {}) \/ FlashEnds

SleepEnds == Step("sleep", "head") /\ UNCHANGED <<leds, elapsed, round, score, quit>>

\* A file of the joystick or of an LED that cannot be opened.
Exit ==
    /\ pc \in {"head", "wait", "react", "look", "flashOn", "flashOff"}
    /\ pc' = "failed" /\ UNCHANGED <<leds, pressed, elapsed, round, score, quit>>

main ==
    \/ Leave \/ GetReady \/ TooSoon \/ QuitWaiting \/ QuitLate \/ Go
    \/ ReadClock \/ NoInput \/ Correct \/ Incorrect \/ QuitReacting \/ LookAgain
    \/ flashLEDs \/ SleepEnds

getTimeInMs ==
    /\ pc \in {"wait", "react", "look"} /\ elapsed <= Limit /\ elapsed' = elapsed + 1
    /\ UNCHANGED <<pc, leds, pressed, round, score, quit>>

Move ==
    /\ pressed' \in (Directions \cup Sides \cup {"none"}) \ {pressed}
    /\ UNCHANGED <<pc, leds, elapsed, round, score, quit>>

Next == main \/ Exit \/ getTimeInMs \/ Move

Spec == Init /\ [][Next]_vars

\* The loop runs, time passes, and flashing comes to an end.
FairSpec == Spec /\ WF_vars(main) /\ WF_vars(getTimeInMs) /\ SF_vars(FlashEnds)
----------------------------------------------------------------------------
\* Types; the best time never leaves the range of a reaction.
TypeOK ==
    /\ pc \in {"head", "wait", "react", "look", "flashOn", "flashOff", "sleep", "ended", "failed"}
    /\ leds \subseteq LEDs /\ pressed \in Directions \cup Sides \cup {"none"}
    /\ elapsed \in 0 .. Limit + 1 /\ waitTime \in WaitTimes /\ toPress \in Directions
    /\ elapsedTime \in 0 .. Limit + 1 /\ (pc = "look" => elapsedTime < Limit)
    /\ currentBest \in 0 .. Limit /\ quit \in BOOLEAN

\* The player sees an LED only while an answer is expected or has been given,
\* whichever way the round before and the game ended (hello.c:58-104).
DarkUnlessReacting == pc \in {"head", "wait", "sleep", "ended"} => leds = {}

\* Only the press of the direction whose LED alone is lit improves the best time.
BestIsEarned ==
    [][currentBest' # currentBest =>
         /\ currentBest' < currentBest
         /\ \/ pressed = "UP" /\ leds = {0}
            \/ pressed = "DOWN" /\ leds = {3}]_vars

\* A quit outlasts its round: no LED is lit any more (hello.c:57).
QuitStaysDark == [][quit => leds' = {}]_vars

Over == pc \in {"ended", "failed"}

\* "(Press left or right to exit)" (hello.c:25): whoever holds it there gets out.
HoldingEnds == <>[](pressed \in Sides) => <>Over

Missed == pc = "wait" /\ elapsed > waitTime

\* Left alone the game ends, unless the loop missed the very millisecond.
NoInputEnds == <>[](pressed = "none") => <>(Over \/ []Missed)
============================================================================
