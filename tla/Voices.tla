------------------------------- MODULE Voices -------------------------------
(***************************************************************************)
(* What the audio mixer promises its callers, with no table: a number of   *)
(* voices may sound at once; a sound is accepted when there is room and    *)
(* then plays from its first sample to its last without a gap, one buffer  *)
(* per period; and a buffer is the sum of what its voices play, saturated  *)
(* where the sum does not fit a sample.                                    *)
(***************************************************************************)
EXTENDS Integers, FiniteSets, Sequences, Functions

CONSTANTS
    Sound,       \* the sounds that can be queued
    Pcm,         \* sound -> its samples
    MaxVoices,   \* voices that can sound at once
    Period,      \* samples per buffer
    SampleMax    \* largest sample; the smallest is -SampleMax - 1

VARIABLES
    voices,      \* <<sound, position>> -> how many voices are there
    output,      \* the buffer last handed to the device
    accepted     \* whether the last request was accepted

voicesVars == <<voices, output, accepted>>

Voice == UNION {{s} \X (0 .. Len(Pcm[s]) - 1) : s \in Sound}

Frames == 0 .. Period - 1

VoiceCount == SumFunction(voices)

Init ==
    /\ voices = [v \in Voice |-> 0]
    /\ output = [k \in Frames |-> 0]
    /\ accepted = TRUE

Accept(s) ==
    /\ VoiceCount < MaxVoices
    /\ voices' = [voices EXCEPT ![<<s, 0>>] = @ + 1]
    /\ accepted' = TRUE
    /\ UNCHANGED output

Refuse ==
    /\ VoiceCount = MaxVoices
    /\ accepted' = FALSE
    /\ UNCHANGED <<voices, output>>

\* What voice v contributes to frame k of the next buffer.
Sample(v, k) == IF v[2] + k < Len(Pcm[v[1]]) THEN Pcm[v[1]][v[2] + k + 1] ELSE 0

SumAt(k, Wanted(_)) ==
    SumFunction([v \in Voice |-> IF Wanted(Sample(v, k)) THEN voices[v] * Sample(v, k) ELSE 0])

RisesAt(k) == SumAt(k, LAMBDA x : x > 0)
FallsAt(k) == SumAt(k, LAMBDA x : x < 0)

(***************************************************************************)
(* A frame is the exact sum when no order of adding its voices can leave   *)
(* the range of a sample.  Voices that all push one way beyond it saturate *)
(* at that end; otherwise the frame is some sample.                        *)
(***************************************************************************)
GoodFrame(k, x) ==
    LET up == RisesAt(k)
        down == FallsAt(k)
    IN  /\ x \in -SampleMax - 1 .. SampleMax
        /\ up <= SampleMax /\ down >= -SampleMax - 1 => x = up + down
        /\ up > SampleMax /\ down = 0 => x \in {SampleMax - 1, SampleMax}
        /\ up = 0 /\ down < -SampleMax - 1 => x \in {-SampleMax, -SampleMax - 1}

PlayPeriod ==
    /\ voices' = [v \in Voice |-> IF v[2] >= Period THEN voices[<<v[1], v[2] - Period>>] ELSE 0]
    /\ DOMAIN output' = Frames
    /\ \A k \in Frames : GoodFrame(k, output'[k])
    /\ UNCHANGED accepted

Next == Refuse \/ PlayPeriod \/ \E s \in Sound : Accept(s)

Spec == Init /\ [][Next]_voicesVars
=============================================================================
