----------------------------- MODULE AudioMixer -----------------------------
(***************************************************************************)
(* The mixing in work/pcmExample/audiomixer.c down to the samples:         *)
(* AudioMixer_queueSound and fillPlaybackBuffer, each run under audioMutex *)
(* (BeatBox shows that they exclude each other) on live wave data.         *)
(***************************************************************************)
EXTENDS SoundBites, Sequences

CONSTANTS
    Sound,                \* the sounds that can be queued
    Pcm,                  \* sound -> its samples (pData, numSamples)
    playbackBufferSize,   \* samples per period
    SAMPLE_SIZE,          \* bytes per sample
    SHRT_MAX              \* 32767 on the target

SHRT_MIN == -SHRT_MAX - 1

ASSUME SamplesAssumption ==
    /\ Pcm \in [Sound -> Seq(SHRT_MIN .. SHRT_MAX)]
    /\ \A s \in Sound : Len(Pcm[s]) > 0
ASSUME MixerAssumption ==
    /\ NULL \notin Sound
    /\ playbackBufferSize \in Nat \ {0} /\ SAMPLE_SIZE \in Nat \ {0} /\ SHRT_MAX \in Nat

(***************************************************************************)
(* What only the refinement needs: curr_size (audiomixer.c:316) counts     *)
(* bytes and is compared with samples, so a period must be longer than     *)
(* that count can be when the scan comes to the last slot.  It is: 30      *)
(* slots make 58, and a share of the 50 ms asked of ALSA at 44100 Hz is    *)
(* several hundred samples.                                                *)
(***************************************************************************)
ASSUME ScanAssumption ==
    /\ IsFiniteSet(Sound)
    /\ SAMPLE_SIZE * (MAX_SOUND_BITES - 1) < playbackBufferSize

VARIABLES
    playbackBuffer,   \* the block last filled
    queued            \* whether the last queueSound returned 0

vars == <<bitesVars, playbackBuffer, queued>>

Frames == 0 .. playbackBufferSize - 1

Init ==
    /\ InitBites
    /\ playbackBuffer = [k \in Frames |-> 0]
    /\ queued = TRUE

AudioMixer_queueSound(s) ==
    /\ \/ QueueAccepted(s) /\ queued' = TRUE
       \/ QueueRefused /\ queued' = FALSE
    /\ UNCHANGED playbackBuffer
----------------------------------------------------------------------------
\* A slip: no clipping, the sum wraps as a short does.
clipNumWraps(num) ==
    ((num + SHRT_MAX + 1) % (2 * SHRT_MAX + 2)) - SHRT_MAX - 1

clipNum(num) ==
    IF num > SHRT_MAX THEN SHRT_MAX - 1
    ELSE IF num < SHRT_MIN THEN SHRT_MIN + 1
    ELSE num

numSamples(i) == Len(Pcm[soundBites[i].pSound])

\* The position after this period's pass over slot i.
NextOffset(i) ==
    LET upto == soundBites[i].location + playbackBufferSize
    IN  IF numSamples(i) < upto THEN numSamples(i) ELSE upto

\* buff after the inner loop has added slot i to it
AddSlot(buff, i) ==
    [k \in Frames |->
        LET j == soundBites[i].location + k
        IN  IF j < numSamples(i) THEN clipNum(buff[k] + Pcm[soundBites[i].pSound][j + 1])
                                 ELSE buff[k]]

(***************************************************************************)
(* The outer loop's condition: curr_size grows by SAMPLE_SIZE per active   *)
(* slot, and the scan stops once it reaches the size of the buffer.        *)
(***************************************************************************)
curr_size(i) == SAMPLE_SIZE * Cardinality({j \in Occupied : j < i})

Mixed == {i \in Occupied : curr_size(i) < playbackBufferSize}

\* The buffer after the slots below n, from silence.
Mix[n \in 0 .. MAX_SOUND_BITES] ==
    IF n = 0 THEN [k \in Frames |-> 0]
    ELSE IF n - 1 \in Mixed THEN AddSlot(Mix[n - 1], n - 1)
    ELSE Mix[n - 1]

\* A slip: the last buffer of a sound leaves its slot behind.
EndedLate == {i \in Mixed : NextOffset(i) > numSamples(i)}

Ended == {i \in Mixed : NextOffset(i) >= numSamples(i)}

fillPlaybackBuffer ==
    /\ playbackBuffer' = Mix[MAX_SOUND_BITES]
    /\ soundBites' = [i \in Slots |->
         IF i \in Ended THEN FreeBite
         ELSE IF i \in Mixed THEN [pSound |-> soundBites[i].pSound, location |-> NextOffset(i)]
         ELSE soundBites[i]]
    /\ numSoundBites' = numSoundBites - Cardinality(Ended)
    /\ UNCHANGED queued
----------------------------------------------------------------------------
Next == fillPlaybackBuffer \/ \E s \in Sound : AudioMixer_queueSound(s)

Spec == Init /\ [][Next]_vars
----------------------------------------------------------------------------
(***************************************************************************)
(* Types; a slot in use is short of its sound's end.                       *)
(***************************************************************************)
TypeOK ==
    /\ soundBites \in [Slots -> [pSound : Sound \cup {NULL}, location : Nat]]
    /\ \A i \in Occupied : soundBites[i].location < numSamples(i)
    /\ numSoundBites \in 0 .. MAX_SOUND_BITES
    /\ playbackBuffer \in [Frames -> SHRT_MIN .. SHRT_MAX]
    /\ queued \in BOOLEAN

(***************************************************************************)
(* The abstract mixer: the slots in use, whatever their order and however  *)
(* they are reused, are its voices.                                        *)
(***************************************************************************)
Abstract == INSTANCE Voices WITH
    MaxVoices <- MAX_SOUND_BITES,
    Period <- playbackBufferSize,
    SampleMax <- SHRT_MAX,
    voices <- [v \in UNION {{s} \X (0 .. Len(Pcm[s]) - 1) : s \in Sound} |->
                 Cardinality({i \in Slots :
                    soundBites[i] = [pSound |-> v[1], location |-> v[2]]})],
    output <- playbackBuffer,
    accepted <- queued

(***************************************************************************)
(* The table implements the abstract mixer: no queued sound is lost, cut,  *)
(* repeated or delayed by a period, a full table refuses and only then,    *)
(* and a block is the saturated sum of its voices (audiomixer.c:312-346).  *)
(***************************************************************************)
VoicesSpec == Abstract!Spec
=============================================================================
