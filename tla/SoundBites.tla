----------------------------- MODULE SoundBites -----------------------------
(***************************************************************************)
(* The soundBites[] table of work/pcmExample/audiomixer.c: a fixed array   *)
(* of slots, each holding a pointer to the sound being played and the      *)
(* position reached in it, and the counter numSoundBites of slots in use.  *)
(* The table is written by AudioMixer_init, AudioMixer_queueSound and      *)
(* fillPlaybackBuffer; the modules that model those callers extend this    *)
(* one and add what a sound is.                                            *)
(***************************************************************************)
EXTENDS Integers, FiniteSets

CONSTANTS
    MAX_SOUND_BITES,  \* slots in the table (30 in the code)
    NULL              \* the null pointer: no sound in the slot

ASSUME SlotsAssumption == MAX_SOUND_BITES \in Nat \ {0}

VARIABLES
    soundBites,       \* slot -> [pSound, location]
    numSoundBites     \* slots in use, kept by hand by the code

bitesVars == <<soundBites, numSoundBites>>

Slots == 0 .. MAX_SOUND_BITES - 1

FreeBite == [pSound |-> NULL, location |-> 0]

Occupied == {i \in Slots : soundBites[i].pSound # NULL}

InitBites ==
    /\ soundBites = [i \in Slots |-> FreeBite]
    /\ numSoundBites = 0

(***************************************************************************)
(* AudioMixer_queueSound: the first free slot takes the pointer.  The code *)
(* does not write location, which the slot's last release left at 0.       *)
(***************************************************************************)
QueueAt(i, sound) ==
    /\ soundBites[i].pSound = NULL
    /\ \A j \in 0 .. i - 1 : soundBites[j].pSound # NULL
    /\ soundBites' = [soundBites EXCEPT ![i] = [pSound |-> sound, location |-> @.location]]
    /\ numSoundBites' = numSoundBites + 1

QueueAccepted(sound) == \E i \in Slots : QueueAt(i, sound)

\* "No more free slots available in soundBites array!": return -1
QueueRefused == Occupied = Slots /\ UNCHANGED bitesVars

QueueSound(sound) == QueueAccepted(sound) \/ QueueRefused

\* A slip of a release: the counter is left as it was.
ReleaseSlotKeepsCount(i) ==
    /\ soundBites' = [soundBites EXCEPT ![i] = FreeBite]
    /\ UNCHANGED numSoundBites

(***************************************************************************)
(* The end of fillPlaybackBuffer's work on slot i: the position is saved,  *)
(* or the slot is given back once `numSamples' samples have been played.   *)
(***************************************************************************)
ReleaseSlot(i) ==
    /\ soundBites' = [soundBites EXCEPT ![i] = FreeBite]
    /\ numSoundBites' = numSoundBites - 1

AdvanceSlot(i, offset) ==
    /\ soundBites' = [soundBites EXCEPT ![i] = [pSound |-> @.pSound, location |-> offset]]
    /\ UNCHANGED numSoundBites

FinishSlot(i, offset, numSamples) ==
    IF offset >= numSamples THEN ReleaseSlot(i) ELSE AdvanceSlot(i, offset)

(***************************************************************************)
(* The hand-kept counter is the number of slots in use after every queue   *)
(* and release, also when several sounds end in one period or the table    *)
(* is full (audiomixer.c:179 and :335).                                    *)
(***************************************************************************)
SlotCount == numSoundBites = Cardinality(Occupied)

(***************************************************************************)
(* A free slot always has location 0: queueSound relies on it, since it    *)
(* never resets location (audiomixer.c:178), so a sound queued into a used *)
(* slot starts at its first sample.                                        *)
(***************************************************************************)
FreshSlots == \A i \in Slots : soundBites[i].pSound = NULL => soundBites[i] = FreeBite
=============================================================================
