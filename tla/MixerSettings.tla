---------------------------- MODULE MixerSettings ----------------------------
(***************************************************************************)
(* Volume, tempo and mode of work/pcmExample/audiomixer.c, and the mixer   *)
(* control of the sound card that setVolume drives.  The joystick thread   *)
(* and the UDP thread change them with no lock; main and the playback      *)
(* thread only read them.  Each load and store of a shared variable is a   *)
(* step of its own: the build has no optimization (makefile), so           *)
(* currentMode is loaded once for the test and again for the increment.    *)
(*                                                                         *)
(* The state starts after AudioMixer_init has set the default volume,      *)
(* before either thread runs.  Replies to the web page are left out.       *)
(***************************************************************************)
EXTENDS Integers

CONSTANTS
    Threads,                \* which of "joystick" and "udp" are in use
    AUDIOMIXER_MAX_VOLUME,  \* 100 in the code, also setVolume's divisor
    AUDIOMIXER_MAX_TEMPO,   \* 500
    DEFAULT_VOLUME,         \* 50
    DefaultTempo,           \* 70
    Step,                   \* 5: one press, or one click on the page
    HardwareMax,            \* top of the card's volume range
    ModeBound               \* the model stops counting modes here

ASSUME SettingsAssumption ==
    /\ Threads \subseteq {"joystick", "udp"}
    /\ AUDIOMIXER_MAX_VOLUME \in Nat \ {0} /\ AUDIOMIXER_MAX_TEMPO \in Nat
    /\ DEFAULT_VOLUME \in 0 .. AUDIOMIXER_MAX_VOLUME
    /\ DefaultTempo \in 0 .. AUDIOMIXER_MAX_TEMPO
    /\ Step \in Nat /\ HardwareMax \in Nat
    /\ ModeBound \in Nat /\ ModeBound >= 3

VARIABLES
    volume, tempo, currentMode,  \* the cached settings
    hardware,                    \* what the sound card was last set to
    pc,                          \* thread -> where it is in a call
    arg,                         \* thread -> its local: the new value, or the level
    modeRaced, cardRaced         \* history: see SetMode and SetVolume

races == <<modeRaced, cardRaced>>
settingsVars == <<volume, tempo, currentMode, hardware, pc, arg, races>>

Modes == 1 .. 3  \* NONE, ROCK, CUSTOM

HardwareLevel(v) == (v * HardwareMax) \div AUDIOMIXER_MAX_VOLUME

InitSettings ==
    /\ volume = DEFAULT_VOLUME
    /\ tempo = DefaultTempo
    /\ currentMode = 1
    /\ hardware = HardwareLevel(DEFAULT_VOLUME)
    /\ pc = [t \in Threads |-> "idle"]
    /\ arg = [t \in Threads |-> 0]
    /\ modeRaced = FALSE /\ cardRaced = FALSE

\* Thread t moves from one place of its call to the next.
Go(t, from, to) == pc[t] = from /\ pc' = [pc EXCEPT ![t] = to]
Local(t, v) == arg' = [arg EXCEPT ![t] = v]
----------------------------------------------------------------------------
\* setVolume(getVolume() + 5) or - 5: the argument is read first
ChangeVolume(t) ==
    /\ Go(t, "idle", "setVolume")
    /\ \E delta \in {Step, -Step} : Local(t, volume + delta)
    /\ UNCHANGED <<volume, tempo, currentMode, hardware, races>>

\* Another call has its level worked out and not yet on the card.
AnotherAtCard(t) == \E u \in Threads \ {t} : pc[u] = "card"

\* A slip: the range is checked on the cached value, not on the argument.
SetVolumeChecksCache(t) ==
    /\ pc[t] = "setVolume"
    /\ IF volume \in 0 .. AUDIOMIXER_MAX_VOLUME
         THEN /\ volume' = arg[t] /\ Go(t, "setVolume", "scale")
              /\ cardRaced' = AnotherAtCard(t)
         ELSE Go(t, "setVolume", "idle") /\ UNCHANGED <<volume, cardRaced>>
    /\ UNCHANGED <<tempo, currentMode, hardware, arg, modeRaced>>

\* A slip: the card is set up only when the volume goes up.
SetVolumeSkipsCard(t) ==
    /\ pc[t] = "setVolume"
    /\ IF arg[t] \in 0 .. AUDIOMIXER_MAX_VOLUME
         THEN /\ volume' = arg[t]
              /\ IF arg[t] > volume THEN Go(t, "setVolume", "scale")
                                    ELSE Go(t, "setVolume", "idle")
              /\ cardRaced' = AnotherAtCard(t)
         ELSE Go(t, "setVolume", "idle") /\ UNCHANGED <<volume, cardRaced>>
    /\ UNCHANGED <<tempo, currentMode, hardware, arg, modeRaced>>

\* The range check on the argument, and the cache; cardRaced notes whether the
\* last value was cached while another call was about to write an older level.
SetVolume(t) ==
    /\ pc[t] = "setVolume"
    /\ IF arg[t] \in 0 .. AUDIOMIXER_MAX_VOLUME
         THEN /\ volume' = arg[t] /\ Go(t, "setVolume", "scale")
              /\ cardRaced' = AnotherAtCard(t)
         ELSE Go(t, "setVolume", "idle") /\ UNCHANGED <<volume, cardRaced>>
    /\ UNCHANGED <<tempo, currentMode, hardware, arg, modeRaced>>

\* The card is opened; the cached volume is read again for the level.
ScaleVolume(t) ==
    /\ Go(t, "scale", "card")
    /\ Local(t, HardwareLevel(volume))
    /\ UNCHANGED <<volume, tempo, currentMode, hardware, races>>

WriteCard(t) ==
    /\ Go(t, "card", "idle")
    /\ hardware' = arg[t]
    /\ UNCHANGED <<volume, tempo, currentMode, arg, races>>

ChangeTempo(t) ==
    /\ Go(t, "idle", "setTempo")
    /\ \E delta \in {Step, -Step} : Local(t, tempo + delta)
    /\ UNCHANGED <<volume, tempo, currentMode, hardware, races>>

SetTempo(t) ==
    /\ Go(t, "setTempo", "idle")
    /\ tempo' = IF arg[t] \in 0 .. AUDIOMIXER_MAX_TEMPO THEN arg[t] ELSE tempo
    /\ UNCHANGED <<volume, currentMode, hardware, arg, races>>
----------------------------------------------------------------------------
Cycling(place) == \E t \in Threads : pc[t] = place

(***************************************************************************)
(* "modeNone", "modeRock" and "modeCustom" come from the page only.        *)
(* modeRaced notes that CUSTOM came between cycleNextMode's test and its   *)
(* second load; a mode set outside of the cycle, or before the load, makes *)
(* good again, one set before the store is lost.                           *)
(***************************************************************************)
SetMode ==
    /\ pc["udp"] = "idle"
    /\ currentMode' \in Modes
    /\ modeRaced' = \/ Cycling("load") /\ currentMode' = 3
                    \/ Cycling("store") /\ modeRaced
    /\ UNCHANGED <<volume, tempo, hardware, pc, arg, cardRaced>>

\* A slip: the cycle is taken to have four modes.
CycleTestFour ==
    /\ IF currentMode = 4 THEN Go("joystick", "idle", "wrap")
                          ELSE Go("joystick", "idle", "load")
    /\ UNCHANGED <<volume, tempo, currentMode, hardware, arg, races>>

(***************************************************************************)
(* AudioMixer_cycleNextMode, on a press of the joystick: the test, then    *)
(* the store of 1, or the load and the store of the increment.             *)
(***************************************************************************)
CycleTest ==
    /\ IF currentMode = 3 THEN Go("joystick", "idle", "wrap")
                          ELSE Go("joystick", "idle", "load")
    /\ UNCHANGED <<volume, tempo, currentMode, hardware, arg, races>>

CycleWrap ==
    /\ Go("joystick", "wrap", "idle")
    /\ currentMode' = 1
    /\ UNCHANGED <<volume, tempo, hardware, arg, races>>

CycleLoad ==
    /\ currentMode < ModeBound
    /\ Go("joystick", "load", "store")
    /\ Local("joystick", currentMode + 1)
    /\ UNCHANGED <<volume, tempo, currentMode, hardware, races>>

CycleStore ==
    /\ Go("joystick", "store", "idle")
    /\ currentMode' = arg["joystick"]
    /\ UNCHANGED <<volume, tempo, hardware, arg, races>>
----------------------------------------------------------------------------
ThreadStep(t) ==
    \/ ChangeVolume(t) \/ SetVolume(t) \/ ScaleVolume(t) \/ WriteCard(t)
    \/ ChangeTempo(t) \/ SetTempo(t)
    \/ t = "udp" /\ SetMode
    \/ t = "joystick" /\ (CycleTest \/ CycleWrap \/ CycleLoad \/ CycleStore)

NextSettings == \E t \in Threads : ThreadStep(t)

SettingsSpec == InitSettings /\ [][NextSettings]_settingsVars
----------------------------------------------------------------------------
Places == {"idle", "setVolume", "scale", "card", "setTempo", "wrap", "load", "store"}

(***************************************************************************)
(* Types of the settings and of the two threads' calls.                    *)
(***************************************************************************)
SettingsTypeOK ==
    /\ volume \in Int /\ tempo \in Int /\ hardware \in Int
    /\ currentMode \in 1 .. ModeBound
    /\ pc \in [Threads -> Places]
    /\ arg \in [Threads -> Int]

(***************************************************************************)
(* Whatever the two threads interleave, volume and tempo stay within their *)
(* limits and the card within its own: setVolume and setTempo check and    *)
(* store the same argument, so a value that changed since it was read      *)
(* cannot carry a press over the limit (audiomixer.c:235-239, :275-279).   *)
(***************************************************************************)
SettingsInRange ==
    /\ volume \in 0 .. AUDIOMIXER_MAX_VOLUME
    /\ tempo \in 0 .. AUDIOMIXER_MAX_TEMPO
    /\ hardware \in 0 .. HardwareMax

(***************************************************************************)
(* The mode is one of enum beatMode (audiomixer.h:18), however the page's  *)
(* modes fall into the steps of cycleNextMode (audiomixer.c:253-257), with *)
(* one exception: CUSTOM between its test and its load.  The next mode set *)
(* from the page outside of a cycle ends the exception.                    *)
(***************************************************************************)
ModeUnlessRaced == ~modeRaced => currentMode \in Modes

(***************************************************************************)
(* With no setVolume in progress the card has the cached volume            *)
(* (audiomixer.c:298), however calls overlap, with one exception: the last *)
(* value was cached while another call had its level and was about to      *)
(* write it.  The next value cached with nobody there ends the exception.  *)
(***************************************************************************)
CardUnlessRaced ==
    ~cardRaced /\ (\A t \in Threads : pc[t] \notin {"scale", "card"}) =>
        hardware = HardwareLevel(volume)
=============================================================================
