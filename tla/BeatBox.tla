------------------------------ MODULE BeatBox ------------------------------
(***************************************************************************)
(* The threads of the beat-box program (work/pcmExample): main             *)
(* (beatbox.c), the playback thread (audiomixer.c), the UDP listener       *)
(* (udpListener.c) and the joystick poller (joystickInput.c), from process *)
(* start to process exit.                                                  *)
(*                                                                         *)
(* What they share: the sound-bite table under audioMutex, the flag        *)
(* `stopping', the wave data that table entries point to, the playback     *)
(* buffer, the PCM device and the period timer.  Volume, tempo and mode    *)
(* are in MixerSettings; here a beat takes any mode.  Samples themselves   *)
(* are in AudioMixer; here a read of them is only live or not.             *)
(***************************************************************************)
EXTENDS SoundBites, Sequences

CONSTANTS
    NumSamples,           \* file -> length of its sound in samples
    playbackBufferSize,   \* samples the device takes per period
    SAMPLE_SIZE           \* bytes per sample

File == {"base", "hihat", "snare"}
Owner == {"main", "udp"}

\* Each of main and the UDP thread has its own three static wavedata_t's.
Sound == Owner \X File

ASSUME LengthAssumption == NumSamples \in [File -> Nat \ {0}]
ASSUME BufferAssumption == playbackBufferSize \in Nat \ {0} /\ SAMPLE_SIZE \in Nat \ {0}
ASSUME NullAssumption == NULL \notin Sound

VARIABLES
    proc,         \* the process: running, or how it ended
    audioMutex,   \* holder, "free", or "destroyed"
    stopping,     \* the flag every loop of the program looks at
    waves,        \* sound -> what its wavedata_t points to
    streams,      \* sounds whose wave file was opened with fopen and is not closed
    buffer,       \* playbackBuffer: "none", "allocated", "freed"
    pcm,          \* the ALSA handle: "none", "open", "closed"
    initialized,  \* periodTimer's s_initialized
    pcM, fileM, pending,          \* main: control, wave file index, groups left to queue
    pcP, slot, offset, curr_size, \* playback thread: control and the fill's locals
    pcU, fileU, noteU,            \* UDP thread: control, wave file index, sound asked for
    pcJ                           \* joystick thread: control

sharedVars == <<audioMutex, stopping, waves, streams, buffer, pcm, initialized>>
mainVars == <<pcM, fileM, pending>>
fillVars == <<slot, offset, curr_size>>
playVars == <<pcP, fillVars>>
udpVars == <<pcU, fileU, noteU>>
vars == <<bitesVars, proc, sharedVars, mainVars, playVars, udpVars, pcJ>>

----------------------------------------------------------------------------
\* Wave files are read and freed in this order by both owners.
Files == <<"base", "hihat", "snare">>

(***************************************************************************)
(* AudioMixer_freeWaveFileData's three assignments: numSamples = 0         *)
(* ("zeroed"), free(pData) ("dangling"), pData = NULL ("null").            *)
(***************************************************************************)
WaveState == {"unloaded", "loaded", "zeroed", "dangling", "null"}

FreeStep(w) == IF w = "loaded" THEN "zeroed" ELSE IF w = "zeroed" THEN "dangling" ELSE "null"

\* What pSound->numSamples and pSound->pData read as.
NumSamplesOf(s) == IF waves[s] = "loaded" THEN NumSamples[s[2]] ELSE 0
HasData(s) == waves[s] \in {"loaded", "zeroed", "dangling"}

\* rockBeat and randomBeat: the groups queued under one hold of the mutex.
Rock == << <<"hihat", "base">>, <<"hihat">>, <<"hihat", "snare">>, <<"hihat">> >>
Random == << <<"base">>, <<"hihat", "snare">>, <<"base">>, <<"base">>, <<"hihat", "snare">> >>
Beats == {<<>>, Rock, Random}

Running == proc = "running"

\* exit(EXIT_FAILURE), from any thread: the process is gone at once.
ExitFailure ==
    /\ proc' = "failed"
    /\ UNCHANGED <<bitesVars, sharedVars, mainVars, playVars, udpVars, pcJ>>

(***************************************************************************)
(* pthread_mutex_lock / unlock / destroy (external).  A destroyed mutex    *)
(* makes lock and unlock return EINVAL, which no caller looks at.          *)
(***************************************************************************)
Lock(t) ==
    \/ audioMutex = "free" /\ audioMutex' = t
    \/ audioMutex = "destroyed" /\ UNCHANGED audioMutex

Unlock(t) == audioMutex' = IF audioMutex = t THEN "free" ELSE audioMutex

\* Destroying a held mutex is undefined: EBUSY leaves it, or it is gone.
DestroyMutex ==
    \/ audioMutex' = "destroyed"
    \/ audioMutex # "free" /\ UNCHANGED audioMutex
----------------------------------------------------------------------------
Init ==
    /\ InitBites
    /\ proc = "running"
    /\ audioMutex = "free"
    /\ stopping = FALSE
    /\ waves = [s \in Sound |-> "unloaded"]
    /\ streams = {}
    /\ buffer = "none"
    /\ pcm = "none"
    /\ initialized = FALSE
    /\ pcM = "start" /\ fileM = 1 /\ pending = <<>>
    /\ pcP = "unstarted" /\ slot = 0 /\ offset = 0 /\ curr_size = 0
    /\ pcU = "unstarted" /\ fileU = 1 /\ noteU = "base"
    /\ pcJ = "unstarted"
----------------------------------------------------------------------------
(* main *)

MainPeriodInit ==
    /\ Running /\ pcM = "start"
    /\ initialized' = TRUE
    /\ pcM' = "init"
    /\ UNCHANGED <<bitesVars, proc, audioMutex, stopping, waves, streams, buffer, pcm,
                   fileM, pending, playVars, udpVars, pcJ>>

\* AudioMixer_init: no other thread runs yet, so it is one step.
MainMixerInit ==
    /\ Running /\ pcM = "init"
    /\ soundBites' = [i \in Slots |-> FreeBite]
    /\ pcm' = "open"
    /\ buffer' = "allocated"
    /\ pcP' = "loop"
    /\ pcM' = "threads"
    /\ UNCHANGED <<numSoundBites, proc, audioMutex, stopping, waves, streams, initialized,
                   fileM, pending, fillVars, udpVars, pcJ>>

\* snd_pcm_open or snd_pcm_set_params fails.
MainMixerInitFails == Running /\ pcM = "init" /\ ExitFailure

MainStartThreads ==
    /\ Running /\ pcM = "threads"
    /\ pcJ' = "running"
    /\ pcU' = "load"
    /\ pcM' = "load"
    /\ UNCHANGED <<bitesVars, proc, sharedVars, fileM, pending, playVars, fileU, noteU>>

\* A slip in the loading loop: the last file is never read.
MainLoadStopsEarly ==
    /\ Running /\ pcM = "load"
    /\ waves' = [waves EXCEPT ![<<"main", Files[fileM]>>] = "loaded"]
    /\ streams' = streams \cup {<<"main", Files[fileM]>>}
    /\ IF fileM = 2 THEN pcM' = "loop" /\ fileM' = 1
                    ELSE fileM' = fileM + 1 /\ UNCHANGED pcM
    /\ UNCHANGED <<bitesVars, proc, audioMutex, stopping, buffer, pcm, initialized,
                   pending, playVars, udpVars, pcJ>>

\* AudioMixer_readWaveFileIntoMemory on the next file; nothing closes its stream.
MainLoad ==
    /\ Running /\ pcM = "load"
    /\ waves' = [waves EXCEPT ![<<"main", Files[fileM]>>] = "loaded"]
    /\ streams' = streams \cup {<<"main", Files[fileM]>>}
    /\ IF fileM = 3 THEN pcM' = "loop" /\ fileM' = 1
                    ELSE fileM' = fileM + 1 /\ UNCHANGED pcM
    /\ UNCHANGED <<bitesVars, proc, audioMutex, stopping, buffer, pcm, initialized,
                   pending, playVars, udpVars, pcJ>>

MainLoadFails == Running /\ pcM = "load" /\ ExitFailure

\* while (!stopping): take a beat of some mode, or leave the loop
MainLoop ==
    /\ Running /\ pcM = "loop"
    /\ IF stopping THEN pcM' = "free" /\ UNCHANGED pending
                   ELSE pcM' = "beat" /\ pending' \in Beats
    /\ UNCHANGED <<bitesVars, proc, sharedVars, fileM, playVars, udpVars, pcJ>>

MainLock ==
    /\ Running /\ pcM = "beat" /\ pending # <<>>
    /\ Lock("main")
    /\ pcM' = "queue"
    /\ UNCHANGED <<bitesVars, proc, stopping, waves, streams, buffer, pcm, initialized,
                   fileM, pending, playVars, udpVars, pcJ>>

MainQueue ==
    /\ Running /\ pcM = "queue" /\ Head(pending) # <<>>
    /\ QueueSound(<<"main", Head(Head(pending))>>)
    /\ pending' = <<Tail(Head(pending))>> \o Tail(pending)
    /\ UNCHANGED <<proc, sharedVars, pcM, fileM, playVars, udpVars, pcJ>>

\* Unlock at the end of a group, then sleep.
MainUnlock ==
    /\ Running /\ pcM = "queue" /\ Head(pending) = <<>>
    /\ Unlock("main")
    /\ pending' = Tail(pending)
    /\ pcM' = "beat"
    /\ UNCHANGED <<bitesVars, proc, stopping, waves, streams, buffer, pcm, initialized,
                   fileM, playVars, udpVars, pcJ>>

MainBeatEnds ==
    /\ Running /\ pcM = "beat" /\ pending = <<>>
    /\ pcM' = "loop"
    /\ UNCHANGED <<bitesVars, proc, sharedVars, fileM, pending, playVars, udpVars, pcJ>>

\* AudioMixer_freeWaveFileData, without the mutex, one assignment at a time.
MainFree ==
    /\ Running /\ pcM = "free"
    /\ LET s == <<"main", Files[fileM]>>
           last == waves[s] = "dangling"
       IN  /\ waves' = [waves EXCEPT ![s] = FreeStep(waves[s])]
           /\ pcM' = IF last /\ fileM = 3 THEN "shutdown" ELSE "free"
           /\ fileM' = IF last /\ fileM < 3 THEN fileM + 1 ELSE fileM
    /\ UNCHANGED <<bitesVars, proc, audioMutex, stopping, streams, buffer, pcm, initialized,
                   pending, playVars, udpVars, pcJ>>

\* joystick_shutdown: clears its `running' and cancels the thread.
MainJoystickShutdown ==
    /\ Running /\ pcM = "shutdown"
    /\ pcJ' = IF pcJ = "running" THEN "cancelled" ELSE pcJ
    /\ pcM' = "joinUdp"
    /\ UNCHANGED <<bitesVars, proc, sharedVars, fileM, pending, playVars, udpVars>>

\* A slip: main does not wait for the listener.
MainJoinUdpSkipped ==
    /\ Running /\ pcM = "joinUdp"
    /\ pcM' = "joinJoystick"
    /\ UNCHANGED <<bitesVars, proc, sharedVars, fileM, pending, playVars, udpVars, pcJ>>

MainJoinUdp ==
    /\ Running /\ pcM = "joinUdp" /\ pcU = "done"
    /\ pcM' = "joinJoystick"
    /\ UNCHANGED <<bitesVars, proc, sharedVars, fileM, pending, playVars, udpVars, pcJ>>

MainJoinJoystick ==
    /\ Running /\ pcM = "joinJoystick" /\ pcJ = "done"
    /\ pcM' = "cleanup"
    /\ UNCHANGED <<bitesVars, proc, sharedVars, fileM, pending, playVars, udpVars, pcJ>>

MainPeriodCleanup ==
    /\ Running /\ pcM = "cleanup"
    /\ initialized' = FALSE
    /\ pcM' = "return"
    /\ UNCHANGED <<bitesVars, proc, audioMutex, stopping, waves, streams, buffer, pcm,
                   fileM, pending, playVars, udpVars, pcJ>>

\* return 0: the process and every thread still in it end
MainReturn ==
    /\ Running /\ pcM = "return"
    /\ proc' = "exited"
    /\ UNCHANGED <<bitesVars, sharedVars, mainVars, playVars, udpVars, pcJ>>
----------------------------------------------------------------------------
(* The playback thread.  Slots are visited one at a time: main may change  *)
(* the wave data between any two of these steps.  Locals that go out of    *)
(* scope return to their initial value.                                    *)

PlayLoop ==
    /\ Running /\ pcP = "loop"
    /\ pcP' = IF stopping THEN "done" ELSE "lock"
    /\ UNCHANGED <<bitesVars, proc, sharedVars, mainVars, fillVars, udpVars, pcJ>>

PlayLock ==
    /\ Running /\ pcP = "lock"
    /\ Lock("playback")
    /\ pcP' = "mark"
    /\ UNCHANGED <<bitesVars, proc, stopping, waves, streams, buffer, pcm, initialized,
                   mainVars, fillVars, udpVars, pcJ>>

\* Period_markEvent; fillPlaybackBuffer's locals start at 0
PlayMark ==
    /\ Running /\ pcP = "mark"
    /\ pcP' = "slot"
    /\ UNCHANGED <<bitesVars, proc, sharedVars, mainVars, fillVars, udpVars, pcJ>>

\* while (i < MAX_SOUND_BITES && curr_size < size): skip an empty slot
PlaySlot ==
    /\ Running /\ pcP = "slot"
    /\ IF slot < MAX_SOUND_BITES /\ curr_size < playbackBufferSize
         THEN IF soundBites[slot].pSound = NULL
                THEN slot' = slot + 1 /\ UNCHANGED pcP
                ELSE pcP' = "check" /\ UNCHANGED slot
         ELSE pcP' = "write" /\ UNCHANGED slot
    /\ UNCHANGED <<bitesVars, proc, sharedVars, mainVars, offset, curr_size, udpVars, pcJ>>

\* pSound->pData != 0
PlayCheck ==
    /\ Running /\ pcP = "check"
    /\ IF HasData(soundBites[slot].pSound)
         THEN pcP' = "bound" /\ UNCHANGED slot
         ELSE pcP' = "slot" /\ slot' = slot + 1
    /\ UNCHANGED <<bitesVars, proc, sharedVars, mainVars, offset, curr_size, udpVars, pcJ>>

(***************************************************************************)
(* The mixing loop's bound: it stops at numSamples or at the end of the    *)
(* buffer.  A pass that starts reads the data; the samples it takes all at *)
(* once here are re-bounded one by one in the code, and a numSamples that  *)
(* drops to 0 on the way ends the sound at PlayFinish either way.          *)
(***************************************************************************)
PlayBound ==
    /\ Running /\ pcP = "bound"
    /\ LET from == soundBites[slot].location
           n == NumSamplesOf(soundBites[slot].pSound)
           upto == from + playbackBufferSize
       IN  IF from < n
             THEN pcP' = "read" /\ offset' = IF n < upto THEN n ELSE upto
             ELSE pcP' = "finish" /\ offset' = from
    /\ UNCHANGED <<bitesVars, proc, sharedVars, mainVars, slot, curr_size, udpVars, pcJ>>

\* buff[k] + pData[j]: freed memory gives garbage or a fault
PlayRead ==
    /\ Running /\ pcP = "read"
    /\ waves[soundBites[slot].pSound] # "null"
    /\ pcP' = "finish"
    /\ UNCHANGED <<bitesVars, proc, sharedVars, mainVars, fillVars, udpVars, pcJ>>

PlayReadFaults ==
    /\ Running /\ pcP = "read"
    /\ waves[soundBites[slot].pSound] \in {"dangling", "null"}
    /\ proc' = "crashed"
    /\ UNCHANGED <<bitesVars, sharedVars, mainVars, playVars, udpVars, pcJ>>

\* A slip: curr_size counts the samples mixed instead of SAMPLE_SIZE.
PlayFinishCountsSamples ==
    /\ Running /\ pcP = "finish"
    /\ FinishSlot(slot, offset, NumSamplesOf(soundBites[slot].pSound))
    /\ curr_size' = curr_size + offset - soundBites[slot].location
    /\ slot' = slot + 1
    /\ offset' = 0
    /\ pcP' = "slot"
    /\ UNCHANGED <<proc, sharedVars, mainVars, udpVars, pcJ>>

PlayFinish ==
    /\ Running /\ pcP = "finish"
    /\ FinishSlot(slot, offset, NumSamplesOf(soundBites[slot].pSound))
    /\ curr_size' = curr_size + SAMPLE_SIZE
    /\ slot' = slot + 1
    /\ offset' = 0
    /\ pcP' = "slot"
    /\ UNCHANGED <<proc, sharedVars, mainVars, udpVars, pcJ>>

\* The statistics, snd_pcm_writei with its recovery, and the unlock
PlayWrite ==
    /\ Running /\ pcP = "write"
    /\ Unlock("playback")
    /\ pcP' = "loop"
    /\ slot' = 0 /\ curr_size' = 0
    /\ UNCHANGED <<bitesVars, proc, stopping, waves, streams, buffer, pcm, initialized,
                   mainVars, offset, udpVars, pcJ>>

PlayWriteFails == Running /\ pcP = "write" /\ ExitFailure
----------------------------------------------------------------------------
(* The UDP thread *)

UdpLoad ==
    /\ Running /\ pcU = "load"
    /\ waves' = [waves EXCEPT ![<<"udp", Files[fileU]>>] = "loaded"]
    /\ streams' = streams \cup {<<"udp", Files[fileU]>>}
    /\ IF fileU = 3 THEN pcU' = "recv" /\ fileU' = 1
                    ELSE fileU' = fileU + 1 /\ UNCHANGED pcU
    /\ UNCHANGED <<bitesVars, proc, audioMutex, stopping, buffer, pcm, initialized,
                   mainVars, playVars, noteU, pcJ>>

UdpLoadFails == Running /\ pcU = "load" /\ ExitFailure

\* A "base", "hihat" or "snare" command arrives.
UdpPlayCommand ==
    /\ Running /\ pcU = "recv"
    /\ noteU' \in File
    /\ pcU' = "lock"
    /\ UNCHANGED <<bitesVars, proc, sharedVars, mainVars, playVars, fileU, pcJ>>

\* A slip: the listener queues without taking the mutex.
UdpLockDropped ==
    /\ Running /\ pcU = "lock"
    /\ pcU' = "queue"
    /\ UNCHANGED <<bitesVars, proc, sharedVars, mainVars, playVars, fileU, noteU, pcJ>>

UdpLock ==
    /\ Running /\ pcU = "lock"
    /\ Lock("udp")
    /\ pcU' = "queue"
    /\ UNCHANGED <<bitesVars, proc, stopping, waves, streams, buffer, pcm, initialized,
                   mainVars, playVars, fileU, noteU, pcJ>>

UdpQueue ==
    /\ Running /\ pcU = "queue"
    /\ QueueSound(<<"udp", noteU>>)
    /\ pcU' = "unlock"
    /\ UNCHANGED <<proc, sharedVars, mainVars, playVars, fileU, noteU, pcJ>>

\* Unlock, reply, and wait for the next datagram.
UdpUnlock ==
    /\ Running /\ pcU = "unlock"
    /\ Unlock("udp")
    /\ pcU' = "recv"
    /\ noteU' = "base"
    /\ UNCHANGED <<bitesVars, proc, stopping, waves, streams, buffer, pcm, initialized,
                   mainVars, playVars, fileU, pcJ>>

\* A slip: cleanup joins playback without telling it to stop.
UdpTerminateQuietly ==
    /\ Running /\ pcU = "recv"
    /\ pcU' = "join"
    /\ UNCHANGED <<bitesVars, proc, sharedVars, mainVars, playVars, fileU, noteU, pcJ>>

\* "terminate": AudioMixer_cleanup sets stopping, then joins playback.
UdpTerminate ==
    /\ Running /\ pcU = "recv"
    /\ stopping' = TRUE
    /\ pcU' = "join"
    /\ UNCHANGED <<bitesVars, proc, audioMutex, waves, streams, buffer, pcm, initialized,
                   mainVars, playVars, fileU, noteU, pcJ>>

\* A slip: cleanup does not wait for the playback thread.
UdpJoinDropped ==
    /\ Running /\ pcU = "join"
    /\ pcm' = "closed"
    /\ pcU' = "destroy"
    /\ UNCHANGED <<bitesVars, proc, audioMutex, stopping, waves, streams, buffer, initialized,
                   mainVars, playVars, fileU, noteU, pcJ>>

UdpJoin ==
    /\ Running /\ pcU = "join" /\ pcP = "done"
    /\ pcm' = "closed"
    /\ pcU' = "destroy"
    /\ UNCHANGED <<bitesVars, proc, audioMutex, stopping, waves, streams, buffer, initialized,
                   mainVars, playVars, fileU, noteU, pcJ>>

UdpDestroy ==
    /\ Running /\ pcU = "destroy"
    /\ DestroyMutex
    /\ pcU' = "freeBuffer"
    /\ UNCHANGED <<bitesVars, proc, stopping, waves, streams, buffer, pcm, initialized,
                   mainVars, playVars, fileU, noteU, pcJ>>

UdpFreeBuffer ==
    /\ Running /\ pcU = "freeBuffer"
    /\ buffer' = "freed"
    /\ pcU' = "free"
    /\ UNCHANGED <<bitesVars, proc, audioMutex, stopping, waves, streams, pcm, initialized,
                   mainVars, playVars, fileU, noteU, pcJ>>

\* A slip: the listener frees two of its three sounds.
UdpFreeStopsEarly ==
    /\ Running /\ pcU = "free"
    /\ LET s == <<"udp", Files[fileU]>>
           last == waves[s] = "dangling"
       IN  /\ waves' = [waves EXCEPT ![s] = FreeStep(waves[s])]
           /\ pcU' = IF last /\ fileU = 2 THEN "done" ELSE "free"
           /\ fileU' = IF last /\ fileU < 3 THEN fileU + 1 ELSE fileU
    /\ UNCHANGED <<bitesVars, proc, audioMutex, stopping, streams, buffer, pcm, initialized,
                   mainVars, playVars, noteU, pcJ>>

\* The listener's own three sounds, then running = 0, the reply and close().
UdpFree ==
    /\ Running /\ pcU = "free"
    /\ LET s == <<"udp", Files[fileU]>>
           last == waves[s] = "dangling"
       IN  /\ waves' = [waves EXCEPT ![s] = FreeStep(waves[s])]
           /\ pcU' = IF last /\ fileU = 3 THEN "done" ELSE "free"
           /\ fileU' = IF last /\ fileU < 3 THEN fileU + 1 ELSE fileU
    /\ UNCHANGED <<bitesVars, proc, audioMutex, stopping, streams, buffer, pcm, initialized,
                   mainVars, playVars, noteU, pcJ>>
----------------------------------------------------------------------------
(* The joystick thread: its effects are on the settings only. *)

\* isDirectionPressed cannot open a gpio file: exit(-1)
JoystickFails == Running /\ pcJ \in {"running", "cancelled"} /\ ExitFailure

JoystickEnds ==
    /\ Running /\ pcJ = "cancelled"
    /\ pcJ' = "done"
    /\ UNCHANGED <<bitesVars, proc, sharedVars, mainVars, playVars, udpVars>>

\* The process is gone.
Ended == ~Running /\ UNCHANGED vars
----------------------------------------------------------------------------
MainNext ==
    \/ MainPeriodInit \/ MainMixerInit \/ MainMixerInitFails \/ MainStartThreads
    \/ MainLoad \/ MainLoadFails \/ MainLoop \/ MainLock \/ MainQueue \/ MainUnlock
    \/ MainBeatEnds \/ MainFree \/ MainJoystickShutdown \/ MainJoinUdp
    \/ MainJoinJoystick \/ MainPeriodCleanup \/ MainReturn

PlayNext ==
    \/ PlayLoop \/ PlayLock \/ PlayMark \/ PlaySlot \/ PlayCheck \/ PlayBound
    \/ PlayRead \/ PlayReadFaults \/ PlayFinish \/ PlayWrite \/ PlayWriteFails

UdpNext ==
    \/ UdpLoad \/ UdpLoadFails \/ UdpLock \/ UdpQueue \/ UdpUnlock
    \/ UdpJoin \/ UdpDestroy \/ UdpFreeBuffer \/ UdpFree

UdpCommand == UdpPlayCommand \/ UdpTerminate

Next == MainNext \/ PlayNext \/ UdpNext \/ UdpCommand \/ JoystickFails \/ JoystickEnds \/ Ended

Spec == Init /\ [][Next]_vars

(***************************************************************************)
(* Fairness: the scheduler runs every thread that can go on.  A datagram   *)
(* need not arrive, so UdpCommand has none.                                *)
(***************************************************************************)
ThreadsRun ==
    /\ WF_vars(MainNext)
    /\ WF_vars(PlayNext)
    /\ WF_vars(UdpNext)
    /\ WF_vars(JoystickEnds)

FairSpec == Spec /\ ThreadsRun

----------------------------------------------------------------------------
MainControl == {"start", "init", "threads", "load", "loop", "beat", "queue", "free",
                "shutdown", "joinUdp", "joinJoystick", "cleanup", "return"}
FillControl == {"slot", "check", "bound", "read", "finish"}
HoldControl == {"mark", "write"} \cup FillControl
PlayControl == {"unstarted", "loop", "lock", "done"} \cup HoldControl
EndControl == {"destroy", "freeBuffer", "free", "done"}
UdpControl == {"unstarted", "load", "recv", "lock", "queue", "unlock", "join"} \cup EndControl

\* The sound of the slot the playback thread is at.
Playing == soundBites[slot].pSound

(***************************************************************************)
(* Types of the shared state and of the control state of the four threads. *)
(***************************************************************************)
TypeOK ==
    /\ soundBites \in [Slots -> [pSound : Sound \cup {NULL}, location : Nat]]
    /\ numSoundBites \in Int
    /\ proc \in {"running", "exited", "failed", "crashed"}
    /\ audioMutex \in {"free", "main", "playback", "udp", "destroyed"}
    /\ stopping \in BOOLEAN /\ initialized \in BOOLEAN
    /\ waves \in [Sound -> WaveState] /\ streams \subseteq Sound
    /\ buffer \in {"none", "allocated", "freed"}
    /\ pcm \in {"none", "open", "closed"}
    /\ pcM \in MainControl /\ fileM \in 1 .. 3 /\ pending \in Seq(Seq(File))
    /\ pcP \in PlayControl
    /\ slot \in 0 .. MAX_SOUND_BITES /\ offset \in Nat /\ curr_size \in Nat
    /\ pcU \in UdpControl /\ fileU \in 1 .. 3 /\ noteU \in File
    /\ pcJ \in {"unstarted", "running", "cancelled", "done"}

(***************************************************************************)
(* No two threads are inside the sound-bite table at once, even after      *)
(* AudioMixer_cleanup has destroyed the mutex that main goes on locking    *)
(* (audiomixer.c:222, beatbox.c:66): cleanup joined playback first.        *)
(***************************************************************************)
SlotsExclusive ==
    /\ ~(pcM = "queue" /\ pcP \in FillControl)
    /\ ~(pcM = "queue" /\ pcU = "queue")
    /\ ~(pcU = "queue" /\ pcP \in FillControl)

(***************************************************************************)
(* The assertions of AudioMixer_queueSound hold whenever it is called: the *)
(* sound of either caller is loaded and not yet freed, up to the last beat *)
(* that main queues while the program is stopping.                         *)
(***************************************************************************)
GoodSounds ==
    /\ pcM = "queue" /\ Head(pending) # <<>> =>
          waves[<<"main", Head(Head(pending))>>] = "loaded"
    /\ pcU = "queue" => waves[<<"udp", noteU>>] = "loaded"

(***************************************************************************)
(* The listener's own sounds are never freed under the playback thread     *)
(* (udpListener.c:151-154: cleanup joins it before they are freed).        *)
(***************************************************************************)
UdpSoundsSafe ==
    pcP \in {"check", "bound", "read", "finish"} /\ Playing[1] = "udp" =>
        waves[Playing] = "loaded"

(***************************************************************************)
(* While the playback thread fills or writes a block, the playback buffer  *)
(* is allocated and the PCM device is open: cleanup never takes them away  *)
(* from it, whatever main and the listener are doing.                      *)
(***************************************************************************)
DeviceLive == pcP \in HoldControl => buffer = "allocated" /\ pcm = "open"

(***************************************************************************)
(* Period_markEvent's assert(s_initialized) holds whenever playback calls  *)
(* it, up to main's Period_cleanup: main does not join playback itself but *)
(* only the listener that did (beatbox.c:47-49).                           *)
(***************************************************************************)
PeriodReady == Running /\ pcP \in HoldControl => initialized

(***************************************************************************)
(* What is held when main returns 0.  Playback, listener and joystick are  *)
(* over; playback buffer, PCM device, the data of all six sounds and the   *)
(* period timer have been given back, whichever thread took them.  The six *)
(* streams that readWaveFileIntoMemory opened (audiomixer.c:128) are all   *)
(* open still: it closes them on no path, nor does freeWaveFileData.       *)
(***************************************************************************)
OnlyStreamsLeft ==
    proc = "exited" =>
        /\ pcP = "done" /\ pcU = "done" /\ pcJ = "done"
        /\ buffer = "freed" /\ pcm = "closed" /\ ~initialized
        /\ \A s \in Sound : waves[s] = "null"
        /\ streams = Sound

(***************************************************************************)
(* "terminate" ends the program: main leaves its beat, playback its loop,  *)
(* every join returns, also when main meets the destroyed mutex.           *)
(***************************************************************************)
TerminateEnds == pcU = "join" ~> ~Running

(***************************************************************************)
(* A queued sound is played to its end and its slot comes back, unless the *)
(* program stops first: no slot is passed over for ever by the fill.  This *)
(* supposes that playback wins the mutex when it is free again and again:  *)
(* the other two hold it for a few table writes, then sleep or wait for a  *)
(* datagram (audiomixer.c:325-365, beatbox.c:37).                          *)
(***************************************************************************)
SoundsFinish ==
    SF_vars(PlayLock) =>
        \A i \in Slots : soundBites[i].pSound # NULL ~>
                            soundBites[i].pSound = NULL \/ stopping \/ ~Running

(***************************************************************************)
(* What the code says of its sounds: pSound is "a pointer to a previously  *)
(* allocated sound bite" (audiomixer.c:30), so a slot being mixed has live *)
(* data.  It fails for main's sounds: main frees them, without the mutex,  *)
(* as soon as it sees `stopping'.                                          *)
(***************************************************************************)
MixesLiveData == Running /\ pcP = "read" => waves[Playing] \in {"loaded", "zeroed"}
=============================================================================
