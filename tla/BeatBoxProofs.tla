--------------------------- MODULE BeatBoxProofs ---------------------------
(***************************************************************************)
(* Theorems about BeatBox, for every table size, every sound length and    *)
(* every buffer size.  Each theorem's invariant is one of the inductive    *)
(* parts below, proved on top of the parts before it:                      *)
(*                                                                         *)
(*   TypeOK, InHand  ->  Stages  ->  MutexInv                              *)
(*   TypeOK, InHand, Stages  ->  UdpQueued                                 *)
(*   TypeOK, Stages  ->  WavesInv  ->  StreamsInv                          *)
(***************************************************************************)
EXTENDS BeatBox, FiniteSetTheorems, SequenceTheorems, TLAPS

(***************************************************************************)
(* The slot the fill works on is in the table and stays taken; main holds  *)
(* the mutex for a group.                                                  *)
(***************************************************************************)
MixControl == {"check", "bound", "read", "finish"}

InHand ==
    /\ pcP \in MixControl => slot \in Slots /\ soundBites[slot].pSound # NULL
    /\ pcM = "queue" => pending # <<>>

(***************************************************************************)
(* How far the threads can be from each other, and what that says of the   *)
(* device, the buffer and the timer.                                       *)
(***************************************************************************)
Stages ==
    /\ pcM \in {"start", "init"} => pcP = "unstarted" /\ numSoundBites = 0
    /\ pcM \in {"start", "init", "threads"} => pcU = "unstarted"
    /\ pcM \in {"joinJoystick", "cleanup", "return"} => pcU = "done"
    /\ pcM \in {"cleanup", "return"} => pcJ = "done"
    /\ pcM \notin {"start", "return"} => initialized
    /\ pcM = "return" => ~initialized
    /\ proc = "exited" => pcM = "return"
    /\ pcU \in EndControl => pcP = "done" /\ pcm = "closed"
    /\ pcU \in {"free", "done"} => buffer = "freed"
    /\ pcP \in PlayControl \ {"unstarted", "done"} => buffer = "allocated" /\ pcm = "open"

(***************************************************************************)
(* Who holds the mutex, and who may go on without it: once it is           *)
(* destroyed, playback is over and the listener never locks again.         *)
(***************************************************************************)
MutexInv ==
    /\ pcM = "queue" => audioMutex \in {"main", "destroyed"}
    /\ pcP \in HoldControl => audioMutex = "playback"
    /\ pcU \in {"queue", "unlock"} => audioMutex = "udp"
    /\ audioMutex = "destroyed" => pcU \in {"freeBuffer", "free", "done"}

(***************************************************************************)
(* How far each owner is in loading and freeing its three files.           *)
(***************************************************************************)
Owned(o, idx, loading, freeing, freed) ==
    /\ loading => \A k \in 1 .. 3 : k < idx => waves[<<o, Files[k]>>] = "loaded"
    /\ freeing =>
         \A k \in 1 .. 3 :
            /\ k < idx => waves[<<o, Files[k]>>] = "null"
            /\ k = idx => waves[<<o, Files[k]>>] \in {"loaded", "zeroed", "dangling"}
            /\ k > idx => waves[<<o, Files[k]>>] = "loaded"
    /\ freed => \A k \in 1 .. 3 : waves[<<o, Files[k]>>] = "null"

AllLoaded(o) == \A k \in 1 .. 3 : waves[<<o, Files[k]>>] = "loaded"

WavesInv ==
    /\ Owned("main", fileM, pcM = "load", pcM = "free",
             pcM \in {"shutdown", "joinUdp", "joinJoystick", "cleanup", "return"})
    /\ Owned("udp", fileU, pcU = "load", pcU = "free", pcU = "done")
    /\ pcM \in {"start", "init", "threads", "loop", "beat", "queue"} => fileM = 1
    /\ pcU \in {"unstarted", "recv", "lock", "queue", "unlock", "join",
                "destroy", "freeBuffer"} => fileU = 1
    /\ pcM \in {"loop", "beat", "queue"} => AllLoaded("main")
    /\ pcU \in {"recv", "lock", "queue", "unlock", "join", "destroy", "freeBuffer"} =>
         AllLoaded("udp")

(***************************************************************************)
(* Only a listener that has loaded its sounds has queued any.              *)
(***************************************************************************)
UdpQueued ==
    \A i \in Slots : \A f \in File :
        soundBites[i].pSound = <<"udp", f>> => pcU \notin {"unstarted", "load"}
----------------------------------------------------------------------------
BiteType == [pSound : Sound \cup {NULL}, location : Nat]

LEMMA QueueTypes ==
    ASSUME soundBites \in [Slots -> BiteType], numSoundBites \in Int,
           NEW s \in Sound, QueueSound(s)
    PROVE  soundBites' \in [Slots -> BiteType] /\ numSoundBites' \in Int
BY DEF QueueSound, QueueAccepted, QueueAt, QueueRefused, BiteType, bitesVars

LEMMA FinishTypes ==
    ASSUME soundBites \in [Slots -> BiteType], numSoundBites \in Int,
           NEW i \in Slots, NEW off \in Nat, NEW n \in Nat, FinishSlot(i, off, n)
    PROVE  soundBites' \in [Slots -> BiteType] /\ numSoundBites' \in Int
BY DEF FinishSlot, ReleaseSlot, AdvanceSlot, FreeBite, BiteType

\* The length read through a slot's pointer, and the file an index names.
LEMMA LengthType ==
    ASSUME TypeOK, NEW s \in Sound PROVE NumSamplesOf(s) \in Nat
BY LengthAssumption DEF NumSamplesOf, TypeOK, Sound

LEMMA FilesType == \A k \in 1 .. 3 : Files[k] \in File
BY DEF Files, File

\* Every file has an index, and only one.
LEMMA FilesOnto == \A f \in File : \E k \in 1 .. 3 : Files[k] = f
BY DEF Files, File

LEMMA FilesOneToOne == \A j, k \in 1 .. 3 : Files[j] = Files[k] => j = k
BY DEF Files

LEMMA BeatsType == Beats \subseteq Seq(Seq(File))
<1>1. Rock \in Seq(Seq(File))
  BY DEF Rock, File
<1>2. Random \in Seq(Seq(File))
  BY DEF Random, File
<1> QED BY <1>1, <1>2 DEF Beats

LEMMA PendingType ==
    ASSUME NEW p \in Seq(Seq(File)), p # <<>>
    PROVE  /\ Head(p) \in Seq(File) /\ Tail(p) \in Seq(Seq(File))
           /\ Head(p) # <<>> => /\ Head(Head(p)) \in File
                                /\ <<Tail(Head(p))>> \o Tail(p) \in Seq(Seq(File))
                                /\ <<Tail(Head(p))>> \o Tail(p) # <<>>
<1>1. Head(p) \in Seq(File) /\ Tail(p) \in Seq(Seq(File))
  BY HeadTailProperties
<1>2. ASSUME Head(p) # <<>>
      PROVE  /\ Head(Head(p)) \in File
             /\ <<Tail(Head(p))>> \o Tail(p) \in Seq(Seq(File))
             /\ <<Tail(Head(p))>> \o Tail(p) # <<>>
  <2>1. Head(Head(p)) \in File /\ Tail(Head(p)) \in Seq(File)
    BY <1>1, <1>2, HeadTailProperties
  <2>2. <<Tail(Head(p))>> \in Seq(Seq(File)) /\ Len(<<Tail(Head(p))>>) = 1
    BY <2>1
  <2> QED BY <1>1, <2>1, <2>2, ConcatProperties
<1> QED BY <1>1, <1>2
(***************************************************************************)
(* Type correctness.                                                       *)
(***************************************************************************)
LEMMA QueueKeepsTaken ==
    ASSUME soundBites \in [Slots -> BiteType], NEW s \in Sound, QueueSound(s),
           NEW i \in Slots, soundBites[i].pSound # NULL
    PROVE  soundBites'[i] = soundBites[i]
BY DEF QueueSound, QueueAccepted, QueueAt, QueueRefused, bitesVars

LEMMA PlayingType ==
    ASSUME TypeOK, InHand, pcP \in MixControl
    PROVE  /\ slot \in Slots /\ soundBites[slot].pSound \in Sound
           /\ soundBites[slot].location \in Nat
BY DEF TypeOK, InHand

LEMMA TypedInHand == Spec => [](TypeOK /\ InHand)
<1>1. Init => TypeOK /\ InHand
  <2> SUFFICES ASSUME Init PROVE TypeOK /\ InHand
    OBVIOUS
  <2> USE DEF Init
  <2>1. pending \in Seq(Seq(File))
    BY <<>> \in Seq(Seq(File))
  <2>2. soundBites \in [Slots -> BiteType] /\ numSoundBites \in Int
    BY DEF InitBites, FreeBite, BiteType
  <2>3. stopping \in BOOLEAN /\ initialized \in BOOLEAN
    <3>1. stopping = FALSE /\ initialized = FALSE
      OBVIOUS
    <3> QED BY ONLY <3>1
  <2>4. waves \in [Sound -> WaveState] /\ streams \subseteq Sound
    BY DEF WaveState
  <2>5. slot \in 0 .. MAX_SOUND_BITES /\ offset \in Nat /\ curr_size \in Nat
    BY SlotsAssumption
  <2> HIDE DEF Init
  <2>6. /\ proc = "running" /\ audioMutex = "free" /\ buffer = "none" /\ pcm = "none"
        /\ pcM = "start" /\ fileM = 1 /\ pcP = "unstarted" /\ pcU = "unstarted"
        /\ fileU = 1 /\ noteU = "base" /\ pcJ = "unstarted"
    BY DEF Init
  <2> QED
    BY <2>1, <2>2, <2>3, <2>4, <2>5, <2>6
    DEF TypeOK, InHand, BiteType, MainControl, PlayControl, UdpControl, MixControl, File
<1>2. TypeOK /\ InHand /\ [Next]_vars => TypeOK' /\ InHand'
  <2> SUFFICES ASSUME TypeOK, InHand, [Next]_vars PROVE TypeOK' /\ InHand'
    OBVIOUS
  <2> USE DEF TypeOK, InHand, MixControl, sharedVars, mainVars, playVars, fillVars, udpVars,
              bitesVars, MainControl, PlayControl, HoldControl, FillControl, UdpControl,
              EndControl, BiteType
  <2>1. CASE MainPeriodInit
    BY <2>1 DEF MainPeriodInit
  <2>2. CASE MainMixerInit
    BY <2>2 DEF MainMixerInit, FreeBite
  <2>3. CASE MainMixerInitFails
    BY <2>3 DEF MainMixerInitFails, ExitFailure
  <2>4. CASE MainStartThreads
    BY <2>4 DEF MainStartThreads
  <2>5. CASE MainLoad
    BY <2>5, FilesType DEF MainLoad, WaveState, FreeStep, Sound, Owner
  <2>6. CASE MainLoadFails
    BY <2>6 DEF MainLoadFails, ExitFailure
  <2>7. CASE MainLoop
    BY <2>7, BeatsType DEF MainLoop
  <2>8. CASE MainLock
    BY <2>8 DEF MainLock, Lock
  <2>9. CASE MainQueue
    BY <2>9, QueueTypes, QueueKeepsTaken, PendingType
    DEF MainQueue, Sound, Owner
  <2>10. CASE MainUnlock
    BY <2>10, PendingType DEF MainUnlock, Unlock
  <2>11. CASE MainBeatEnds
    BY <2>11 DEF MainBeatEnds
  <2>12. CASE MainFree
    BY <2>12, FilesType DEF MainFree, FreeStep, WaveState, Sound, Owner
  <2>13. CASE MainJoystickShutdown
    BY <2>13 DEF MainJoystickShutdown
  <2>14. CASE MainJoinUdp
    BY <2>14 DEF MainJoinUdp
  <2>15. CASE MainJoinJoystick
    BY <2>15 DEF MainJoinJoystick
  <2>16. CASE MainPeriodCleanup
    <3>1. initialized' = FALSE
      BY <2>16 DEF MainPeriodCleanup
    <3>2. initialized' \in BOOLEAN
      BY <3>1
    <3> QED
      BY <2>16, <3>2 DEF MainPeriodCleanup
  <2>17. CASE MainReturn
    BY <2>17 DEF MainReturn
  <2>18. CASE PlayLoop
    BY <2>18 DEF PlayLoop
  <2>19. CASE PlayLock
    BY <2>19 DEF PlayLock, Lock
  <2>20. CASE PlayMark
    BY <2>20 DEF PlayMark
  <2>21. CASE PlaySlot
    BY <2>21, SlotsAssumption DEF PlaySlot, Slots
  <2>22. CASE PlayCheck
    BY <2>22, SlotsAssumption DEF PlayCheck, Slots
  <2>23. CASE PlayBound
    BY <2>23, PlayingType, LengthType, BufferAssumption
    DEF PlayBound, BiteType
  <2>24. CASE PlayRead
    BY <2>24 DEF PlayRead
  <2>25. CASE PlayReadFaults
    BY <2>25 DEF PlayReadFaults
  <2>26. CASE PlayFinish
    <3>1. slot \in Slots /\ NumSamplesOf(soundBites[slot].pSound) \in Nat
      BY <2>26, PlayingType, LengthType DEF PlayFinish
    <3>2. soundBites' \in [Slots -> BiteType] /\ numSoundBites' \in Int
      BY <2>26, <3>1, FinishTypes DEF PlayFinish
    <3>3. slot' \in 0 .. MAX_SOUND_BITES /\ curr_size' \in Nat /\ offset' \in Nat
      BY <2>26, <3>1, SlotsAssumption, BufferAssumption DEF PlayFinish, Slots
    <3> QED
      BY <2>26, <3>2, <3>3 DEF PlayFinish
  <2>27. CASE PlayWrite
    BY <2>27, SlotsAssumption DEF PlayWrite, Unlock
  <2>28. CASE PlayWriteFails
    BY <2>28 DEF PlayWriteFails, ExitFailure
  <2>29. CASE UdpLoad
    BY <2>29, FilesType DEF UdpLoad, WaveState, FreeStep, Sound, Owner
  <2>30. CASE UdpLoadFails
    BY <2>30 DEF UdpLoadFails, ExitFailure
  <2>31. CASE UdpLock
    BY <2>31 DEF UdpLock, Lock
  <2>32. CASE UdpQueue
    BY <2>32, QueueTypes, QueueKeepsTaken DEF UdpQueue, Sound, Owner
  <2>33. CASE UdpUnlock
    BY <2>33 DEF UdpUnlock, Unlock, File
  <2>34. CASE UdpJoin
    BY <2>34 DEF UdpJoin
  <2>35. CASE UdpDestroy
    BY <2>35 DEF UdpDestroy, DestroyMutex
  <2>36. CASE UdpFreeBuffer
    BY <2>36 DEF UdpFreeBuffer
  <2>37. CASE UdpFree
    BY <2>37, FilesType DEF UdpFree, FreeStep, WaveState, Sound, Owner
  <2>38. CASE UdpPlayCommand
    BY <2>38 DEF UdpPlayCommand
  <2>39. CASE UdpTerminate
    BY <2>39 DEF UdpTerminate
  <2>40. CASE JoystickFails
    BY <2>40 DEF JoystickFails, ExitFailure
  <2>41. CASE JoystickEnds
    BY <2>41 DEF JoystickEnds
  <2>42. CASE Ended
    BY <2>42 DEF Ended, vars
  <2>43. CASE UNCHANGED vars
    BY <2>43 DEF vars
  <2> QED
    BY <2>1, <2>2, <2>3, <2>4, <2>5, <2>6, <2>7, <2>8, <2>9, <2>10, <2>11,
       <2>12, <2>13, <2>14, <2>15, <2>16, <2>17, <2>18, <2>19, <2>20,
       <2>21, <2>22, <2>23, <2>24, <2>25, <2>26, <2>27, <2>28, <2>29,
       <2>30, <2>31, <2>32, <2>33, <2>34, <2>35, <2>36, <2>37, <2>38,
       <2>39, <2>40, <2>41, <2>42, <2>43
    DEF Next, MainNext, PlayNext, UdpNext, UdpCommand
<1> QED BY <1>1, <1>2, PTL DEF Spec

THEOREM TypeCorrect == Spec => []TypeOK
BY TypedInHand, PTL

(***************************************************************************)
(* The stages of the four threads, and what they say of the resources.     *)
(***************************************************************************)
LEMMA StagesHold == Spec => []Stages
<1>1. Init => Stages
  BY DEF Init, InitBites, Stages, EndControl, PlayControl, HoldControl, FillControl
<1>2. Stages /\ [Next]_vars => Stages'
  <2> SUFFICES ASSUME Stages, [Next]_vars PROVE Stages'
    OBVIOUS
  <2> USE DEF Stages, Running, bitesVars, sharedVars, mainVars, playVars, fillVars, udpVars,
              PlayControl, HoldControl, FillControl, EndControl
  <2>1. CASE MainPeriodInit
    BY <2>1 DEF MainPeriodInit
  <2>2. CASE MainMixerInit
    BY <2>2 DEF MainMixerInit
  <2>3. CASE MainMixerInitFails
    BY <2>3 DEF MainMixerInitFails, ExitFailure
  <2>4. CASE MainStartThreads
    BY <2>4 DEF MainStartThreads
  <2>5. CASE MainLoad
    BY <2>5 DEF MainLoad
  <2>6. CASE MainLoadFails
    BY <2>6 DEF MainLoadFails, ExitFailure
  <2>7. CASE MainLoop
    BY <2>7 DEF MainLoop
  <2>8. CASE MainLock
    BY <2>8 DEF MainLock, Lock
  <2>9. CASE MainQueue
    BY <2>9 DEF MainQueue
  <2>10. CASE MainUnlock
    BY <2>10 DEF MainUnlock, Unlock
  <2>11. CASE MainBeatEnds
    BY <2>11 DEF MainBeatEnds
  <2>12. CASE MainFree
    BY <2>12 DEF MainFree
  <2>13. CASE MainJoystickShutdown
    BY <2>13 DEF MainJoystickShutdown
  <2>14. CASE MainJoinUdp
    BY <2>14 DEF MainJoinUdp
  <2>15. CASE MainJoinJoystick
    BY <2>15 DEF MainJoinJoystick
  <2>16. CASE MainPeriodCleanup
    BY <2>16 DEF MainPeriodCleanup
  <2>17. CASE MainReturn
    BY <2>17 DEF MainReturn
  <2>18. CASE PlayLoop
    BY <2>18 DEF PlayLoop
  <2>19. CASE PlayLock
    BY <2>19 DEF PlayLock, Lock
  <2>20. CASE PlayMark
    BY <2>20 DEF PlayMark
  <2>21. CASE PlaySlot
    BY <2>21 DEF PlaySlot
  <2>22. CASE PlayCheck
    BY <2>22 DEF PlayCheck
  <2>23. CASE PlayBound
    BY <2>23 DEF PlayBound
  <2>24. CASE PlayRead
    BY <2>24 DEF PlayRead
  <2>25. CASE PlayReadFaults
    BY <2>25 DEF PlayReadFaults
  <2>26. CASE PlayFinish
    BY <2>26 DEF PlayFinish
  <2>27. CASE PlayWrite
    BY <2>27 DEF PlayWrite, Unlock
  <2>28. CASE PlayWriteFails
    BY <2>28 DEF PlayWriteFails, ExitFailure
  <2>29. CASE UdpLoad
    BY <2>29 DEF UdpLoad
  <2>30. CASE UdpLoadFails
    BY <2>30 DEF UdpLoadFails, ExitFailure
  <2>31. CASE UdpLock
    BY <2>31 DEF UdpLock, Lock
  <2>32. CASE UdpQueue
    BY <2>32 DEF UdpQueue
  <2>33. CASE UdpUnlock
    BY <2>33 DEF UdpUnlock, Unlock
  <2>34. CASE UdpJoin
    BY <2>34 DEF UdpJoin
  <2>35. CASE UdpDestroy
    BY <2>35 DEF UdpDestroy, DestroyMutex
  <2>36. CASE UdpFreeBuffer
    BY <2>36 DEF UdpFreeBuffer
  <2>37. CASE UdpFree
    BY <2>37 DEF UdpFree
  <2>38. CASE UdpPlayCommand
    BY <2>38 DEF UdpPlayCommand
  <2>39. CASE UdpTerminate
    BY <2>39 DEF UdpTerminate
  <2>40. CASE JoystickFails
    BY <2>40 DEF JoystickFails, ExitFailure
  <2>41. CASE JoystickEnds
    BY <2>41 DEF JoystickEnds
  <2>42. CASE Ended
    BY <2>42 DEF Ended, vars
  <2>43. CASE UNCHANGED vars
    BY <2>43 DEF vars
  <2> QED
    BY <2>1, <2>2, <2>3, <2>4, <2>5, <2>6, <2>7, <2>8, <2>9, <2>10, <2>11,
       <2>12, <2>13, <2>14, <2>15, <2>16, <2>17, <2>18, <2>19, <2>20,
       <2>21, <2>22, <2>23, <2>24, <2>25, <2>26, <2>27, <2>28, <2>29,
       <2>30, <2>31, <2>32, <2>33, <2>34, <2>35, <2>36, <2>37, <2>38,
       <2>39, <2>40, <2>41, <2>42, <2>43
    DEF Next, MainNext, PlayNext, UdpNext, UdpCommand
<1> QED BY <1>1, <1>2, PTL DEF Spec

(***************************************************************************)
(* Who holds the mutex.                                                    *)
(***************************************************************************)
LEMMA MutexHolds == Spec => []MutexInv
<1>1. Init => MutexInv
  BY DEF Init, MutexInv, HoldControl, FillControl
<1>2. Stages /\ MutexInv /\ [Next]_vars => MutexInv'
  <2> SUFFICES ASSUME Stages, MutexInv, [Next]_vars PROVE MutexInv'
    OBVIOUS
  <2> USE DEF Stages, MutexInv, Running, sharedVars, mainVars, playVars, fillVars, udpVars,
              PlayControl, HoldControl, FillControl, EndControl
  <2>1. CASE MainPeriodInit
    BY <2>1 DEF MainPeriodInit
  <2>2. CASE MainMixerInit
    BY <2>2 DEF MainMixerInit
  <2>3. CASE MainMixerInitFails
    BY <2>3 DEF MainMixerInitFails, ExitFailure
  <2>4. CASE MainStartThreads
    BY <2>4 DEF MainStartThreads
  <2>5. CASE MainLoad
    BY <2>5 DEF MainLoad
  <2>6. CASE MainLoadFails
    BY <2>6 DEF MainLoadFails, ExitFailure
  <2>7. CASE MainLoop
    BY <2>7 DEF MainLoop
  <2>8. CASE MainLock
    BY <2>8 DEF MainLock, Lock
  <2>9. CASE MainQueue
    BY <2>9 DEF MainQueue
  <2>10. CASE MainUnlock
    BY <2>10 DEF MainUnlock, Unlock
  <2>11. CASE MainBeatEnds
    BY <2>11 DEF MainBeatEnds
  <2>12. CASE MainFree
    BY <2>12 DEF MainFree
  <2>13. CASE MainJoystickShutdown
    BY <2>13 DEF MainJoystickShutdown
  <2>14. CASE MainJoinUdp
    BY <2>14 DEF MainJoinUdp
  <2>15. CASE MainJoinJoystick
    BY <2>15 DEF MainJoinJoystick
  <2>16. CASE MainPeriodCleanup
    BY <2>16 DEF MainPeriodCleanup
  <2>17. CASE MainReturn
    BY <2>17 DEF MainReturn
  <2>18. CASE PlayLoop
    BY <2>18 DEF PlayLoop
  <2>19. CASE PlayLock
    BY <2>19 DEF PlayLock, Lock
  <2>20. CASE PlayMark
    BY <2>20 DEF PlayMark
  <2>21. CASE PlaySlot
    BY <2>21 DEF PlaySlot
  <2>22. CASE PlayCheck
    BY <2>22 DEF PlayCheck
  <2>23. CASE PlayBound
    BY <2>23 DEF PlayBound
  <2>24. CASE PlayRead
    BY <2>24 DEF PlayRead
  <2>25. CASE PlayReadFaults
    BY <2>25 DEF PlayReadFaults
  <2>26. CASE PlayFinish
    BY <2>26 DEF PlayFinish
  <2>27. CASE PlayWrite
    BY <2>27 DEF PlayWrite, Unlock
  <2>28. CASE PlayWriteFails
    BY <2>28 DEF PlayWriteFails, ExitFailure
  <2>29. CASE UdpLoad
    BY <2>29 DEF UdpLoad
  <2>30. CASE UdpLoadFails
    BY <2>30 DEF UdpLoadFails, ExitFailure
  <2>31. CASE UdpLock
    BY <2>31 DEF UdpLock, Lock
  <2>32. CASE UdpQueue
    BY <2>32 DEF UdpQueue
  <2>33. CASE UdpUnlock
    BY <2>33 DEF UdpUnlock, Unlock
  <2>34. CASE UdpJoin
    BY <2>34 DEF UdpJoin
  <2>35. CASE UdpDestroy
    BY <2>35 DEF UdpDestroy, DestroyMutex
  <2>36. CASE UdpFreeBuffer
    BY <2>36 DEF UdpFreeBuffer
  <2>37. CASE UdpFree
    BY <2>37 DEF UdpFree
  <2>38. CASE UdpPlayCommand
    BY <2>38 DEF UdpPlayCommand
  <2>39. CASE UdpTerminate
    BY <2>39 DEF UdpTerminate
  <2>40. CASE JoystickFails
    BY <2>40 DEF JoystickFails, ExitFailure
  <2>41. CASE JoystickEnds
    BY <2>41 DEF JoystickEnds
  <2>42. CASE Ended
    BY <2>42 DEF Ended, vars
  <2>43. CASE UNCHANGED vars
    BY <2>43 DEF vars
  <2> QED
    BY <2>1, <2>2, <2>3, <2>4, <2>5, <2>6, <2>7, <2>8, <2>9, <2>10, <2>11,
       <2>12, <2>13, <2>14, <2>15, <2>16, <2>17, <2>18, <2>19, <2>20,
       <2>21, <2>22, <2>23, <2>24, <2>25, <2>26, <2>27, <2>28, <2>29,
       <2>30, <2>31, <2>32, <2>33, <2>34, <2>35, <2>36, <2>37, <2>38,
       <2>39, <2>40, <2>41, <2>42, <2>43
    DEF Next, MainNext, PlayNext, UdpNext, UdpCommand
<1> QED BY <1>1, <1>2, StagesHold, PTL DEF Spec

(***************************************************************************)
(* No two threads are in the sound-bite table at once: MutexInv settles    *)
(* each pair, the destroyed mutex included.                                *)
(***************************************************************************)
THEOREM TableExclusive == Spec => []SlotsExclusive
<1>1. Stages /\ MutexInv => SlotsExclusive
  BY DEF Stages, MutexInv, SlotsExclusive, HoldControl
<1> QED BY <1>1, StagesHold, MutexHolds, PTL

(***************************************************************************)
(* The buffer and the device outlive every block that playback fills.      *)
(***************************************************************************)
THEOREM DeviceOutlivesFill == Spec => []DeviceLive
<1>1. Stages => DeviceLive
  BY DEF Stages, DeviceLive, PlayControl, HoldControl, FillControl
<1> QED BY <1>1, StagesHold, PTL

(***************************************************************************)
(* The period timer is initialized whenever playback marks an event.       *)
(***************************************************************************)
THEOREM TimerReady == Spec => []PeriodReady
<1>1. Stages => PeriodReady
  BY DEF Stages, PeriodReady, HoldControl, FillControl, EndControl
<1> QED BY <1>1, StagesHold, PTL

----------------------------------------------------------------------------
(* The table's own bookkeeping *)

\* Only these steps write the table.
LEMMA TableSteps ==
    [Next]_vars => \/ UNCHANGED bitesVars
                   \/ MainMixerInit \/ MainQueue \/ UdpQueue \/ PlayFinish
BY DEF Next, MainNext, PlayNext, UdpNext, UdpCommand, vars, bitesVars, ExitFailure,
    MainPeriodInit, MainMixerInitFails, MainStartThreads, MainLoad, MainLoadFails,
    MainLoop, MainLock, MainUnlock, MainBeatEnds, MainFree, MainJoystickShutdown,
    MainJoinUdp, MainJoinJoystick, MainPeriodCleanup, MainReturn, PlayLoop,
    PlayLock, PlayMark, PlaySlot, PlayCheck, PlayBound, PlayRead, PlayReadFaults,
    PlayWrite, PlayWriteFails, UdpLoad, UdpLoadFails, UdpLock, UdpUnlock, UdpJoin,
    UdpDestroy, UdpFreeBuffer, UdpFree, UdpPlayCommand, UdpTerminate, JoystickFails,
    JoystickEnds, Ended

LEMMA SlotsFinite == IsFiniteSet(Slots) /\ \A S \in SUBSET Slots : IsFiniteSet(S)
<1>1. IsFiniteSet(Slots)
  BY SlotsAssumption, FS_Interval DEF Slots
<1> QED BY <1>1, FS_Subset

LEMMA QueueCounts ==
    ASSUME soundBites \in [Slots -> BiteType], SlotCount, FreshSlots,
           NEW s \in Sound, QueueSound(s)
    PROVE  SlotCount' /\ FreshSlots'
<1>1. CASE QueueRefused
  BY <1>1 DEF QueueRefused, bitesVars, SlotCount, FreshSlots, Occupied
<1>2. ASSUME NEW i \in Slots, QueueAt(i, s) PROVE SlotCount' /\ FreshSlots'
  <2>1. Occupied' = Occupied \cup {i} /\ i \notin Occupied
    BY <1>2, NullAssumption DEF QueueAt, Occupied
  <2>2. Cardinality(Occupied') = Cardinality(Occupied) + 1
    BY <2>1, SlotsFinite, FS_AddElement DEF Occupied
  <2>3. SlotCount'
    BY <1>2, <2>2 DEF QueueAt, SlotCount
  <2>4. FreshSlots'
    BY <1>2, NullAssumption DEF QueueAt, FreshSlots, FreeBite
  <2> QED BY <2>3, <2>4
<1> QED BY <1>1, <1>2 DEF QueueSound, QueueAccepted

LEMMA FinishCounts ==
    ASSUME soundBites \in [Slots -> BiteType], SlotCount, FreshSlots,
           NEW i \in Slots, soundBites[i].pSound # NULL,
           NEW off \in Nat, NEW n \in Nat, FinishSlot(i, off, n)
    PROVE  SlotCount' /\ FreshSlots'
<1>1. CASE ReleaseSlot(i)
  <2>1. Occupied' = Occupied \ {i} /\ i \in Occupied
    BY <1>1 DEF ReleaseSlot, FreeBite, Occupied
  <2>2. Cardinality(Occupied') = Cardinality(Occupied) - 1
    BY <2>1, SlotsFinite, FS_RemoveElement DEF Occupied
  <2>3. SlotCount'
    BY <1>1, <2>2 DEF ReleaseSlot, SlotCount
  <2>4. FreshSlots'
    BY <1>1 DEF ReleaseSlot, FreshSlots, FreeBite
  <2> QED BY <2>3, <2>4
<1>2. CASE AdvanceSlot(i, off)
  <2>1. Occupied' = Occupied
    BY <1>2 DEF AdvanceSlot, Occupied, BiteType
  <2>2. SlotCount'
    BY <1>2, <2>1 DEF AdvanceSlot, SlotCount
  <2>3. FreshSlots'
    BY <1>2 DEF AdvanceSlot, FreshSlots, FreeBite, BiteType
  <2> QED BY <2>2, <2>3
<1> QED BY <1>1, <1>2 DEF FinishSlot

(***************************************************************************)
(* numSoundBites is always the number of slots in use, and a free slot     *)
(* always has location 0.                                                  *)
(***************************************************************************)
LEMMA BooksKept == Spec => [](SlotCount /\ FreshSlots)
<1>1. Init => SlotCount /\ FreshSlots
  <2> SUFFICES ASSUME InitBites PROVE SlotCount /\ FreshSlots
    BY DEF Init
  <2>1. Occupied = {}
    BY DEF InitBites, FreeBite, Occupied
  <2> QED BY <2>1, FS_EmptySet DEF InitBites, SlotCount, FreshSlots
<1>2. TypeOK /\ InHand /\ Stages /\ SlotCount /\ FreshSlots /\ [Next]_vars
        => SlotCount' /\ FreshSlots'
  <2> SUFFICES ASSUME TypeOK, InHand, Stages, SlotCount, FreshSlots, [Next]_vars
               PROVE  SlotCount' /\ FreshSlots'
    OBVIOUS
  <2>1. soundBites \in [Slots -> BiteType]
    BY DEF TypeOK, BiteType
  <2>2. CASE UNCHANGED bitesVars
    BY <2>2 DEF bitesVars, SlotCount, FreshSlots, Occupied
  <2>3. CASE MainMixerInit
    <3>1. Occupied' = {} /\ FreshSlots'
      BY <2>3 DEF MainMixerInit, FreeBite, Occupied, FreshSlots
    <3>2. numSoundBites' = 0
      BY <2>3 DEF MainMixerInit, Stages
    <3> QED BY <3>1, <3>2, FS_EmptySet DEF SlotCount
  <2>4. CASE MainQueue
    <3>1. <<"main", Head(Head(pending))>> \in Sound
      BY <2>4, PendingType DEF MainQueue, TypeOK, InHand, Sound, Owner
    <3> QED BY <2>1, <2>4, <3>1, QueueCounts DEF MainQueue
  <2>5. CASE UdpQueue
    <3>1. <<"udp", noteU>> \in Sound
      BY DEF TypeOK, Sound, Owner
    <3> QED BY <2>1, <2>5, <3>1, QueueCounts DEF UdpQueue
  <2>6. CASE PlayFinish
    <3>1. pcP \in MixControl
      BY <2>6 DEF PlayFinish, MixControl
    <3>2. slot \in Slots /\ NumSamplesOf(soundBites[slot].pSound) \in Nat
      BY <3>1, PlayingType, LengthType
    <3>3. soundBites[slot].pSound # NULL /\ offset \in Nat
      BY <3>1 DEF InHand, TypeOK
    <3> QED BY <2>1, <2>6, <3>2, <3>3, FinishCounts DEF PlayFinish
  <2> QED BY <2>2, <2>3, <2>4, <2>5, <2>6, TableSteps
<1> QED BY <1>1, <1>2, TypedInHand, StagesHold, PTL DEF Spec

----------------------------------------------------------------------------
(* The six sounds *)

LEMMA FreeStepType ==
    ASSUME NEW w PROVE FreeStep(w) \in WaveState
BY DEF FreeStep, WaveState

LEMMA OneWave ==
    ASSUME TypeOK, NEW o \in Owner, NEW k \in 1 .. 3, NEW w \in WaveState,
           waves' = [waves EXCEPT ![<<o, Files[k]>>] = w]
    PROVE  /\ waves'[<<o, Files[k]>>] = w
           /\ \A j \in 1 .. 3 : j # k => waves'[<<o, Files[j]>>] = waves[<<o, Files[j]>>]
           /\ \A p \in Owner : \A f \in File : p # o => waves'[<<p, f>>] = waves[<<p, f>>]
BY FilesType, FilesOneToOne DEF TypeOK, Sound

(***************************************************************************)
(* How far each owner is with its files.                                   *)
(***************************************************************************)
LEMMA WavesHold == Spec => []WavesInv
<1>1. Init => WavesInv
  BY DEF Init, WavesInv, Owned
<1>2. TypeOK /\ Stages /\ WavesInv /\ [Next]_vars => WavesInv'
  <2> SUFFICES ASSUME TypeOK, Stages, WavesInv, [Next]_vars PROVE WavesInv'
    OBVIOUS
  <2> USE DEF WavesInv, Owned, AllLoaded, Running, sharedVars, mainVars, udpVars
  <2>1. CASE MainPeriodInit
    BY <2>1 DEF MainPeriodInit
  <2>2. CASE MainMixerInit
    BY <2>2 DEF MainMixerInit
  <2>3. CASE MainMixerInitFails
    BY <2>3 DEF MainMixerInitFails, ExitFailure
  <2>4. CASE MainStartThreads
    BY <2>4 DEF MainStartThreads, Stages
  <2>5. CASE MainLoad
    <3>1. fileM \in 1 .. 3 /\ "main" \in Owner /\ "udp" \in Owner
      BY DEF TypeOK, Owner
    <3>2. waves' = [waves EXCEPT ![<<"main", Files[fileM]>>] = "loaded"]
      BY <2>5 DEF MainLoad
    <3>3. /\ waves'[<<"main", Files[fileM]>>] = "loaded"
          /\ \A j \in 1 .. 3 : j # fileM =>
               waves'[<<"main", Files[j]>>] = waves[<<"main", Files[j]>>]
      BY <3>1, <3>2, OneWave DEF WaveState
    <3>4. \A j \in 1 .. 3 : waves'[<<"udp", Files[j]>>] = waves[<<"udp", Files[j]>>]
      BY <3>1, <3>2, OneWave, FilesType DEF WaveState
    <3>5. CASE fileM = 3
      BY <2>5, <3>1, <3>3, <3>4, <3>5 DEF MainLoad
    <3>6. CASE fileM # 3
      BY <2>5, <3>1, <3>3, <3>4, <3>6 DEF MainLoad
    <3> QED BY <3>5, <3>6
  <2>6. CASE MainLoadFails
    BY <2>6 DEF MainLoadFails, ExitFailure
  <2>7. CASE MainLoop
    BY <2>7 DEF MainLoop
  <2>8. CASE MainLock
    BY <2>8 DEF MainLock, Lock
  <2>9. CASE MainQueue
    BY <2>9 DEF MainQueue
  <2>10. CASE MainUnlock
    BY <2>10 DEF MainUnlock, Unlock
  <2>11. CASE MainBeatEnds
    BY <2>11 DEF MainBeatEnds
  <2>12. CASE MainFree
    <3>1. fileM \in 1 .. 3 /\ "main" \in Owner /\ "udp" \in Owner
      BY DEF TypeOK, Owner
    <3>2. PICK w \in WaveState :
               /\ w = FreeStep(waves[<<"main", Files[fileM]>>])
               /\ waves' = [waves EXCEPT ![<<"main", Files[fileM]>>] = w]
      BY <2>12, FreeStepType DEF MainFree
    <3>3. w \in WaveState /\ waves' = [waves EXCEPT ![<<"main", Files[fileM]>>] = w]
      BY <3>2
    <3>4. /\ waves'[<<"main", Files[fileM]>>] = w
          /\ \A j \in 1 .. 3 : j # fileM =>
               waves'[<<"main", Files[j]>>] = waves[<<"main", Files[j]>>]
      BY ONLY TypeOK, <3>1, <3>3, OneWave DEF WaveState
    <3>5. \A j \in 1 .. 3 : waves'[<<"udp", Files[j]>>] = waves[<<"udp", Files[j]>>]
      BY ONLY TypeOK, <3>1, <3>3, OneWave, FilesType
    <3>6. CASE waves[<<"main", Files[fileM]>>] = "dangling"
      BY <2>12, <3>1, <3>2, <3>4, <3>5, <3>6 DEF MainFree, FreeStep
    <3>7. CASE waves[<<"main", Files[fileM]>>] # "dangling"
      BY <2>12, <3>1, <3>2, <3>4, <3>5, <3>7 DEF MainFree, FreeStep
    <3> QED BY <3>6, <3>7
  <2>13. CASE MainJoystickShutdown
    BY <2>13 DEF MainJoystickShutdown
  <2>14. CASE MainJoinUdp
    BY <2>14 DEF MainJoinUdp
  <2>15. CASE MainJoinJoystick
    BY <2>15 DEF MainJoinJoystick
  <2>16. CASE MainPeriodCleanup
    BY <2>16 DEF MainPeriodCleanup
  <2>17. CASE MainReturn
    BY <2>17 DEF MainReturn
  <2>18. CASE PlayLoop
    BY <2>18 DEF PlayLoop
  <2>19. CASE PlayLock
    BY <2>19 DEF PlayLock, Lock
  <2>20. CASE PlayMark
    BY <2>20 DEF PlayMark
  <2>21. CASE PlaySlot
    BY <2>21 DEF PlaySlot
  <2>22. CASE PlayCheck
    BY <2>22 DEF PlayCheck
  <2>23. CASE PlayBound
    BY <2>23 DEF PlayBound
  <2>24. CASE PlayRead
    BY <2>24 DEF PlayRead
  <2>25. CASE PlayReadFaults
    BY <2>25 DEF PlayReadFaults
  <2>26. CASE PlayFinish
    BY <2>26 DEF PlayFinish
  <2>27. CASE PlayWrite
    BY <2>27 DEF PlayWrite, Unlock
  <2>28. CASE PlayWriteFails
    BY <2>28 DEF PlayWriteFails, ExitFailure
  <2>29. CASE UdpLoad
    <3>1. fileU \in 1 .. 3 /\ "udp" \in Owner /\ "main" \in Owner
      BY DEF TypeOK, Owner
    <3>2. waves' = [waves EXCEPT ![<<"udp", Files[fileU]>>] = "loaded"]
      BY <2>29 DEF UdpLoad
    <3>3. /\ waves'[<<"udp", Files[fileU]>>] = "loaded"
          /\ \A j \in 1 .. 3 : j # fileU =>
               waves'[<<"udp", Files[j]>>] = waves[<<"udp", Files[j]>>]
      BY <3>1, <3>2, OneWave DEF WaveState
    <3>4. \A j \in 1 .. 3 : waves'[<<"main", Files[j]>>] = waves[<<"main", Files[j]>>]
      BY <3>1, <3>2, OneWave, FilesType DEF WaveState
    <3>5. CASE fileU = 3
      BY <2>29, <3>1, <3>3, <3>4, <3>5 DEF UdpLoad
    <3>6. CASE fileU # 3
      BY <2>29, <3>1, <3>3, <3>4, <3>6 DEF UdpLoad
    <3> QED BY <3>5, <3>6
  <2>30. CASE UdpLoadFails
    BY <2>30 DEF UdpLoadFails, ExitFailure
  <2>31. CASE UdpLock
    BY <2>31 DEF UdpLock, Lock
  <2>32. CASE UdpQueue
    BY <2>32 DEF UdpQueue
  <2>33. CASE UdpUnlock
    BY <2>33 DEF UdpUnlock, Unlock
  <2>34. CASE UdpJoin
    BY <2>34 DEF UdpJoin
  <2>35. CASE UdpDestroy
    BY <2>35 DEF UdpDestroy, DestroyMutex
  <2>36. CASE UdpFreeBuffer
    BY <2>36 DEF UdpFreeBuffer
  <2>37. CASE UdpFree
    <3>1. fileU \in 1 .. 3 /\ "udp" \in Owner /\ "main" \in Owner
      BY DEF TypeOK, Owner
    <3>2. PICK w \in WaveState :
               /\ w = FreeStep(waves[<<"udp", Files[fileU]>>])
               /\ waves' = [waves EXCEPT ![<<"udp", Files[fileU]>>] = w]
      BY <2>37, FreeStepType DEF UdpFree
    <3>3. w \in WaveState /\ waves' = [waves EXCEPT ![<<"udp", Files[fileU]>>] = w]
      BY <3>2
    <3>4. /\ waves'[<<"udp", Files[fileU]>>] = w
          /\ \A j \in 1 .. 3 : j # fileU =>
               waves'[<<"udp", Files[j]>>] = waves[<<"udp", Files[j]>>]
      BY ONLY TypeOK, <3>1, <3>3, OneWave DEF WaveState
    <3>5. \A j \in 1 .. 3 : waves'[<<"main", Files[j]>>] = waves[<<"main", Files[j]>>]
      BY ONLY TypeOK, <3>1, <3>3, OneWave, FilesType
    <3>6. CASE waves[<<"udp", Files[fileU]>>] = "dangling"
      BY <2>37, <3>1, <3>2, <3>4, <3>5, <3>6 DEF UdpFree, FreeStep
    <3>7. CASE waves[<<"udp", Files[fileU]>>] # "dangling"
      BY <2>37, <3>1, <3>2, <3>4, <3>5, <3>7 DEF UdpFree, FreeStep
    <3> QED BY <3>6, <3>7
  <2>38. CASE UdpPlayCommand
    BY <2>38 DEF UdpPlayCommand
  <2>39. CASE UdpTerminate
    BY <2>39 DEF UdpTerminate
  <2>40. CASE JoystickFails
    BY <2>40 DEF JoystickFails, ExitFailure
  <2>41. CASE JoystickEnds
    BY <2>41 DEF JoystickEnds
  <2>42. CASE Ended
    BY <2>42 DEF Ended, vars
  <2>43. CASE UNCHANGED vars
    BY <2>43 DEF vars
  <2> QED
    BY <2>1, <2>2, <2>3, <2>4, <2>5, <2>6, <2>7, <2>8, <2>9, <2>10, <2>11,
       <2>12, <2>13, <2>14, <2>15, <2>16, <2>17, <2>18, <2>19, <2>20,
       <2>21, <2>22, <2>23, <2>24, <2>25, <2>26, <2>27, <2>28, <2>29,
       <2>30, <2>31, <2>32, <2>33, <2>34, <2>35, <2>36, <2>37, <2>38,
       <2>39, <2>40, <2>41, <2>42, <2>43
    DEF Next, MainNext, PlayNext, UdpNext, UdpCommand
<1> QED BY <1>1, <1>2, TypedInHand, StagesHold, PTL DEF Spec

\* The listener never goes back to loading.
LEMMA UdpForward ==
    Stages /\ pcU \notin {"unstarted", "load"} /\ [Next]_vars
        => pcU' \notin {"unstarted", "load"}
<1> SUFFICES ASSUME Stages, pcU \notin {"unstarted", "load"}, [Next]_vars
             PROVE  pcU' \notin {"unstarted", "load"}
  OBVIOUS
<1>1. CASE MainNext
  BY <1>1 DEF Stages, MainNext, udpVars, ExitFailure, MainPeriodInit, MainMixerInit,
     MainMixerInitFails, MainStartThreads, MainLoad, MainLoadFails, MainLoop,
     MainLock, MainQueue, MainUnlock, MainBeatEnds, MainFree, MainJoystickShutdown,
     MainJoinUdp, MainJoinJoystick, MainPeriodCleanup, MainReturn
<1>2. CASE PlayNext
  BY <1>2 DEF PlayNext, udpVars, ExitFailure, PlayLoop, PlayLock, PlayMark,
     PlaySlot, PlayCheck, PlayBound, PlayRead, PlayReadFaults, PlayFinish,
     PlayWrite, PlayWriteFails
<1>3. CASE UdpNext
  BY <1>3 DEF UdpNext, udpVars, ExitFailure, UdpLoad, UdpLoadFails, UdpLock,
     UdpQueue, UdpUnlock, UdpJoin, UdpDestroy, UdpFreeBuffer, UdpFree
<1>4. CASE UdpCommand \/ JoystickFails \/ JoystickEnds \/ Ended \/ UNCHANGED vars
  BY <1>4 DEF UdpCommand, vars, udpVars, ExitFailure, UdpPlayCommand, UdpTerminate,
     JoystickFails, JoystickEnds, Ended
<1> QED BY <1>1, <1>2, <1>3, <1>4 DEF Next

LEMMA UdpQueuedHolds == Spec => []UdpQueued
<1>1. Init => UdpQueued
  <2> SUFFICES ASSUME Init, NEW i \in Slots, NEW f \in File
               PROVE  soundBites[i].pSound # <<"udp", f>>
    BY DEF UdpQueued
  <2>1. <<"udp", f>> \in Sound
    BY DEF Sound, Owner
  <2> QED BY <2>1, NullAssumption DEF Init, InitBites, FreeBite
<1>2. TypeOK /\ InHand /\ Stages /\ UdpQueued /\ [Next]_vars => UdpQueued'
  <2> SUFFICES ASSUME TypeOK, InHand, Stages, UdpQueued, [Next]_vars,
                      NEW i \in Slots, NEW f \in File, soundBites'[i].pSound = <<"udp", f>>
               PROVE  pcU' \notin {"unstarted", "load"}
    BY DEF UdpQueued
  <2>1. soundBites \in [Slots -> BiteType] /\ <<"udp", f>> # NULL
    BY NullAssumption DEF TypeOK, BiteType, Sound, Owner
  <2>2. soundBites[i].pSound = <<"udp", f>> => pcU \notin {"unstarted", "load"}
    BY DEF UdpQueued
  <2>3. CASE UNCHANGED bitesVars
    BY <2>2, <2>3, UdpForward DEF bitesVars
  <2>4. CASE MainMixerInit
    BY <2>1, <2>4 DEF MainMixerInit, FreeBite
  <2>5. CASE MainQueue
    <3>1. soundBites' = soundBites \/ \E j \in Slots : QueueAt(j, <<"main", Head(Head(pending))>>)
      BY <2>5 DEF MainQueue, QueueSound, QueueAccepted, QueueRefused, bitesVars
    <3>2. soundBites[i].pSound = <<"udp", f>>
      BY <2>1, <3>1 DEF QueueAt, BiteType
    <3> QED BY <2>2, <3>2, UdpForward
  <2>6. CASE UdpQueue
    BY <2>6, UdpForward DEF UdpQueue
  <2>7. CASE PlayFinish
    <3>1. \/ ReleaseSlot(slot)
          \/ AdvanceSlot(slot, offset)
      BY <2>7 DEF PlayFinish, FinishSlot
    <3>2. ASSUME ReleaseSlot(slot) PROVE soundBites[i].pSound = <<"udp", f>>
      BY <2>1, <3>2 DEF ReleaseSlot, FreeBite
    <3>3. ASSUME AdvanceSlot(slot, offset) PROVE soundBites[i].pSound = <<"udp", f>>
      BY <2>1, <3>3 DEF AdvanceSlot
    <3> QED BY <2>2, <3>1, <3>2, <3>3, UdpForward
  <2> QED BY <2>3, <2>4, <2>5, <2>6, <2>7, TableSteps
<1> QED BY <1>1, <1>2, TypedInHand, StagesHold, PTL DEF Spec

(***************************************************************************)
(* The listener's sounds are live whenever playback mixes one: a slot with *)
(* one means that it loaded them, and it frees them after its join only.   *)
(***************************************************************************)
THEOREM UdpSoundsLive == Spec => []UdpSoundsSafe
<1>1. TypeOK /\ InHand /\ Stages /\ WavesInv /\ UdpQueued => UdpSoundsSafe
  <2> SUFFICES ASSUME TypeOK, InHand, Stages, WavesInv, UdpQueued,
                      pcP \in MixControl, Playing[1] = "udp"
               PROVE  waves[Playing] = "loaded"
    BY DEF UdpSoundsSafe, MixControl
  <2>1. slot \in Slots /\ Playing \in Sound
    BY PlayingType DEF Playing
  <2>2. PICK f \in File : Playing = <<"udp", f>>
    BY <2>1 DEF Sound
  <2>3. pcU \notin {"unstarted", "load"}
    BY <2>1, <2>2 DEF UdpQueued, Playing
  <2>4. pcU \notin EndControl
    BY DEF Stages, MixControl
  <2>5. pcU \in {"recv", "lock", "queue", "unlock", "join"}
    BY <2>3, <2>4 DEF TypeOK, UdpControl
  <2>6. \A k \in 1 .. 3 : waves[<<"udp", Files[k]>>] = "loaded"
    BY <2>5 DEF WavesInv, AllLoaded
  <2> QED BY <2>2, <2>6, FilesOnto
<1> QED BY <1>1, TypedInHand, StagesHold, WavesHold, UdpQueuedHolds, PTL

(***************************************************************************)
(* AudioMixer_queueSound's assertions hold at every call.                  *)
(***************************************************************************)
THEOREM QueueAsserts == Spec => []GoodSounds
<1>1. TypeOK /\ InHand /\ WavesInv => GoodSounds
  <2> SUFFICES ASSUME TypeOK, InHand, WavesInv PROVE GoodSounds
    OBVIOUS
  <2>1. ASSUME pcM = "queue", Head(pending) # <<>>
        PROVE  waves[<<"main", Head(Head(pending))>>] = "loaded"
    <3>1. Head(Head(pending)) \in File
      BY <2>1, PendingType DEF TypeOK, InHand
    <3> QED BY <2>1, <3>1, FilesOnto DEF WavesInv, AllLoaded
  <2>2. ASSUME pcU = "queue" PROVE waves[<<"udp", noteU>>] = "loaded"
    <3>1. AllLoaded("udp") /\ noteU \in File
      BY <2>2 DEF WavesInv, TypeOK
    <3> QED BY <3>1, FilesOnto DEF AllLoaded
  <2> QED BY <2>1, <2>2 DEF GoodSounds
<1> QED BY <1>1, TypedInHand, WavesHold, PTL

----------------------------------------------------------------------------
(* The streams of the wave files *)

LEMMA WaveSteps ==
    [Next]_vars => \/ UNCHANGED <<waves, streams>>
                   \/ MainLoad \/ UdpLoad \/ MainFree \/ UdpFree
BY DEF Next, MainNext, PlayNext, UdpNext, UdpCommand, vars, sharedVars, ExitFailure,
    MainPeriodInit, MainMixerInit, MainMixerInitFails, MainStartThreads, MainLoadFails,
    MainLoop, MainLock, MainQueue, MainUnlock, MainBeatEnds, MainJoystickShutdown,
    MainJoinUdp, MainJoinJoystick, MainPeriodCleanup, MainReturn, PlayLoop, PlayLock,
    PlayMark, PlaySlot, PlayCheck, PlayBound, PlayRead, PlayReadFaults, PlayFinish,
    PlayWrite, PlayWriteFails, UdpLoadFails, UdpLock, UdpQueue, UdpUnlock, UdpJoin,
    UdpDestroy, UdpFreeBuffer, UdpPlayCommand, UdpTerminate, JoystickFails,
    JoystickEnds, Ended

\* The file of a sound stays open from its load on, whatever becomes of its data.
StreamsInv == \A s \in Sound : waves[s] # "unloaded" => s \in streams

LEMMA StreamsHold == Spec => []StreamsInv
<1>1. Init => StreamsInv
  BY DEF Init, StreamsInv
<1>2. TypeOK /\ WavesInv /\ StreamsInv /\ [Next]_vars => StreamsInv'
  <2> SUFFICES ASSUME TypeOK, WavesInv, StreamsInv, [Next]_vars PROVE StreamsInv'
    OBVIOUS
  <2>1. ASSUME NEW o \in Owner, NEW k \in 1 .. 3, waves[<<o, Files[k]>>] # "unloaded",
               NEW w \in WaveState, waves' = [waves EXCEPT ![<<o, Files[k]>>] = w],
               UNCHANGED streams
        PROVE  StreamsInv'
    BY <2>1 DEF StreamsInv, TypeOK
  <2>2. ASSUME NEW o \in Owner, NEW k \in 1 .. 3,
               waves' = [waves EXCEPT ![<<o, Files[k]>>] = "loaded"],
               streams' = streams \cup {<<o, Files[k]>>}
        PROVE  StreamsInv'
    BY <2>2 DEF StreamsInv, TypeOK
  <2>3. "main" \in Owner /\ "udp" \in Owner /\ fileM \in 1 .. 3 /\ fileU \in 1 .. 3
    BY DEF Owner, TypeOK
  <2>4. CASE UNCHANGED <<waves, streams>>
    BY <2>4 DEF StreamsInv
  <2>5. CASE MainLoad
    BY <2>2, <2>3, <2>5 DEF MainLoad
  <2>6. CASE UdpLoad
    BY <2>2, <2>3, <2>6 DEF UdpLoad
  <2>7. CASE MainFree
    <3>1. waves[<<"main", Files[fileM]>>] # "unloaded"
      BY <2>3, <2>7 DEF MainFree, WavesInv, Owned
    <3>2. PICK w \in WaveState : waves' = [waves EXCEPT ![<<"main", Files[fileM]>>] = w]
      BY <2>7, FreeStepType DEF MainFree
    <3>3. UNCHANGED streams
      BY <2>7 DEF MainFree
    <3> QED BY <2>1, <2>3, <3>1, <3>2, <3>3
  <2>8. CASE UdpFree
    <3>1. waves[<<"udp", Files[fileU]>>] # "unloaded"
      BY <2>3, <2>8 DEF UdpFree, WavesInv, Owned
    <3>2. PICK w \in WaveState : waves' = [waves EXCEPT ![<<"udp", Files[fileU]>>] = w]
      BY <2>8, FreeStepType DEF UdpFree
    <3>3. UNCHANGED streams
      BY <2>8 DEF UdpFree
    <3> QED BY <2>1, <2>3, <3>1, <3>2, <3>3
  <2> QED BY <2>4, <2>5, <2>6, <2>7, <2>8, WaveSteps
<1> QED BY <1>1, <1>2, TypedInHand, WavesHold, PTL DEF Spec

(***************************************************************************)
(* What a program that returns 0 still holds: not the playback buffer, the *)
(* device, the data of a sound, the timer or a thread, and all six streams *)
(* of the wave files.                                                      *)
(***************************************************************************)
THEOREM HeldAtExit == Spec => []OnlyStreamsLeft
<1>1. TypeOK /\ Stages /\ WavesInv /\ StreamsInv => OnlyStreamsLeft
  <2> SUFFICES ASSUME TypeOK, Stages, WavesInv, StreamsInv, proc = "exited"
               PROVE  /\ pcP = "done" /\ pcU = "done" /\ pcJ = "done"
                      /\ buffer = "freed" /\ pcm = "closed" /\ ~initialized
                      /\ \A s \in Sound : waves[s] = "null"
                      /\ streams = Sound
    BY DEF OnlyStreamsLeft
  <2>1. /\ pcM = "return" /\ pcU = "done" /\ pcJ = "done" /\ pcP = "done"
        /\ buffer = "freed" /\ pcm = "closed" /\ ~initialized
    BY DEF Stages, EndControl
  <2>2. \A o \in Owner : \A k \in 1 .. 3 : waves[<<o, Files[k]>>] = "null"
    BY <2>1 DEF WavesInv, Owned, Owner
  <2>3. \A s \in Sound : waves[s] = "null"
    <3> SUFFICES ASSUME NEW o \in Owner, NEW f \in File PROVE waves[<<o, f>>] = "null"
      BY DEF Sound
    <3>1. PICK k \in 1 .. 3 : Files[k] = f
      BY FilesOnto
    <3> QED BY <2>2, <3>1
  <2>4. streams = Sound
    BY <2>3 DEF StreamsInv, TypeOK
  <2> QED BY <2>1, <2>3, <2>4
<1> QED BY <1>1, TypedInHand, StagesHold, WavesHold, StreamsHold, PTL

(***************************************************************************)
(* The hand-kept counter and the free slots.                               *)
(***************************************************************************)
THEOREM CounterExact == Spec => []SlotCount
BY BooksKept, PTL

THEOREM SlotsFresh == Spec => []FreshSlots
BY BooksKept, PTL
============================================================================
