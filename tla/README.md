# A TLA+ verification of the cmpt433 programs

The repository holds the programs of a course on an embedded Linux board. The
largest is the *beat box* (`work/pcmExample`): a C process that mixes drum
sounds in real time, driven by a joystick and by a web page. The others are a
*light sampler* (`work/as2`), a *Morse code driver* (`work/morsecode`) and a
*reaction game* (`work/as1`). This directory models all four, thread by thread
and function by function, checks the models with TLC and proves the main safety
properties with TLAPS. More than 99 % of the C and JavaScript in the repository is
third-party code that the course was built with (systemd, libusb,
`node_modules`): the models cover the programs of the course, a small share of
the repository's lines.

## 1. Inventory

| component | state | operations | talks to |
|---|---|---|---|
| audio mixer, `audiomixer.c` | `soundBites[]`, `numSoundBites`, `playbackBuffer`, PCM handle, `stopping`, `audioMutex` | `init`, `readWaveFileIntoMemory`, `freeWaveFileData`, `queueSound`, `fillPlaybackBuffer`, `playbackThread`, `cleanup` | every thread; ALSA; period timer |
| threads, `beatbox.c`, `udpListener.c`, `joystickInput.c` | program counters, three wave files in `beatbox.c` and three more in `udpListener.c`, two `running` flags | beats, commands, polling, start, cancel, join | mixer under `audioMutex`; settings under no lock |
| settings, `audiomixer.c:46-48, 229-301` | `volume`, `tempo`, `currentMode`, level of the sound card | `setVolume`, `setTempo`, `setMode`, `cycleNextMode` | written by joystick and listener, read by main and playback |
| period timer, `periodTimer.c` | a table of timestamps, the previous one, `s_initialized` | `init`, `markEvent`, `getStatisticsAndClear`, `cleanup` | called by playback (beat box) and by the sampler (as2) |
| web relay, `NodeServer/` | one socket and one timer per command | relay a command, reply or time out; the page polls | UDP listener, browser |
| light sampler history, `sampler.c` | circular array, its size, index and count, dip count | sample, resize, fade dips, *get N*, *history* | listener and LED thread |
| light sampler threads, `work/as2` | main, sampler, LED and UDP threads, `historyMutex`, `dipMutex`, SIGINT handler | start, join, *stop*, SIGINT, cancel, free | UDP client, LEDs, A2D files |
| Morse driver, `work/morsecode` | kfifo of dots and dashes, LED trigger | `write` (trim, flash), `read` | user processes |
| reaction game, `work/as1` | best time, LEDs | one loop over joystick files | sysfs |
| demos, guides, vendored code | - | - | - |

How the beat box runs: `main` starts the timer, the mixer (which starts the
playback thread), the joystick and the listener, then queues beats until
`stopping`. The playback thread repeats: lock, mark, fill one period from the
table, `snd_pcm_writei`, unlock. The listener answers datagrams; *terminate*
makes it run `AudioMixer_cleanup` itself: set `stopping`, join playback, close
the device, destroy `audioMutex`, free the buffer. main sees `stopping` at the
end of a beat, frees its own sounds, and joins the listener and the joystick.

What is hard here, and what makes each component correct:

- *Interleaving.* Table entries are pointers to data owned by other threads.
  Mixing must see live data; no two threads may be in the table at once, also
  in the last beat, when main locks a mutex that cleanup has destroyed.
- *Ordering at the end.* Four threads, two flags, three joins, a cancel. The
  program must end, with device, buffer, sound data and timer given back once and
  not used after. (The streams of the wave files are never closed: section 4.)
- *The table.* A hand-kept counter, first-fit allocation, a slot reused
  without resetting its position, several sounds that end in one period, a full
  table. A sound must play once, whole, in step, and give its slot back.
- *Arithmetic.* The sum of voices must saturate; the statistics must survive an
  empty window, the first window and a full table of timestamps.
- *No lock.* Settings are read and written by two threads: no interleaving may
  take them out of their range.
- *Memory and cancellation in the light sampler.* The array is replaced once a
  second, given away by pointer, and freed by whoever shuts down, while threads
  are cancelled wherever they wait. Nobody but the listener may use what is gone
  before the shutdown; a mutex must not be left behind or waited for by its owner.
- *The kernel's side.* The Morse driver trims text it has not copied, and
  reports success when its kfifo is full: readers must get standard code, or less.
- *The network.* The relay races each reply against a timer. A command must be
  answered once, and a page must catch up after losses, late replies and restarts.
- *The player.* The game ends a round in five ways and must be dark after each;
  its clock and its quit flag outlive the loops that read them.

PROJECT.json lists the hazards with their lines, and with the property that
covers each or the reason none does yet.

## 2. Modules

| module | models | composed of |
|---|---|---|
| `SoundBites` | the slot table: queue, advance, release | - |
| `BeatBox` | the process: four threads, mutex, flag, wave memory, device, exit | extends `SoundBites` |
| `AudioMixer` | queueing and filling down to samples | extends `SoundBites`, instantiates `Voices` |
| `Voices` | what the mixer promises: voices that play whole and in step, a saturated sum | abstract, no code |
| `MixerSettings` | volume, tempo, mode, sound card | - |
| `PeriodTimer` | timestamps and statistics | - |
| `LightHistory` | the circular history of `work/as2/sampler.c`: sample, resize, dips, *get N* | - |
| `LightSampler` | the four threads of `work/as2`: mutexes, memory, *stop*, SIGINT, cancellation | - |
| `MorseDriver` | `write` and `read` of the driver, kfifo and LED | - |
| `UdpRelay` | page, relay and program, datagrams and timers, restarts | instantiates `Answers` |
| `Answers` | what the relay promises: every command answered once, by its own reply or an error | abstract, no code |
| `ReactionGame` | the loop of the game, the player, the clock | - |
| `BeatBoxProofs`, `AudioMixerProofs`, `PeriodTimerProofs`, `LightHistoryProofs`, `LightSamplerProofs`, `MorseDriverProofs`, `UdpRelayProofs`, `ReactionGameProofs` | theorems | extend the modules they are about; `AudioMixerProofs` also extends `MixerSettings` |
| `MCBeatBox`, `MCAudioMixer`, `MCMorseDriver` | values of constants for TLC | |

**BeatBox.** `pcM`, `pcP`, `pcU`, `pcJ` are the control of the four threads.
An action is what a thread does up to the next point where another can notice:
a lock, an unlock, a call under the mutex, one assignment of an unlocked
function. So `AudioMixer_freeWaveFileData` is three steps (`FreeStep`), since
playback may look between any two, and the fill visits one slot at a time and
takes three steps on it (test of `pData`, bound of the loop, read). The beats
are data (`Rock`, `Random`): the groups of sounds that main queues under one
hold of the mutex. Tempo and mode only choose a beat, so a beat is any of
them. Any exit on an error is an action that ends the process at once.
`pthread_mutex_lock` on a destroyed mutex returns `EINVAL`, which no caller
looks at: the model lets the thread go on without the lock. Destroying a mutex
that is held is undefined: the model allows both outcomes. `streams` has the sounds
whose wave file is open: loading a sound opens one, and nothing in the code
closes it.

**AudioMixer** takes each mutex-protected call as one step, which `BeatBox`
(`SlotsExclusive`) justifies, and computes buffers. `Voices` has no slots but a
bag of voices `<<sound, position>>`. The refinement maps a voice's count to the
slots that hold it. Where an intermediate sum cannot leave the range of a
sample in any order, `Voices` demands the exact sum. The scan's bound compares bytes
with samples (`audiomixer.c:316-317, 340`); the model keeps it as it is, and
`ScanAssumption` names what makes it harmless: with 30 slots it stops nothing
as long as a period has more than 58 samples.

**MixerSettings.** Each shared load and store is a step. The makefile builds
with no optimization, so `currentMode++` loads again after the test. Two history
variables name the two races that the missing lock allows: `modeRaced`, CUSTOM was set
between the test and the load of `cycleNextMode`; `cardRaced`, the last volume was cached
while another call had its level and had not written it yet. The next set of
the mode outside of a cycle, or of the volume with nobody about to write, clears them. All
other overlaps are in the model and leave mode and card valid: the properties say so.

**PeriodTimer.** Calls run under `s_lock`: one step each. `firstTimestamp` and
`reported` are history variables. The clock always moves on, as the assertion
in `getTimeInNanoS` demands. The sum of the loop in `updateStats` is the
recursive function `SumTo`, one entry per turn.

**LightHistory.** A reading is its serial number, or 0 for a reading in the
dark: the code takes a 0 for a place never written. Memory from `malloc` that
nobody wrote (`Junk`) may or may not be 0, so both branches of a shrink are
open to it. Calls are one step each; what their interleaving does is the
matter of `LightSampler`. After an access outside of the array the model stops
(`fault`). `taken`, `partial` and `reordered` are history variables.

**LightSampler** keeps of the history what another thread can see: whether the
array is live, its length, the size and the count, each changed in the order
of `setHistorySize`. `calls` is a stack per thread: the SIGINT handler runs
`Sampler_shutdownRoutine` on top of whatever main does, another handler
included. *get N* takes any N up to the count, with -1 for whatever is below 1. The use of memory that is gone ends the model (`fault` names the thread). A
sampler that is not waiting for `historyMutex` leaves its loop within the
one-second sleep before the free (`SamplerSettled`): the code relies on that
speed and the model grants it. Threads are cancelled at waits, writes and prints. The
build is `-std=c99`, so `signal` resets the handler on delivery; the sampler
installs it again in every turn.

**MorseDriver.** Letters are numbers, a blank is 0, anything else -1. `write` is a
step per loop turn, per symbol and per gap; a reader may take any number of
symbols between two steps. The bytes around the user's text are a parameter:
a trim that runs past the text meets them or the end of mapped memory. What a
listener is to hear (`Encode`) is written without regard to the driver: the recursive
function `Said` goes through the text, with a gap or three before each letter
but the first. `Matched` walks once through a sequence to tell what is a subsequence of it.

**UdpRelay.** A slot is a command with its socket and its timer. A datagram may
vanish, wait, or be overtaken by another slot's. Time is left out: the timer may
end at any moment that the socket is open. One setting (the volume) stands for
all; the joystick changes it too. `Answers` forgets sockets, timers and
datagrams; the refinement maps a slot with a socket or an undelivered command
to a command that waits for its answer.

**ReactionGame.** The clock ticks and the player moves between any two looks of
the loop, so the loop may see the clock jump. `flashLEDs` flashes any positive number
of times.

## 3. Runs

| run | shows | bounds |
|---|---|---|
| `beatbox` | table, assertions, device, timer and exit are safe in every interleaving; *terminate* ends the process; a queued sound finishes and gives its slot back | 2 slots, periods of 5 samples, sounds of 6/3/5 samples |
| `beatbox_livedata` | violation: main frees what playback is mixing | same |
| `settings_shared` | ranges hold for two unsynchronized threads; mode and card are right but for one race each | limits of 4 and 3 steps, modes counted up to 5 |
| `mixer_samples` | the table refines `Voices` | 3 slots, 4-bit samples, 3 sounds, periods of 5 |
| `period_timer` | no time lost or counted twice; the mean is a mean, and later minima are real | 3 timestamps, clock up to 8 |
| `light_history` | what the history, *get N* and the dips keep right | sizes 0, 2, 3 and 5, eight samples |
| `light_bounds` | violation: a shrink writes past the new array | same, nine samples |
| `light_sampler` | who uses freed memory, who leaves a mutex, who waits in a circle | sizes 0 and 2, two SIGINTs |
| `light_stop` | sampling goes on; *stop* ends the program but for one way to hang | sizes 0 and 2, no SIGINT |
| `morse` | readers get standard code; an overflow only loses; the gaps; `write` returns | every letter, 8 texts of up to 8 characters, a second text, a small kfifo |
| `relay` | commands are answered once; the page catches up | 2 commands at a time, volumes 0 and 1 |
| `game` | LEDs, best time and ways out | waits of 1 and 2, limit 3 |

A run checks the type invariant of its module where no theorem states it,
or where control makes it worth a look (`AudioMixer`, `PeriodTimer`,
`LightSampler`, `MorseDriver`); the types of all modules are proved.

Why the bounds are enough. One beat fills two slots, so the table is full,
half full and empty, and slots are reused, in the first seconds of the model; nothing in
the code depends on the number 30, and the proofs hold for any. One sound spans
two periods (the position is saved), one ends exactly at the edge of a period,
one within it. Samples of 4 bits overflow with two voices in both directions. The sound
lengths of `mixer_samples` are shorter than a period, exactly two periods and
two periods and one sample. Limits that are multiples of the step, as in the
code, are met exactly. `ModeBound` only cuts the counting of an already invalid
mode; `MaxTime` lets two windows fill up. Eight samples wrap each
history at least once, with resizes in both directions in between; a potentiometer at 0
is the one case that the code rewrites (to 1). Two SIGINTs let a handler meet
another handler, or find the default one. The texts of `morse` have blanks and
other characters in front, between and behind, and none but these. Two commands
overtake each other and meet a restart; a wait of 1 or 2 ticks can be hit or missed.
`PeriodTimer` stops when its clock does, `LightHistory` after its last
sample, `MorseDriver` after its last text, `LightSampler` when the program is over, hangs or has used memory that
is gone: these runs do not check for deadlock, and `light_stop` says which
hang there is. The other runs check it, as far as they are not meant to be violated.

Fairness. `FairSpec` has weak fairness for each thread: the kernel runs a thread
that can go on, `nanosleep` and `snd_pcm_writei` return. Datagrams need not
arrive: no fairness on commands. The joystick's file errors have none either.
`SoundsFinish` also supposes strong fairness for playback taking the mutex, in the
property itself: main and the listener hold it for a few table writes and then
sleep or wait for the network, so playback meets it free again and again.
`TerminateEnds` needs no such thing: playback may lose every race until the
others have no more to queue.

`LightSampler`: weak fairness for main, LED thread and a request that has been
received; strong fairness for the sampler and whoever shuts down, as they compete
for mutexes that their other users give back and sleep. Requests and signals
need not come. `MorseDriver`: weak fairness of the writer alone, since a reader need
never come. `UdpRelay`: timers run out and what arrived is handled (weak); the
poll finds a free socket now and then (strong), which the page's timer gives.
`PageCatchesUp` supposes in the property itself that the program stays up and
polls are no longer lost. `ReactionGame`: the loop runs and time passes (weak);
flashing ends (strong, as its length is left open). Nothing says that
the loop sees every millisecond.

## 4. What disagrees with the code's own words

Two have a run that TLC finds violated:

1. `MixesLiveData`: main frees its sounds without `audioMutex` and before
   playback is over (`beatbox.c:41-43`); the slots then hold dangling pointers.
2. `InBounds`: shrinking a history that is still filling overruns the new array.

The others have no run of their own, but shape a property that holds:

- `cycleNextMode` tests and increments in two loads; with `setMode` in between the
  mode becomes 4, which `audiomixer.h:18` does not have. `ModeUnlessRaced`: it takes
  CUSTOM between the test and the load, and the page's next mode ends it. Likewise
  the card keeps another level than the cache when a volume is cached while another
  `setVolume` call is about to write; `CardUnlessRaced`.
- `AudioMixer_readWaveFileIntoMemory` opens a stream (`audiomixer.c:128`) that neither it
  nor `AudioMixer_freeWaveFileData` closes. Its comment (`audiomixer.c:119`) speaks of "dynamically
  allocated data" only, so no word of the code is broken. `OnlyStreamsLeft`: at
  `return 0` all six are open, and of the rest that the mixer, its sounds and the timer took
  nothing is left. (A gpio file or mixer handle that the joystick thread had
  open when it was cancelled is not in the models.)
- *get N* asks for "a number between 1 and" the count (`udpListen.c:120`), and refuses only what is
  above it: a negative N asks `malloc` for a size that wraps around. `ReceiveGet` and
  `MayBeBad` have it; it is a fault of the listener's own, as `OnlyListenerFaults` allows.
- *get N* "gets N most recent items" (`sampler.c:117`), but ends on the place of
  the next sample; `GetNIsOneOff` says that the others are right.
- "stop -- cause the server program to end." (`udpListen.c:108`): not when the
  sampler is cancelled inside of `dipMutex` while the LED thread waits for it.
  `StopEndsOrStrands`: this is the only way to hang (`NoCircularWait` and
  `OnlyLedStranded` prove the safety part of that). SIGINT alone does not end the
  program either: the handler stops two threads, and main joins the listener, who
  is never told.
- `Error: BeatBox program not running!` (`udp_server.js:43`) is also what a page reads
  when a datagram was lost or the reply was late.
- "(Press left or right to exit)" (`hello.c:25`): a short press during the
  reaction ends only that round; the game waits once more, and ends then.
  `QuitStaysDark` and `HoldingEnds` say what is still true. The wait itself
  ends at one exact millisecond (`hello.c:41`) and lasts until a press if the loop
  misses it; `NoInputEnds`.
- `audiomixer.h:24` demands that cleanup come last; the listener runs it in the
  middle of main's beat. `SlotsExclusive` shows that this does no harm to the
  table, because cleanup has joined playback by then.
- The first report of the period timer contains a period of 0 that never was
  (`periodTimer.c:92-97`); `ReportsAreReal` says that no later one does.
- A full history is counted one short at every other sample (`sampler.c:258`);
  `CountSettles` (proved) and `KeepsRecent` say what the count is still good for.

## 5. Proofs

All theorems hold for every value of the constants that satisfies the named
assumptions: a positive number of slots, positive buffer and sample sizes,
sounds of at least one sample, `NULL` not a sound; for the refinement of `Voices`
also a finite set of sounds and `ScanAssumption`; for the settings, limits in
`Nat` with the defaults within them and at least three modes counted; for the timer, a
table of at least one place; for the light sampler, sizes in `Nat`; for the relay, a
finite set of slots; for the game,
a positive limit and waits within it. The inductive invariants were checked
with TLC on the instances above before they were proved.

`BeatBoxProofs` proves the seven invariants that `beatbox` checks, the types, and
`FreshSlots`: a free slot has location 0. Most of them are not
inductive as they stand. The inductive invariant has these parts:

- `InHand`: the slot that the fill works on is in the table and stays taken, and
  main holds the mutex for a group of sounds;
- `Stages`: which resource exists at which control point of main and the
  listener, and which threads are over by then: the chain of joins;
- `MutexInv`: who holds the mutex, and that once it is destroyed playback and
  listener are past their last use of the table;
- `WavesInv`: how far each owner is in loading and freeing its sounds;
- `UdpQueued`: only a listener that has loaded its sounds has queued any;
- `StreamsInv`: a sound that was loaded has its file open, whatever became of its data.

`SlotsExclusive` follows from `Stages` and `MutexInv`; `DeviceLive` and
`PeriodReady` from `Stages`, and `OnlyStreamsLeft` from it, `WavesInv` and `StreamsInv`;
`GoodSounds` and `UdpSoundsSafe` from `WavesInv`, the latter with `UdpQueued`.
`SlotCount` is the one that needs arithmetic on cardinalities: the
lemmas on adding and removing one slot are stated once and cited for `QueueAt`
and `ReleaseSlot`. Each preservation proof has one step per action.

`AudioMixerProofs` proves that the table implements `Voices`: every step of
`AudioMixer` is, under the mapping, an acceptance, a refusal, a period or
nothing. The invariant is the types with `SlotCount` (a full table is what
refuses) and `FreshSlots` (an accepted sound starts at its first sample). The
argument has three parts:

- *Sums.* The library's `SumFunction` takes the elements of a set in an order
  nobody knows. `SumsTake` shows that any element may be taken first, by
  induction on the size of the set, so that a sum changes by what one of its terms does
  (`SumPoint`).
- *The scan.* `Below(n, v)` counts the slots below `n` that play voice `v`. One more
  slot adds its voice's weight to the weighted sum of these counts
  (`WeightedStep`). With weight 1 this counts the slots in use; with a voice's
  positive or negative samples it gives what the abstract voices push up and
  down at a frame.
- *Clipping.* `Sampled` relates a frame after some slots to the rises and falls so
  far: always a sample; exact while neither leaves the range by itself; near
  the end of the range when all push one way beyond it. `ClipStep` shows
  that one more sample through `clipNum` keeps it, and `MixSampled` carries it through the scan.

That the scan's bound leaves no slot out (`AllMixed`) is where `ScanAssumption` is
needed; the types are proved without it.

The second part of `AudioMixerProofs` is about `MixerSettings`, which shares no state with the
table. It proves typing and ranges for every set of threads (the
argument a thread has checked is within its limits until it stores it), and that
mode and card are right but for the two races. `RacesInv` says what a call in progress carries
as long as its race has not happened: a cycle at its load meets a mode below CUSTOM, one at its
store has one of the three, and a call about to write the card has the level of
the cached volume.

`PeriodTimerProofs` proves the types with the bound of the table, that no time is
lost or counted twice, and the action property on the statistics. The sum over
the table telescopes to the last event minus the start of the window (`SumTelescopes`).
This is an induction over numbers; it goes through the library's theorem that a
nonempty set of naturals has a least element (`Least`, `Induct`), which takes a set
where `NatInduction` takes an operator that the provers cannot instantiate. The mean is between the
extremes because the sum is between as many minima and maxima (`SumBetween`) and
the rounding of C's division keeps that (`Quotient`). `AudioMixerProofs` repeats the lemmas on
induction, so that each component's proofs read by themselves.

`LightHistoryProofs` proves types, `FaultsArePartial`, `CountSettles` and `DipsFade`
for every set of sizes, with one lemma per kind of step. The first three are
inductive together, the fourth by itself with the types: a share `dipCount \div secondsWithDips` is
between one dip and what leaves a dip for every other second. `KeepsRecent` and `GetNIsOneOff`
rest on `BufferInv`: walking back from the newest place, once around the
array, meets the readings from the last one on, until a resize moves them. The wrap
of the index is a subtraction or none (`Wraps`).

`LightSamplerProofs` proves all five invariants of `LightSampler`, for any sizes and number of
SIGINTs. Everything hangs on the place of each thread: `MemoryInv` gives the state of the
array at each place of the sampler (its own in `LivePcs`; possibly freed in
`DoubtPcs`, where it waits for or has `historyMutex` and then looks again; freed
by itself in `assign`); `ShutdownInv` says what each call on a stack of shutdown
routines has done so far; `HistoryInv` and `DipInv` that who owns a mutex is at
a place that has taken it, with the cancelled sampler as the one exception. The
free in the routine meets the sampler only in `DoubtPcs`: that is what
`SamplerSettled`, the speed that the code relies on, is for, and no other step needs it.
`WaitsEnd` (`NoCircularWait`) is an argument about the order of locks: who has `dipMutex` is at a place
that waits for nothing (`DipHolderGoesOn`), and who has `historyMutex` does not wait for it
again, unless main has two handlers on its stack (`HistoryHolderHasIt`). So a wait is for a thread that
goes on, or for one that waits for `dipMutex` and its owner goes on. `OnlyLedStranded`
adds what an owner that is gone can do: without a SIGINT (`StopInv`: only the listener
shuts down, and it has all but returned when the sampler is cancelled) nobody waits for
such a mutex but the LED thread, in the state `LedStuck`.

`ReactionGameProofs` proves the invariants and both action properties of the game. The
strengthening says which LED is lit while an answer is expected, and that a
set quit flag finds the loop outside of the reaction.

`UdpRelayProofs` proves the types of the relay and that each step of page, relay,
network and program is a step of `Answers` or changes nothing there, for every set of slots.
The invariant says that a slot in use has a command, and that the answers on the way and the
commands that wait for one are fewer than twice the slots: an answer takes the
place of its command.

`MorseDriverProofs` proves the types of the driver, `ReadersGetTheText`,
`OverflowOnlyLoses` and `DarkAsLongAsTold` for a kfifo of any size, any list of texts and any
memory around them. Four things carry it.

- *The code words.* `Tails`: in each of the 26 words, what is left behind the first mark is
  one dark dot time and the word of the rest of the letter, or nothing. So `MarkFlashed`: while a letter
  is flashed, the word left over is the word of the marks still to come, and a
  shift of 16 bits (`ShiftIs`) takes away just the mark that was put.
- *The specification.* `Said` and `Matched` are recursive functions; that they exist and
  have the values their definitions give is an induction over the places of the
  text (`SaidIs`, `MatchedIs`), for a choice that satisfies a recursive definition is all that
  a prover is given. `SubsequenceAndOne` and `SubsequenceOfMore`: one more symbol on
  both sides, or on the longer one, keeps a subsequence.
- *What was said so far.* The invariant `Spoken` splits `expected` into the earlier texts,
  `Said` up to the place `curr`, the gaps that were put and the marks that were put. What was
  delivered is that, or a subsequence of it once something was dropped. `TrimFinds` and
  `NextFinds` say that trimming and the search for the next letter leave out no letter of the text
  and, as long as the text has a letter, go to none outside of it; `NextPauses` says that `spaces` is
  the gap the listener expects.
- *The light.* `ScannedSo` and `Timed` hold for texts without letters too, where the driver
  reads on into the memory behind: the dark time since the last mark is that of the gaps put
  and of those still to be put.

The one assumption is `MorseAssumption`: texts and memory are sequences of letters, blanks and
other characters, and the kfifo has at least one place.

Only model-checked: all liveness properties (fairness is out of the prover's
reach: `TerminateEnds`, `SoundsFinish`, `SamplingGoesOn`, `StopEndsOrStrands`,
`WriteReturns`, `PageCatchesUp`, `HoldingEnds`, `NoInputEnds`, and the fairness in `AnsweredOnce`).
Every invariant of a passing run and every action property is a theorem. The safety parts of `AnsweredOnce`
and of `StopEndsOrStrands` are theorems too.

## 6. Not modelled

- Wording of replies and logs, wave headers, ALSA parameters.
- The tempo: a beat takes no time. Tempo 0 (a division by zero,
  `beatbox.c:37`) means beats with no pause, which the model allows anyway.
- Compiler reordering: the flags are plain ints, the build has no optimization.
- Two processes that write to the Morse driver at once: a kfifo needs a lock for
  that and the driver has none, so the outcome is the kernel's.
- Static files, reconnecting web sockets and several pages of the relay; settings
  other than the volume on the page.
- A clock that is set back, which would lengthen waits of the game and the
  sampler.
- `driver_demo`, `myApps`, `public/node` and other exercises: a log line, a table or
  straight-line I/O with no state to get wrong.
- Vendored code (`work/crosscompile`, every `node_modules`), generated `*.mod.c`.

## 7. Plan

Done, in this order: `SoundBites` and `BeatBox` (the core), `MixerSettings`,
`AudioMixer` with `Voices`, `PeriodTimer`, `LightHistory`, `MorseDriver`,
`LightSampler`, `UdpRelay` with `Answers`, `ReactionGame`, and the proofs of
all of these.

Next, should the code move on: a second writer of the Morse driver, once it has a lock; the
settings' tempo as a duration; a page that reconnects.
