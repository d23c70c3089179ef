---------------------------- MODULE LightSampler ----------------------------
(***************************************************************************)
(* The threads of the light sampler (work/as2): main, the sampler, the LED *)
(* display and the UDP listener, from process start to exit, with both     *)
(* mutexes, the stop command and SIGINT.  LightHistory has the readings;   *)
(* here only what another thread can see of the history is kept: whether   *)
(* the array is allocated, its length, and how many readings are counted.  *)
(*                                                                         *)
(* A thread that uses memory it must not use ends the model (fault): what  *)
(* the program does from there is anybody's guess.  A pending cancellation *)
(* ends a thread at its next cancellation point; printf and the files of   *)
(* stdio may be one, a sleep or a write is one.  SIGINT goes to main, as   *)
(* Linux prefers it, and signal() has System V semantics under -std=c99:   *)
(* a delivery resets the handler, which the sampler installs again.        *)
(***************************************************************************)
EXTENDS Integers, Sequences

CONSTANTS
    Sizes,        \* what the potentiometer may ask for
    MaxSignals    \* SIGINTs a user sends

ASSUME SamplerAssumption == Sizes \subseteq Nat /\ MaxSignals \in Nat

AtLeastOne(s) == IF s = 0 THEN 1 ELSE s

Threads == {"main", "sampler", "led", "udp"}

VARIABLES
    proc,         \* "runs", "exited", "killed"
    fault,        \* the thread that made a bad access, or "none"
    handler,      \* of SIGINT: "default" or "shutdown"
    signals,
    pc,
    calls,        \* calls[t]: the calls of Sampler_shutdownRoutine t is in
    cancelled,    \* threads with a cancellation pending
    running,      \* threads whose flag is set
    mutex,        \* owner, "free" or "destroyed"
    recent, pStats, digits,   \* "null", "live", "freed"
    length,       \* of the array recent points to
    arraySize, newSize, historyCount,
    n, list       \* listener: what it asked for and the list it sends

history == <<recent, pStats, length, arraySize, newSize, historyCount>>
request == <<n, list>>
control == <<calls, cancelled, running>>
process == <<proc, fault, handler, signals>>
vars == <<process, pc, control, mutex, history, digits, request>>

Init ==
    /\ proc = "runs" /\ fault = "none" /\ handler = "default" /\ signals = 0
    /\ pc = [main |-> "startSampler", sampler |-> "none", led |-> "none", udp |-> "none"]
    /\ calls = [t \in {"main", "udp"} |-> <<>>] /\ cancelled = {}
    /\ running = {"sampler", "led"}
    /\ mutex = [m \in {"history", "dip"} |-> "free"]
    /\ recent = "null" /\ pStats = "null" /\ digits = "null"
    /\ length = 0 /\ arraySize = 1 /\ newSize = 1 /\ historyCount = 0
    /\ n = 0 /\ list = "none"
----------------------------------------------------------------------------
(***************************************************************************)
(* Mutexes: a destroyed one refuses (EINVAL, which nobody looks at), and   *)
(* a held one is not destroyed (EBUSY).                                    *)
(***************************************************************************)
Lock(t, m) ==
    /\ mutex[m] \in {"free", "destroyed"}
    /\ mutex' = [mutex EXCEPT ![m] = IF @ = "free" THEN t ELSE @]
Unlock(m) == mutex' = [mutex EXCEPT ![m] = IF @ = "destroyed" THEN @ ELSE "free"]
Destroy(m) == mutex' = [mutex EXCEPT ![m] = IF @ = "free" THEN "destroyed" ELSE @]

Freed(pointer) == IF pointer = "null" THEN "null" ELSE "freed"

InCall(t) == t \in DOMAIN calls /\ calls[t] # <<>>
Frame(t) == calls[t][Len(calls[t])]

\* Freeing takes the 1 s sleep before it: a sampler that is not waiting for
\* historyMutex has left its loop by then (a bound on speed the code relies on).
SamplerSettled == pc["sampler"] \in {"ended", "resizeLock", "reportLock"}

\* The memory thread t is about to use is not its to use.
BadAccess(t) ==
    \/ t = "sampler" /\ pc[t] \in {"store", "copy", "list"} /\ recent # "live"
    \/ t = "sampler" /\ pc[t] = "stats" /\ pStats # "live"
    \/ t = "led" /\ pc[t] = "reset" /\ digits = "freed"
    \/ t = "udp" /\ pc[t] = "copy" /\ n > 0 /\ recent # "live"
    \/ t = "udp" /\ pc[t] = "send" /\ list \in {"null", "stale", "short"}
    \/ InCall(t) /\ Frame(t) = "free" /\ SamplerSettled /\ "freed" \in {recent, pStats}
    \/ InCall(t) /\ Frame(t) = "cancelLed" /\ pc["led"] = "none"

\* Sampler_get_N, as its indices and its memory fall out: a grown history has its
\* new size before its new array; the first index of more readings than a shrunk
\* history has places may be negative; so may the bytes be that it asks for (or
\* they wrap around to a size there is, or N is 0: then nothing is read).
MayBeBad(t) ==
    t = "udp" /\ pc[t] = "copy" /\ (n < 0 \/ (n > 0 /\ (arraySize > length \/ n > arraySize)))

Faults ==
    /\ proc = "runs" /\ fault = "none"
    /\ \E t \in Threads : (BadAccess(t) \/ MayBeBad(t)) /\ fault' = t
    /\ UNCHANGED <<proc, handler, signals, pc, control, mutex, history, digits, request>>

Active(t) == proc = "runs" /\ fault = "none" /\ ~BadAccess(t) /\ ~InCall(t)
Step(t, from, to) == pc[t] = from /\ Active(t) /\ pc' = [pc EXCEPT ![t] = to]
----------------------------------------------------------------------------
(***************************************************************************)
(* Sampler_shutdownRoutine, called by the listener and by the handler.     *)
(***************************************************************************)
CallStep(t, from, to) ==
    /\ proc = "runs" /\ fault = "none" /\ InCall(t) /\ Frame(t) = from /\ ~BadAccess(t)
    /\ calls' = [calls EXCEPT ![t][Len(calls[t])] = to]
    /\ UNCHANGED <<process, pc, digits, n>>

ShutdownLock(t) ==
    /\ CallStep(t, "lock", "free") /\ Lock(t, "history")
    /\ running' = running \ {"sampler"}
    /\ UNCHANGED <<cancelled, history, list>>

\* Mutant: without the 1 s sleep.
ShutdownFreeAtOnce(t) ==
    /\ CallStep(t, "free", "unlock")
    /\ recent' = Freed(recent) /\ pStats' = Freed(pStats)
    /\ list' = (IF list = "recent" THEN "stale" ELSE list)
    /\ UNCHANGED <<cancelled, running, mutex, length, arraySize, newSize, historyCount>>

ShutdownFree(t) ==
    /\ CallStep(t, "free", "unlock") /\ SamplerSettled
    /\ recent' = Freed(recent) /\ pStats' = Freed(pStats)
    /\ list' = (IF list = "recent" THEN "stale" ELSE list)
    /\ UNCHANGED <<cancelled, running, mutex, length, arraySize, newSize, historyCount>>

ShutdownUnlock(t) ==
    /\ CallStep(t, "unlock", "stopLed") /\ Unlock("history")
    /\ UNCHANGED <<cancelled, running, history, list>>

\* Mutant: the LED thread is not cancelled and its flag stays.
led_shutdownForgets(t) ==
    \E from \in {"stopLed", "cancelLed"} :
        CallStep(t, from, "cancelSampler") /\ UNCHANGED <<cancelled, running, mutex, history, list>>

led_shutdownRoutine(t) ==
    \/ /\ CallStep(t, "stopLed", "cancelLed") /\ running' = running \ {"led"}
       /\ UNCHANGED <<cancelled, mutex, history, list>>
    \/ /\ CallStep(t, "cancelLed", "cancelSampler") /\ cancelled' = cancelled \cup {"led"}
       /\ UNCHANGED <<running, mutex, history, list>>

CancelSampler(t) ==
    /\ CallStep(t, "cancelSampler", "destroy") /\ cancelled' = cancelled \cup {"sampler"}
    /\ UNCHANGED <<running, mutex, history, list>>

ShutdownReturn(t) ==
    /\ proc = "runs" /\ fault = "none" /\ InCall(t) /\ Frame(t) = "destroy"
    /\ Destroy("history")
    /\ calls' = [calls EXCEPT ![t] = SubSeq(@, 1, Len(@) - 1)]
    /\ UNCHANGED <<process, pc, cancelled, running, history, digits, request>>

Sampler_shutdownRoutine(t) ==
    \/ ShutdownLock(t) \/ ShutdownFree(t) \/ ShutdownUnlock(t) \/ led_shutdownRoutine(t)
    \/ CancelSampler(t) \/ ShutdownReturn(t)

\* signal_handler runs on top of whatever main is doing, another handler too.
Sigint ==
    /\ proc = "runs" /\ fault = "none" /\ signals < MaxSignals
    /\ signals' = signals + 1
    /\ IF handler = "default" THEN proc' = "killed" /\ UNCHANGED <<handler, calls>>
       ELSE /\ handler' = "default" /\ calls' = [calls EXCEPT !["main"] = Append(@, "lock")]
            /\ UNCHANGED proc
    /\ UNCHANGED <<fault, pc, cancelled, running, mutex, history, digits, request>>
----------------------------------------------------------------------------
(***************************************************************************)
(* samplerThread                                                           *)
(***************************************************************************)
SamplerStep(from, to) == Step("sampler", from, to) /\ UNCHANGED <<control, digits, n>>
SamplerPlain(from, to) ==
    SamplerStep(from, to) /\ UNCHANGED <<process, mutex, history, list>>

SamplerStart ==
    /\ SamplerStep("start", "loop")
    /\ \E s \in Sizes : arraySize' = AtLeastOne(s) /\ length' = AtLeastOne(s)
    /\ recent' = "live" /\ pStats' = "live"
    /\ UNCHANGED <<process, mutex, newSize, historyCount, list>>

SamplerLoop ==
    \/ "sampler" \notin running /\ SamplerPlain("loop", "ended")
    \/ /\ "sampler" \in running /\ SamplerStep("loop", "read") /\ handler' = "shutdown"
       /\ UNCHANGED <<proc, fault, signals, mutex, history, list>>

SamplerRead == \E to \in {"dipLock", "store"} : SamplerPlain("read", to)
SamplerDip ==
    /\ \/ SamplerStep("dipLock", "dipUnlock") /\ Lock("sampler", "dip")
       \/ SamplerStep("dipUnlock", "store") /\ Unlock("dip")
    /\ UNCHANGED <<process, history, list>>

\* Mutant: the count has no bound.
StoreUnbounded ==
    /\ \E to \in {"pot", "sleep"} : SamplerStep("store", to)
    /\ historyCount' = historyCount + 1
    /\ UNCHANGED <<process, mutex, recent, pStats, length, arraySize, newSize, list>>

\* recent[recentIndex] = voltage, and the count, with no lock.
Store ==
    /\ \E to \in {"pot", "sleep"} : SamplerStep("store", to)
    /\ historyCount' = (IF historyCount < arraySize THEN historyCount + 1 ELSE arraySize - 1)
    /\ UNCHANGED <<process, mutex, recent, pStats, length, arraySize, newSize, list>>

\* A potentiometer at 0 "resizes" a history of one place to one place.
ReadPot ==
    /\ \E s \in Sizes :
         /\ newSize' = AtLeastOne(s)
         /\ SamplerStep("pot", IF s = arraySize THEN "reportLock" ELSE "resizeLock")
    /\ UNCHANGED <<process, mutex, recent, pStats, length, arraySize, historyCount, list>>

\* Sampler_setHistorySize holds the mutex, which only getHistory respects.
ResizeLock ==
    /\ SamplerStep("resizeLock", "copy") /\ Lock("sampler", "history")
    /\ UNCHANGED <<process, history, list>>
ResizeCopy ==
    /\ SamplerStep("copy", "free") /\ arraySize' = newSize
    /\ UNCHANGED <<process, mutex, recent, pStats, length, newSize, historyCount, list>>
ResizeFree ==
    /\ SamplerStep("free", "assign") /\ recent' = "freed"
    /\ list' = (IF list = "recent" THEN "stale" ELSE list)
    /\ UNCHANGED <<process, mutex, pStats, length, arraySize, newSize, historyCount>>
\* Mutants: recent is left behind; the mutex is kept.
ResizeForgets ==
    /\ SamplerStep("assign", "resizeUnlock") /\ length' = newSize
    /\ UNCHANGED <<process, mutex, recent, pStats, arraySize, newSize, historyCount, list>>
ResizeKeepsLock == SamplerPlain("resizeUnlock", "reportLock")

ResizeAssign ==
    /\ SamplerStep("assign", "resizeUnlock") /\ recent' = "live" /\ length' = newSize
    /\ UNCHANGED <<process, mutex, pStats, arraySize, newSize, historyCount, list>>
ResizeUnlock ==
    /\ SamplerStep("resizeUnlock", "reportLock") /\ Unlock("history")
    /\ UNCHANGED <<process, history, list>>

Report ==
    \/ /\ \/ SamplerStep("reportLock", "print") /\ Lock("sampler", "history")
          \/ SamplerStep("reportDipLock", "printDips") /\ Lock("sampler", "dip")
          \/ SamplerStep("printDips", "stats") /\ Unlock("dip")
          \/ SamplerStep("printStats", "list") /\ Unlock("history")
       /\ UNCHANGED <<process, history, list>>
    \/ SamplerPlain("print", "reportDipLock")
    \/ SamplerPlain("stats", "printStats")
    \/ SamplerPlain("list", "sleep")

SamplerSleep == "sampler" \notin cancelled /\ SamplerPlain("sleep", "loop")

\* A file of the A2D that cannot be read: exit(-1).
SamplerFails ==
    /\ \E at \in {"start", "read", "pot"} : SamplerStep(at, at)
    /\ proc' = "exited" /\ UNCHANGED <<fault, handler, signals, mutex, history, list>>

SamplerCancelled ==
    /\ "sampler" \in cancelled
    /\ \E from \in {"read", "pot", "print", "printDips", "printStats", "list", "sleep"} :
         SamplerPlain(from, "ended")

samplerThread ==
    \/ SamplerStart \/ SamplerLoop \/ SamplerRead \/ SamplerDip \/ Store \/ ReadPot
    \/ ResizeLock \/ ResizeCopy \/ ResizeFree \/ ResizeAssign \/ ResizeUnlock
    \/ Report \/ SamplerSleep \/ SamplerFails \/ SamplerCancelled
----------------------------------------------------------------------------
(***************************************************************************)
(* ledThread                                                               *)
(***************************************************************************)
LedStep(from, to) ==
    Step("led", from, to) /\ UNCHANGED <<control, history, request, handler, signals, fault>>

LedInit == LedStep("init", "loop") /\ UNCHANGED <<proc, mutex, digits>>
\* A device that does not answer: exit(1).
LedFails ==
    /\ \E at \in {"init", "show", "reset"} : LedStep(at, at)
    /\ proc' = "exited" /\ UNCHANGED <<mutex, digits>>

LedLoop ==
    /\ LedStep("loop", IF "led" \in running THEN "dipLock" ELSE "reset")
    /\ UNCHANGED <<proc, mutex, digits>>
LedNumDips ==
    \/ LedStep("dipLock", "dipUnlock") /\ Lock("led", "dip") /\ UNCHANGED <<proc, digits>>
    \/ LedStep("dipUnlock", "show") /\ Unlock("dip") /\ digits' = "live" /\ UNCHANGED proc
displayNum ==
    /\ "led" \notin cancelled /\ LedStep("show", "loop")
    /\ digits' = "freed" /\ UNCHANGED <<proc, mutex>>
led_reset ==
    /\ LedStep("reset", "ended")
    /\ digits' = Freed(digits) /\ UNCHANGED <<proc, mutex>>
\* Mutant: cancelled inside of getNumDips.
LedCancelledInside ==
    /\ "led" \in cancelled
    /\ \E from \in {"init", "dipUnlock", "show", "reset"} : LedStep(from, "ended")
    /\ UNCHANGED <<proc, mutex, digits>>
LedCancelled ==
    /\ "led" \in cancelled
    /\ \E from \in {"init", "show", "reset"} : LedStep(from, "ended")
    /\ UNCHANGED <<proc, mutex, digits>>

ledThread ==
    \/ LedInit \/ LedFails \/ LedLoop \/ LedNumDips \/ displayNum \/ led_reset \/ LedCancelled
----------------------------------------------------------------------------
(***************************************************************************)
(* udpListenThread                                                         *)
(***************************************************************************)
UdpStep(from, to) ==
    Step("udp", from, to) /\ UNCHANGED <<process, cancelled, running, history, digits>>

\* "get N" with N within the count of this moment; a larger N is refused, one below 1
\* is not: -1 is any of these, from 0 down, and what n holds if no number follows.
ReceiveGet ==
    /\ n' \in {-1} \cup 1 .. historyCount /\ UdpStep("recv", "check")
    /\ UNCHANGED <<calls, mutex, list>>
ReceiveHistory == UdpStep("recv", "historyLock") /\ UNCHANGED <<calls, mutex, request>>
ReceiveDips == UdpStep("recv", "dipLock") /\ UNCHANGED <<calls, mutex, request>>
ReceiveStop ==
    /\ UdpStep("recv", "stop") /\ calls' = [calls EXCEPT !["udp"] = Append(@, "lock")]
    /\ UNCHANGED <<mutex, request>>

\* Sampler_get_N compares with the count once more, and has no lock.  (n returns to
\* its initial value when it has no more to say here.)
GetCheck ==
    /\ \/ n > historyCount /\ UdpStep("check", "send") /\ list' = "null" /\ n' = 0
       \/ n <= historyCount /\ UdpStep("check", "copy") /\ UNCHANGED <<list, n>>
    /\ UNCHANGED <<calls, mutex>>
GetCopy ==
    UdpStep("copy", "send") /\ list' = "copy" /\ n' = 0 /\ UNCHANGED <<calls, mutex>>

Seen ==
    IF historyCount = 0 THEN "empty"
    ELSE IF recent = "freed" THEN "stale"
    ELSE IF historyCount > length THEN "short" ELSE "recent"

\* Sampler_getHistory gives away the array itself.
Sampler_getHistory ==
    \/ UdpStep("historyLock", "historyUnlock") /\ Lock("udp", "history") /\ UNCHANGED <<calls, request>>
    \/ /\ UdpStep("historyUnlock", "send") /\ Unlock("history")
       /\ list' = Seen /\ UNCHANGED <<calls, n>>
\* Mutant: returns with the mutex.
Sampler_getNumDipsKeeps ==
    /\ \/ UdpStep("dipLock", "dipUnlock") /\ Lock("udp", "dip")
       \/ UdpStep("dipUnlock", "recv") /\ UNCHANGED mutex
    /\ UNCHANGED <<calls, request>>
Sampler_getNumDips ==
    /\ \/ UdpStep("dipLock", "dipUnlock") /\ Lock("udp", "dip")
       \/ UdpStep("dipUnlock", "recv") /\ Unlock("dip")
    /\ UNCHANGED <<calls, request>>

sendNumList ==
    UdpStep("send", "recv") /\ list' = "none" /\ UNCHANGED <<calls, mutex, n>>
UdpEnds == UdpStep("stop", "ended") /\ UNCHANGED <<calls, mutex, request>>

Receive == ReceiveGet \/ ReceiveHistory \/ ReceiveDips \/ ReceiveStop
handleRequest ==
    \/ GetCheck \/ GetCopy \/ Sampler_getHistory \/ Sampler_getNumDips \/ sendNumList \/ UdpEnds
----------------------------------------------------------------------------
(***************************************************************************)
(* main                                                                    *)
(***************************************************************************)
MainStep(from, to) ==
    /\ pc["main"] = from /\ Active("main")
    /\ UNCHANGED <<fault, handler, signals, control, mutex, history, digits, request>>

Start(t, from, first, to) ==
    /\ MainStep(from, to) /\ pc' = [pc EXCEPT !["main"] = to, ![t] = first] /\ UNCHANGED proc
Join(t, from, to) ==
    /\ MainStep(from, to) /\ pc[t] = "ended"
    /\ pc' = [pc EXCEPT !["main"] = to] /\ UNCHANGED proc

main ==
    \/ Start("sampler", "startSampler", "start", "startLed")
    \/ Start("led", "startLed", "init", "startUdp")
    \/ Start("udp", "startUdp", "recv", "joinSampler")
    \/ Join("sampler", "joinSampler", "joinUdp")
    \/ Join("udp", "joinUdp", "joinLed")
    \/ Join("led", "joinLed", "return")
    \/ MainStep("return", "return") /\ proc' = "exited" /\ UNCHANGED pc

Routines == \E t \in {"main", "udp"} : Sampler_shutdownRoutine(t)
Next == Faults \/ Sigint \/ Routines \/ samplerThread \/ ledThread \/ Receive \/ handleRequest \/ main

Spec == Init /\ [][Next]_vars

\* Threads are scheduled; the sampler and whoever shuts down get a mutex in the
\* end if it is released again and again, as its users sleep between two uses.
\* Nobody has to send a request or a signal.
FairSpec ==
    /\ Spec /\ WF_vars(main \/ Faults) /\ WF_vars(ledThread) /\ WF_vars(handleRequest)
    /\ SF_vars(samplerThread) /\ SF_vars(Routines)
----------------------------------------------------------------------------
Pointers == {"null", "live", "freed"}
RoutinePcs == {"lock", "free", "unlock", "stopLed", "cancelLed", "cancelSampler", "destroy"}

\* Types; the history never has no place, and its count never exceeds the largest of
\* Sizes (arraySize it may exceed, by any amount: from a shrink to the next store).
TypeOK ==
    /\ proc \in {"runs", "exited", "killed"} /\ fault \in Threads \cup {"none"}
    /\ handler \in {"default", "shutdown"} /\ signals \in 0 .. MaxSignals
    /\ DOMAIN pc = Threads /\ {recent, pStats, digits} \subseteq Pointers
    /\ \A t \in {"main", "udp"} : \A i \in DOMAIN calls[t] : calls[t][i] \in RoutinePcs
    /\ cancelled \subseteq {"sampler", "led"} /\ running \subseteq {"sampler", "led"}
    /\ \A m \in {"history", "dip"} : mutex[m] \in Threads \cup {"free", "destroyed"}
    /\ length \in Sizes \cup {0, 1} /\ {arraySize, newSize} \subseteq (Sizes \ {0}) \cup {1}
    /\ historyCount \in Nat /\ \E s \in Sizes \cup {1} : historyCount <= s
    /\ n \in Int /\ list \in {"none", "null", "copy", "recent", "empty", "short", "stale"}

ShutDown == "sampler" \notin running

\* Until somebody shuts the program down only the listener uses memory that is
\* not its to use: the sampler resizes its array under nobody else's mutex.
\* (Before the LED thread exists a SIGINT has no thread to cancel.)
OnlyListenerFaults == fault \in {"sampler", "led"} => ShutDown

\* The sampler stores readings with no lock, and shutdownRoutine frees the array
\* under the lock: the loop's flag and the 1 s sleep must keep them apart, so
\* that the sampler faults in its once-a-second work or not at all.
StoresAreLive ==
    /\ pc["sampler"] = "store" => recent = "live" /\ mutex["history"] # "destroyed"
    /\ fault = "sampler" => pc["sampler"] \in {"copy", "stats"}

\* A thread that ended left its mutexes, but for a sampler cancelled in printf.
OrphansAreSamplers ==
    \A m \in {"history", "dip"} : mutex[m] \in Threads /\ pc[mutex[m]] = "ended"
        => mutex[m] = "sampler" /\ "sampler" \in cancelled

Waiting(t) == IF InCall(t) /\ Frame(t) = "lock" THEN {"history"}
              ELSE IF pc[t] \in {"resizeLock", "reportLock", "historyLock"} THEN {"history"}
              ELSE IF pc[t] \in {"dipLock", "reportDipLock"} THEN {"dip"} ELSE {}

WaitsFor(t) == {mutex[m] : m \in Waiting(t)} \cap Threads

\* Whoever t waits for waits, if at all, for a thread that waits for nothing: there is
\* no circle, of one thread or of several, unless main, in the handler of a second SIGINT,
\* waits for the first one's.  (Sampler_setHistorySize, the report and the routine
\* take historyMutex first; who has dipMutex takes nothing.)
NoCircularWait ==
    \A t \in Threads : \A u \in WaitsFor(t) : \A v \in WaitsFor(u) :
        Waiting(v) = {} \/ (v = "main" /\ Len(calls["main"]) > 1)

Over == proc # "runs" \/ fault # "none"

\* Readings are taken for ever, whatever LED and listener ask meanwhile.
SamplingGoesOn == []<>(pc["sampler"] = "store" \/ ShutDown \/ Over)

LedStuck == pc["led"] = "dipLock" /\ mutex["dip"] = "sampler" /\ pc["sampler"] = "ended"

\* A stop command ends the program, with one way to hang: the LED thread waits
\* for dipMutex, and the sampler was cancelled while it held it.
StopEndsOrStrands ==
    pc["udp"] = "stop" /\ signals = 0 ~> Over \/ LedStuck \/ signals > 0
============================================================================
