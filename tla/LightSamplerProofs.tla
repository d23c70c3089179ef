------------------------- MODULE LightSamplerProofs -------------------------
(***************************************************************************)
(* The safety of the light sampler, for every set of sizes and any number  *)
(* of SIGINTs.                                                             *)
(***************************************************************************)
EXTENDS LightSampler, SequenceTheorems, TLAPS

Callers == {"main", "udp"}

MainPcs == {"startSampler", "startLed", "startUdp", "joinSampler", "joinUdp", "joinLed", "return"}

\* The places of the sampler where its memory is its own, where a shutdown may
\* have freed it, and where it has historyMutex or dipMutex.
LivePcs == {"loop", "read", "dipLock", "dipUnlock", "store", "pot", "free", "resizeUnlock",
            "printStats", "list", "sleep"}
DoubtPcs == {"resizeLock", "copy", "reportLock", "print", "reportDipLock", "printDips", "stats",
             "ended"}
InHistory == {"copy", "free", "assign", "resizeUnlock", "print", "reportDipLock", "printDips",
              "stats", "printStats"}
InDip == {"dipUnlock", "printDips"}
SamplerPcs == {"none", "start", "assign"} \cup LivePcs \cup DoubtPcs

LedPcs == {"none", "init", "loop", "dipLock", "dipUnlock", "show", "reset", "ended"}
UdpPcs == {"none", "recv", "check", "copy", "send", "historyLock", "historyUnlock", "dipLock",
           "dipUnlock", "stop", "ended"}

\* Control: what TypeOK says of it, and where each thread can be.
ControlTyped ==
    /\ proc \in {"runs", "exited", "killed"} /\ fault \in Threads \cup {"none"}
    /\ handler \in {"default", "shutdown"} /\ signals \in 0 .. MaxSignals
    /\ pc \in [Threads -> MainPcs \cup SamplerPcs \cup LedPcs \cup UdpPcs]
    /\ pc["main"] \in MainPcs /\ pc["sampler"] \in SamplerPcs
    /\ pc["led"] \in LedPcs /\ pc["udp"] \in UdpPcs
    /\ calls \in [Callers -> Seq(RoutinePcs)]
    /\ cancelled \subseteq {"sampler", "led"} /\ running \subseteq {"sampler", "led"}
    /\ mutex \in [{"history", "dip"} -> Threads \cup {"free", "destroyed"}]

DataTyped ==
    /\ recent \in Pointers /\ pStats \in Pointers /\ digits \in Pointers
    /\ length \in Sizes \cup {0, 1}
    /\ arraySize \in (Sizes \ {0}) \cup {1} /\ newSize \in (Sizes \ {0}) \cup {1}
    /\ historyCount \in Nat /\ \E s \in Sizes \cup {1} : historyCount <= s
    /\ n \in Int /\ list \in {"none", "null", "copy", "recent", "empty", "short", "stale"}

\* A thread that main has not started yet is nowhere; the listener is in at most
\* one call of shutdownRoutine, from its place "stop".
Started ==
    /\ pc["main"] = "startSampler" => pc["sampler"] = "none"
    /\ pc["main"] \in {"startSampler", "startLed"} => pc["led"] = "none"
    /\ pc["main"] \in {"startSampler", "startLed", "startUdp"} => pc["udp"] = "none"
    /\ calls["udp"] # <<>> => pc["udp"] = "stop" /\ Len(calls["udp"]) = 1

\* The memory of the sampler follows the place it is at: a shutdown frees it only
\* where the sampler looks at it again before it stores a reading.
MemoryInv ==
    /\ pc["sampler"] \in {"none", "start"} => recent = "null" /\ pStats = "null"
    /\ pc["sampler"] \in LivePcs => recent = "live" /\ pStats = "live"
    /\ pc["sampler"] = "assign" => recent = "freed" /\ pStats = "live"
    /\ pc["sampler"] \in DoubtPcs => recent = pStats /\ pStats \in {"live", "freed"}

\* How far each call of shutdownRoutine is tells the flags and the memory.
ShutdownInv ==
    /\ \A t \in Callers : \A i \in 1 .. Len(calls[t]) :
         /\ calls[t][i] # "lock" => "sampler" \notin running
         /\ calls[t][i] \notin {"lock", "free"} => pStats = "freed"
    /\ pStats = "freed" \/ "led" \notin running => "sampler" \notin running
    /\ mutex["history"] = "destroyed" => pStats = "freed"
    /\ pc["led"] = "reset" => "led" \notin running

\* Who owns a mutex is at a place where it has taken it.
HistoryInv ==
    /\ mutex["history"] # "led"
    /\ mutex["history"] = "sampler" =>
         pc["sampler"] \in InHistory \/ (pc["sampler"] = "ended" /\ "sampler" \in cancelled)
    /\ mutex["history"] = "main" => \E i \in 1 .. Len(calls["main"]) : calls["main"][i] \in {"free", "unlock"}
    /\ mutex["history"] = "udp" =>
         \/ pc["udp"] = "historyUnlock"
         \/ \E i \in 1 .. Len(calls["udp"]) : calls["udp"][i] \in {"free", "unlock"}

DipInv ==
    /\ mutex["dip"] # "main"
    /\ mutex["dip"] = "sampler" =>
         pc["sampler"] \in InDip \/ (pc["sampler"] = "ended" /\ "sampler" \in cancelled)
    /\ mutex["dip"] = "led" => pc["led"] = "dipUnlock"
    /\ mutex["dip"] = "udp" => pc["udp"] = "dipUnlock"

FaultInv ==
    /\ fault = "sampler" => pc["sampler"] \in {"copy", "stats"} /\ "sampler" \notin running
    /\ fault = "led" => "sampler" \notin running

IInv ==
    ControlTyped /\ DataTyped /\ Started /\ MemoryInv /\ ShutdownInv /\ HistoryInv /\ DipInv /\ FaultInv
----------------------------------------------------------------------------
(***************************************************************************)
(* Calls of shutdownRoutine: one is entered, goes on a step, returns.      *)
(***************************************************************************)
LEMMA InCallIs ==
    ASSUME ControlTyped, NEW t \in Callers
    PROVE  /\ calls[t] \in Seq(RoutinePcs) /\ Len(calls[t]) \in Nat
           /\ InCall(t) <=> Len(calls[t]) > 0
           /\ InCall(t) <=> calls[t] # <<>>
           /\ \A i \in 1 .. Len(calls[t]) : calls[t][i] \in RoutinePcs
BY DEF ControlTyped, InCall

LEMMA CallGoesOn ==
    ASSUME ControlTyped, NEW t \in Callers, NEW from, NEW to \in RoutinePcs, InCall(t), Frame(t) = from,
           calls' = [calls EXCEPT ![t][Len(calls[t])] = to]
    PROVE  /\ calls' \in [Callers -> Seq(RoutinePcs)]
           /\ Len(calls[t]) \in 1 .. Len(calls[t]) /\ calls[t][Len(calls[t])] = from
           /\ calls'[t][Len(calls[t])] = to
           /\ \A u \in Callers : /\ Len(calls'[u]) = Len(calls[u])
                                 /\ \A i \in 1 .. Len(calls[u]) :
                                      u # t \/ i # Len(calls[t]) => calls'[u][i] = calls[u][i]
<1>1. calls[t] \in Seq(RoutinePcs) /\ Len(calls[t]) \in 1 .. Len(calls[t])
  BY InCallIs
<1>2. [calls[t] EXCEPT ![Len(calls[t])] = to] \in Seq(RoutinePcs)
  BY <1>1
<1>3. calls' = [calls EXCEPT ![t] = [calls[t] EXCEPT ![Len(calls[t])] = to]]
  OBVIOUS
<1>4. calls' \in [Callers -> Seq(RoutinePcs)]
  BY <1>2, <1>3 DEF ControlTyped
<1>5. calls'[t] = [calls[t] EXCEPT ![Len(calls[t])] = to]
  BY <1>3 DEF ControlTyped
<1>6. \A u \in Callers : u # t => calls'[u] = calls[u]
  BY <1>3 DEF ControlTyped
<1> QED BY <1>1, <1>4, <1>5, <1>6 DEF Frame

LEMMA CallReturns ==
    ASSUME ControlTyped, NEW t \in Callers, InCall(t),
           calls' = [calls EXCEPT ![t] = SubSeq(@, 1, Len(@) - 1)]
    PROVE  /\ calls' \in [Callers -> Seq(RoutinePcs)]
           /\ Len(calls'[t]) = Len(calls[t]) - 1 /\ Len(calls[t]) \in Nat \ {0}
           /\ \A i \in 1 .. Len(calls'[t]) : calls'[t][i] = calls[t][i]
           /\ \A u \in Callers : u # t => calls'[u] = calls[u]
<1>1. calls[t] \in Seq(RoutinePcs) /\ Len(calls[t]) \in Nat \ {0}
  BY InCallIs
<1>2. /\ SubSeq(calls[t], 1, Len(calls[t]) - 1) \in Seq(RoutinePcs)
      /\ Len(SubSeq(calls[t], 1, Len(calls[t]) - 1)) = Len(calls[t]) - 1
      /\ \A i \in 1 .. Len(calls[t]) - 1 : SubSeq(calls[t], 1, Len(calls[t]) - 1)[i] = calls[t][i]
  BY <1>1
<1>3. calls' = [calls EXCEPT ![t] = SubSeq(calls[t], 1, Len(calls[t]) - 1)]
  OBVIOUS
<1>4. calls'[t] = SubSeq(calls[t], 1, Len(calls[t]) - 1)
  BY <1>3 DEF ControlTyped
<1>5. \A u \in Callers : u # t => calls'[u] = calls[u]
  BY <1>3 DEF ControlTyped
<1>6. calls' \in [Callers -> Seq(RoutinePcs)]
  BY <1>2, <1>3 DEF ControlTyped
<1> QED BY <1>1, <1>2, <1>4, <1>5, <1>6

LEMMA CallBegins ==
    ASSUME ControlTyped, NEW t \in Callers, calls' = [calls EXCEPT ![t] = Append(@, "lock")]
    PROVE  /\ calls' \in [Callers -> Seq(RoutinePcs)]
           /\ Len(calls'[t]) = Len(calls[t]) + 1 /\ calls'[t][Len(calls[t]) + 1] = "lock"
           /\ \A i \in 1 .. Len(calls[t]) : calls'[t][i] = calls[t][i]
           /\ Len(calls[t]) \in Nat
           /\ \A u \in Callers : u # t => calls'[u] = calls[u]
<1>1. calls[t] \in Seq(RoutinePcs) /\ "lock" \in RoutinePcs
  BY InCallIs DEF RoutinePcs
<1>2. calls' = [calls EXCEPT ![t] = Append(calls[t], "lock")]
  OBVIOUS
<1>3. calls'[t] = Append(calls[t], "lock")
  BY <1>2 DEF ControlTyped
<1>4. \A u \in Callers : u # t => calls'[u] = calls[u]
  BY <1>2 DEF ControlTyped
<1>5. Append(calls[t], "lock") \in Seq(RoutinePcs)
  BY <1>1
<1>6. calls' \in [Callers -> Seq(RoutinePcs)]
  BY <1>2, <1>5 DEF ControlTyped
<1> QED BY <1>1, <1>3, <1>4, <1>6
(***************************************************************************)
(* The mutexes.                                                            *)
(***************************************************************************)
Mutexes == {"history", "dip"}

LEMMA Locked ==
    ASSUME ControlTyped, NEW t \in Threads, NEW m \in Mutexes, Lock(t, m)
    PROVE  /\ mutex' \in [Mutexes -> Threads \cup {"free", "destroyed"}]
           /\ mutex'[m] = IF mutex[m] = "free" THEN t ELSE "destroyed"
           /\ mutex'[m] = "destroyed" => mutex[m] = "destroyed"
           /\ \A k \in Mutexes : k # m => mutex'[k] = mutex[k]
BY DEF Lock, ControlTyped, Threads, Mutexes

LEMMA Unlocked ==
    ASSUME ControlTyped, NEW m \in Mutexes, Unlock(m)
    PROVE  /\ mutex' \in [Mutexes -> Threads \cup {"free", "destroyed"}]
           /\ mutex'[m] \in {"free", "destroyed"}
           /\ mutex'[m] = "destroyed" => mutex[m] = "destroyed"
           /\ \A k \in Mutexes : k # m => mutex'[k] = mutex[k]
BY DEF Unlock, ControlTyped, Mutexes
----------------------------------------------------------------------------
LEMMA InitIInv == Init => IInv
<1> SUFFICES ASSUME Init PROVE IInv
  OBVIOUS
<1>1. calls \in [Callers -> Seq(RoutinePcs)] /\ calls["udp"] = <<>>
      /\ \A t \in Callers : Len(calls[t]) = 0
  BY DEF Init, Callers
<1>2. pc \in [Threads -> MainPcs \cup SamplerPcs \cup LedPcs \cup UdpPcs]
  <2>1. pc = [t \in Threads |-> IF t = "main" THEN "startSampler" ELSE "none"]
    BY DEF Init, Threads
  <2> QED BY <2>1 DEF MainPcs, LedPcs
<1>3. mutex = [m \in {"history", "dip"} |-> "free"]
  BY DEF Init
<1>4. ControlTyped
  BY <1>1, <1>2, <1>3, SamplerAssumption
  DEF Init, ControlTyped, Threads, MainPcs, SamplerPcs, LedPcs, UdpPcs, SamplerAssumption
<1>5. DataTyped
  BY DEF Init, DataTyped, Pointers
<1>6. Started /\ MemoryInv
  BY <1>1 DEF Init, Started, MemoryInv, LivePcs, DoubtPcs
<1>7. ShutdownInv
  BY <1>1, <1>3 DEF Init, ShutdownInv
<1>8. HistoryInv /\ DipInv /\ FaultInv
  BY <1>3 DEF Init, HistoryInv, DipInv, FaultInv
<1> QED BY <1>4, <1>5, <1>6, <1>7, <1>8 DEF IInv

(***************************************************************************)
(* Sampler_shutdownRoutine, on main's or the listener's stack.             *)
(***************************************************************************)
\* What a step of the routine leaves alone, as far as the places go.
LEMMA RoutineTyped ==
    ASSUME ControlTyped, NEW t \in Callers, NEW from, NEW to \in RoutinePcs, CallStep(t, from, to),
           cancelled' \subseteq {"sampler", "led"}, running' \subseteq running,
           mutex' \in [{"history", "dip"} -> Threads \cup {"free", "destroyed"}]
    PROVE  ControlTyped'
<1>1. calls' \in [Callers -> Seq(RoutinePcs)]
  BY CallGoesOn DEF CallStep
<1> QED BY <1>1 DEF CallStep, ControlTyped, process

LEMMA RoutineStarted ==
    ASSUME ControlTyped, Started, NEW t \in Callers, NEW from, NEW to \in RoutinePcs, CallStep(t, from, to)
    PROVE  Started'
<1>1. Len(calls'["udp"]) = Len(calls["udp"]) /\ "udp" \in Callers
  BY CallGoesOn DEF CallStep, Callers
<1>2. calls'["udp"] # <<>> => calls["udp"] # <<>>
  <2>1. calls' \in [Callers -> Seq(RoutinePcs)]
    BY CallGoesOn DEF CallStep
  <2> QED BY <1>1, <2>1, InCallIs
<1> QED BY <1>1, <1>2 DEF CallStep, Started

LEMMA ShutdownLockKeeps ==
    ASSUME IInv, NEW t \in Callers, ShutdownLock(t)
    PROVE  IInv'
<1> USE DEF ShutdownLock, IInv
<1>1. CallStep(t, "lock", "free") /\ "free" \in RoutinePcs /\ t \in Threads
  BY DEF RoutinePcs, Callers, Threads
<1>2. /\ mutex' \in [{"history", "dip"} -> Threads \cup {"free", "destroyed"}]
      /\ mutex'["dip"] = mutex["dip"]
      /\ mutex'["history"] = IF mutex["history"] = "free" THEN t ELSE mutex["history"]
  BY <1>1 DEF Lock, ControlTyped
<1>3. ControlTyped' /\ Started'
  BY <1>1, <1>2, RoutineTyped, RoutineStarted DEF ControlTyped
<1>4. DataTyped' /\ MemoryInv' /\ DipInv'
  BY <1>1, <1>2 DEF CallStep, process, history, DataTyped, MemoryInv, DipInv
<1> DEFINE k == Len(calls[t])
<1>5. /\ k \in 1 .. k /\ calls[t][k] = "lock" /\ calls'[t][k] = "free"
      /\ \A u \in Callers : /\ Len(calls'[u]) = Len(calls[u])
                            /\ \A i \in 1 .. Len(calls[u]) : u # t \/ i # k => calls'[u][i] = calls[u][i]
  BY <1>1, CallGoesOn DEF CallStep
<1>6. ShutdownInv'
  BY <1>1, <1>2, <1>5 DEF ShutdownInv, CallStep, history, Callers, Threads
<1>7. HistoryInv'
  BY <1>1, <1>2, <1>5 DEF HistoryInv, CallStep, Callers
<1>8. FaultInv'
  BY <1>1 DEF FaultInv, CallStep, process
<1> QED BY <1>3, <1>4, <1>6, <1>7, <1>8
LEMMA ShutdownFreeKeeps ==
    ASSUME IInv, NEW t \in Callers, ShutdownFree(t)
    PROVE  IInv'
<1> USE DEF ShutdownFree, IInv
<1>1. CallStep(t, "free", "unlock") /\ "unlock" \in RoutinePcs
  BY DEF RoutinePcs
<1>2. ControlTyped' /\ Started'
  BY <1>1, RoutineTyped, RoutineStarted DEF ControlTyped
<1> DEFINE k == Len(calls[t])
<1>3. /\ k \in 1 .. k /\ calls[t][k] = "free" /\ calls'[t][k] = "unlock"
      /\ \A u \in Callers : /\ Len(calls'[u]) = Len(calls[u])
                            /\ \A i \in 1 .. Len(calls[u]) : u # t \/ i # k => calls'[u][i] = calls[u][i]
  BY <1>1, CallGoesOn DEF CallStep
<1>4. "sampler" \notin running
  BY <1>3 DEF ShutdownInv
<1>5. recent = "live" /\ pStats = "live" /\ pc["sampler"] \in DoubtPcs
  <2>1. pc["sampler"] \in DoubtPcs
    BY DEF SamplerSettled, DoubtPcs
  <2>2. ~("freed" \in {recent, pStats})
    BY <1>1 DEF CallStep, BadAccess, InCall
  <2> QED BY <2>1, <2>2 DEF MemoryInv
<1>6. recent' = "freed" /\ pStats' = "freed"
  BY <1>5 DEF Freed
<1>7. DataTyped'
  BY <1>1, <1>6 DEF CallStep, DataTyped, Pointers
<1>8. MemoryInv'
  BY <1>1, <1>5, <1>6 DEF CallStep, MemoryInv, DoubtPcs, LivePcs
<1>9. ShutdownInv'
  BY <1>1, <1>3, <1>4, <1>6 DEF ShutdownInv, CallStep
<1>10. HistoryInv' /\ DipInv'
  BY <1>1, <1>3 DEF HistoryInv, DipInv, CallStep, Callers
<1>11. FaultInv'
  BY <1>1 DEF FaultInv, CallStep, process
<1> QED BY <1>2, <1>7, <1>8, <1>9, <1>10, <1>11

\* The steps after the free: the call is at neither end of its hold of the mutex.
LEMMA LaterKeeps ==
    ASSUME IInv, NEW t \in Callers, NEW from \in {"unlock", "stopLed", "cancelLed", "cancelSampler"},
           NEW to \in {"stopLed", "cancelLed", "cancelSampler", "destroy"}, CallStep(t, from, to),
           \/ from = "unlock" /\ Unlock("history")
           \/ from # "unlock" /\ UNCHANGED mutex,
           cancelled' \in {cancelled, cancelled \cup {"led"}, cancelled \cup {"sampler"}},
           running' \in {running, running \ {"led"}}, UNCHANGED <<history, list>>
    PROVE  IInv'
<1> USE DEF IInv
<1>1. /\ mutex' \in [{"history", "dip"} -> Threads \cup {"free", "destroyed"}]
      /\ mutex'["dip"] = mutex["dip"]
      /\ IF from = "unlock" THEN mutex'["history"] \in {"free", "destroyed"} ELSE UNCHANGED mutex
      /\ mutex'["history"] = "destroyed" => mutex["history"] = "destroyed"
  <2>1. CASE from = "unlock" /\ Unlock("history")
    BY <2>1, Unlocked DEF Mutexes
  <2>2. CASE from # "unlock" /\ UNCHANGED mutex
    BY <2>2 DEF ControlTyped
  <2> QED BY <2>1, <2>2
<1>2. to \in RoutinePcs /\ cancelled' \subseteq {"sampler", "led"} /\ running' \subseteq running
      /\ cancelled \subseteq cancelled'
  BY DEF RoutinePcs, ControlTyped
<1>3. ControlTyped' /\ Started'
  BY <1>1, <1>2, RoutineTyped, RoutineStarted
<1>4. DataTyped' /\ MemoryInv'
  BY DEF CallStep, history, DataTyped, MemoryInv
<1>0. DipInv'
  BY <1>1, <1>2 DEF CallStep, DipInv
<1> DEFINE k == Len(calls[t])
<1>5. /\ k \in 1 .. k /\ calls[t][k] = from /\ calls'[t][k] = to
      /\ \A u \in Callers : /\ Len(calls'[u]) = Len(calls[u])
                            /\ \A i \in 1 .. Len(calls[u]) : u # t \/ i # k => calls'[u][i] = calls[u][i]
  BY <1>2, CallGoesOn DEF CallStep
<1>6. pStats = "freed" /\ "sampler" \notin running
  BY <1>5 DEF ShutdownInv
<1>7. ShutdownInv'
  BY <1>1, <1>2, <1>5, <1>6 DEF ShutdownInv, CallStep, history
<1>8. HistoryInv'
  BY <1>1, <1>2, <1>5 DEF HistoryInv, CallStep, Callers
<1>9. FaultInv'
  BY <1>2 DEF FaultInv, CallStep, process
<1> QED BY <1>0, <1>3, <1>4, <1>7, <1>8, <1>9

LEMMA ShutdownReturnKeeps ==
    ASSUME IInv, NEW t \in Callers, ShutdownReturn(t)
    PROVE  IInv'
<1> USE DEF ShutdownReturn, IInv
<1>1. /\ mutex' \in [{"history", "dip"} -> Threads \cup {"free", "destroyed"}]
      /\ mutex'["dip"] = mutex["dip"]
      /\ mutex'["history"] = IF mutex["history"] = "free" THEN "destroyed" ELSE mutex["history"]
  BY DEF Destroy, ControlTyped
<1>2. /\ calls' \in [Callers -> Seq(RoutinePcs)]
      /\ Len(calls'[t]) = Len(calls[t]) - 1 /\ Len(calls[t]) \in Nat \ {0}
      /\ \A i \in 1 .. Len(calls'[t]) : calls'[t][i] = calls[t][i]
      /\ \A u \in Callers : u # t => calls'[u] = calls[u]
  BY CallReturns
<1>3. calls[t][Len(calls[t])] = "destroy"
  BY DEF Frame
<1>4. pStats = "freed"
  BY <1>2, <1>3 DEF ShutdownInv
<1>5. ControlTyped'
  BY <1>1, <1>2 DEF ControlTyped, process
<1>6. Started'
  <2>1. CASE t = "udp"
    <3>1. Len(calls'["udp"]) = 0 /\ calls'["udp"] \in Seq(RoutinePcs)
      BY <1>2, <2>1, InCallIs DEF Started
    <3>2. calls'["udp"] = <<>>
      BY <3>1, EmptySeq
    <3> QED BY <3>2 DEF Started
  <2>2. CASE t # "udp"
    <3>1. calls'["udp"] = calls["udp"]
      BY <1>2, <2>2 DEF Callers
    <3> QED BY <3>1 DEF Started
  <2> QED BY <2>1, <2>2
<1>7. DataTyped' /\ MemoryInv' /\ DipInv' /\ FaultInv'
  BY <1>1 DEF process, history, request, DataTyped, MemoryInv, DipInv, FaultInv
<1>8. ShutdownInv'
  <2>1. \A u \in Callers : \A i \in 1 .. Len(calls'[u]) : calls'[u][i] = calls[u][i] /\ i \in 1 .. Len(calls[u])
    BY <1>2
  <2> QED BY <1>1, <1>4, <2>1 DEF ShutdownInv, history
<1>9. HistoryInv'
  <2>1. \A u \in Callers : \A i \in 1 .. Len(calls[u]) :
          calls[u][i] \in {"free", "unlock"} => i \in 1 .. Len(calls'[u]) /\ calls'[u][i] = calls[u][i]
    BY <1>2, <1>3
  <2> QED BY <1>1, <2>1 DEF HistoryInv, Callers
<1> QED BY <1>5, <1>6, <1>7, <1>8, <1>9

LEMMA RoutinesKeep ==
    ASSUME IInv, Routines
    PROVE  IInv'
<1>1. PICK t \in Callers : Sampler_shutdownRoutine(t)
  BY DEF Routines, Callers
<1>2. CASE ShutdownUnlock(t)
  BY <1>2, LaterKeeps DEF ShutdownUnlock
<1>3. CASE led_shutdownRoutine(t)
  BY <1>3, LaterKeeps DEF led_shutdownRoutine
<1>4. CASE CancelSampler(t)
  BY <1>4, LaterKeeps DEF CancelSampler
<1> QED BY <1>1, <1>2, <1>3, <1>4, ShutdownLockKeeps, ShutdownFreeKeeps, ShutdownReturnKeeps
     DEF Sampler_shutdownRoutine

\* A handler begins: a call that is still at its lock.
LEMMA CallBeginsKeeps ==
    ASSUME IInv, NEW t \in Callers, calls' = [calls EXCEPT ![t] = Append(@, "lock")],
           UNCHANGED <<running, pStats, cancelled, mutex, pc>>
    PROVE  ShutdownInv' /\ HistoryInv'
<1> USE DEF IInv
<1>1. /\ Len(calls'[t]) = Len(calls[t]) + 1 /\ calls'[t][Len(calls[t]) + 1] = "lock"
      /\ Len(calls[t]) \in Nat /\ \A i \in 1 .. Len(calls[t]) : calls'[t][i] = calls[t][i]
      /\ \A u \in Callers : u # t => calls'[u] = calls[u]
  BY CallBegins
<1>2. \A i \in 1 .. Len(calls'[t]) : i \in 1 .. Len(calls[t]) \/ calls'[t][i] = "lock"
  BY <1>1
<1>3. ShutdownInv'
  BY <1>1, <1>2 DEF ShutdownInv
<1>4. \A u \in Callers : \A i \in 1 .. Len(calls[u]) : i \in 1 .. Len(calls'[u]) /\ calls'[u][i] = calls[u][i]
  BY <1>1
<1>5. HistoryInv'
  BY <1>4 DEF HistoryInv, Callers
<1> QED BY <1>3, <1>5

LEMMA SigintKeeps ==
    ASSUME IInv, Sigint
    PROVE  IInv'
<1> USE DEF IInv, Sigint
<1>1. signals' \in 0 .. MaxSignals
  BY SamplerAssumption DEF ControlTyped, SamplerAssumption
<1>2. DataTyped' /\ MemoryInv' /\ DipInv' /\ FaultInv'
  BY DEF history, request, DataTyped, MemoryInv, DipInv, FaultInv
<1>3. CASE handler = "default"
  <2>1. ControlTyped' /\ Started'
    BY <1>1, <1>3 DEF ControlTyped, Started
  <2>2. ShutdownInv' /\ HistoryInv'
    BY <1>3 DEF ShutdownInv, HistoryInv, history
  <2> QED BY <1>2, <2>1, <2>2
<1>4. CASE handler # "default"
  <2>1. calls' = [calls EXCEPT !["main"] = Append(@, "lock")] /\ "main" \in Callers
    BY <1>4 DEF Callers
  <2>2. ControlTyped' /\ Started'
    BY <1>1, <1>4, <2>1, CallBegins DEF ControlTyped, Started, Callers
  <2>3. ShutdownInv' /\ HistoryInv'
    BY <2>1, CallBeginsKeeps DEF history
  <2> QED BY <1>2, <2>2, <2>3
<1> QED BY <1>3, <1>4
(***************************************************************************)
(* samplerThread: what all of its steps have in common.                    *)
(***************************************************************************)
Ends(from, to, places) ==
    from \in places => to \in places \/ (to = "ended" /\ "sampler" \in cancelled)

\* A step keeps its mutexes, takes one as it comes to a place that has it, or gives
\* one back as it leaves such a place.
Holds(from, to) ==
    \/ UNCHANGED mutex /\ Ends(from, to, InHistory) /\ Ends(from, to, InDip)
    \/ Lock("sampler", "history") /\ to \in InHistory /\ Ends(from, to, InDip)
    \/ Unlock("history") /\ Ends(from, to, InDip)
    \/ Lock("sampler", "dip") /\ to \in InDip /\ Ends(from, to, InHistory)
    \/ Unlock("dip") /\ Ends(from, to, InHistory)

LEMMA HoldsKeeps ==
    ASSUME IInv, NEW from, NEW to, from # "ended", pc["sampler"] = from, pc' = [pc EXCEPT !["sampler"] = to],
           UNCHANGED <<calls, cancelled>>, Holds(from, to)
    PROVE  /\ mutex' \in [Mutexes -> Threads \cup {"free", "destroyed"}]
           /\ mutex'["history"] = "destroyed" => mutex["history"] = "destroyed"
           /\ HistoryInv' /\ DipInv'
<1> USE DEF IInv
<1>1. pc'["sampler"] = to /\ pc'["led"] = pc["led"] /\ pc'["udp"] = pc["udp"] /\ "sampler" \in Threads
  BY DEF ControlTyped, Threads
<1>2. CASE UNCHANGED mutex /\ Ends(from, to, InHistory) /\ Ends(from, to, InDip)
  <2>1. HistoryInv'
    BY <1>1, <1>2 DEF HistoryInv, Ends
  <2>2. DipInv'
    BY <1>1, <1>2 DEF DipInv, Ends
  <2> QED BY <1>2, <2>1, <2>2 DEF ControlTyped, Mutexes
<1>3. CASE Lock("sampler", "history") /\ to \in InHistory /\ Ends(from, to, InDip)
  <2>1. /\ mutex' \in [Mutexes -> Threads \cup {"free", "destroyed"}]
        /\ mutex'["history"] \in {"sampler", "destroyed"} /\ mutex'["dip"] = mutex["dip"]
        /\ mutex'["history"] = "destroyed" => mutex["history"] = "destroyed"
    BY <1>1, <1>3, Locked DEF Mutexes
  <2>2. HistoryInv'
    BY <1>1, <1>3, <2>1 DEF HistoryInv
  <2>3. DipInv'
    BY <1>1, <1>3, <2>1 DEF DipInv, Ends
  <2> QED BY <2>1, <2>2, <2>3
<1>4. CASE Unlock("history") /\ Ends(from, to, InDip)
  <2>1. /\ mutex' \in [Mutexes -> Threads \cup {"free", "destroyed"}]
        /\ mutex'["history"] \in {"free", "destroyed"} /\ mutex'["dip"] = mutex["dip"]
        /\ mutex'["history"] = "destroyed" => mutex["history"] = "destroyed"
    BY <1>4, Unlocked DEF Mutexes
  <2>2. HistoryInv'
    BY <1>1, <2>1 DEF HistoryInv
  <2>3. DipInv'
    BY <1>1, <1>4, <2>1 DEF DipInv, Ends
  <2> QED BY <2>1, <2>2, <2>3
<1>5. CASE Lock("sampler", "dip") /\ to \in InDip /\ Ends(from, to, InHistory)
  <2>1. /\ mutex' \in [Mutexes -> Threads \cup {"free", "destroyed"}]
        /\ mutex'["dip"] \in {"sampler", "destroyed"} /\ mutex'["history"] = mutex["history"]
    BY <1>1, <1>5, Locked DEF Mutexes
  <2>2. HistoryInv'
    BY <1>1, <1>5, <2>1 DEF HistoryInv, Ends
  <2>3. DipInv'
    BY <1>1, <1>5, <2>1 DEF DipInv
  <2> QED BY <2>1, <2>2, <2>3
<1>6. CASE Unlock("dip") /\ Ends(from, to, InHistory)
  <2>1. /\ mutex' \in [Mutexes -> Threads \cup {"free", "destroyed"}]
        /\ mutex'["dip"] \in {"free", "destroyed"} /\ mutex'["history"] = mutex["history"]
    BY <1>6, Unlocked DEF Mutexes
  <2>2. HistoryInv'
    BY <1>1, <1>6, <2>1 DEF HistoryInv, Ends
  <2>3. DipInv'
    BY <1>1, <2>1 DEF DipInv
  <2> QED BY <2>1, <2>2, <2>3
<1> QED BY <1>2, <1>3, <1>4, <1>5, <1>6 DEF Holds

LEMMA SamplerKeeps ==
    ASSUME IInv, NEW from \in SamplerPcs \ {"none", "ended"}, NEW to \in SamplerPcs,
           SamplerStep(from, to),
           Holds(from, to), proc' \in {"runs", "exited"}, handler' \in {"default", "shutdown"},
           UNCHANGED <<fault, signals>>, DataTyped', MemoryInv',
           pStats' = pStats \/ (from = "start" /\ pStats' = "live")
    PROVE  IInv'
<1> USE DEF IInv
<1>1. /\ pc["sampler"] = from /\ pc' = [pc EXCEPT !["sampler"] = to] /\ fault = "none"
      /\ UNCHANGED <<calls, cancelled, running>>
  BY DEF SamplerStep, Step, Active, control
<1>2. /\ pc' \in [Threads -> MainPcs \cup SamplerPcs \cup LedPcs \cup UdpPcs]
      /\ pc'["sampler"] = to /\ \A t \in Threads : t # "sampler" => pc'[t] = pc[t]
  BY <1>1 DEF ControlTyped, Threads
<1>3. /\ mutex' \in [Mutexes -> Threads \cup {"free", "destroyed"}]
      /\ mutex'["history"] = "destroyed" => mutex["history"] = "destroyed"
      /\ HistoryInv' /\ DipInv'
  BY <1>1, HoldsKeeps
<1>4. ControlTyped'
  BY <1>1, <1>2, <1>3 DEF ControlTyped, Mutexes, Threads
<1>5. Started'
  BY <1>1, <1>2 DEF Started, Threads
<1>6. ShutdownInv'
  <2>1. pc'["led"] = pc["led"]
    BY <1>2 DEF Threads
  <2>2. CASE pStats' = pStats
    BY <1>1, <1>3, <2>1, <2>2 DEF ShutdownInv
  <2>3. CASE from = "start" /\ pStats' = "live"
    <3>1. pStats = "null"
      BY <1>1, <2>3 DEF MemoryInv
    <3> QED BY <1>1, <1>3, <2>1, <2>3, <3>1 DEF ShutdownInv
  <2> QED BY <2>2, <2>3
<1>7. FaultInv'
  BY <1>1 DEF FaultInv
<1> QED BY <1>3, <1>4, <1>5, <1>6, <1>7
\* A step that leaves the memory alone, and may have to find it live first.
LEMMA SamplerMoves ==
    ASSUME IInv, NEW from \in SamplerPcs \ {"none", "ended"}, NEW to \in SamplerPcs,
           SamplerStep(from, to), Holds(from, to), UNCHANGED <<fault, signals, history, list>>,
           proc' \in {"runs", "exited"}, handler' \in {"default", "shutdown"},
           \/ from = to
           \/ from \in LivePcs /\ to \in LivePcs \cup DoubtPcs
           \/ from \in DoubtPcs /\ to \in DoubtPcs
           \/ from = "stats" /\ to = "printStats"
    PROVE  IInv'
<1> USE DEF IInv
<1>1. /\ pc["sampler"] = from /\ pc'["sampler"] = to /\ UNCHANGED <<digits, n>>
      /\ from = "stats" => pStats = "live"
  BY DEF SamplerStep, Step, Active, BadAccess, ControlTyped, Threads
<1>2. DataTyped'
  BY <1>1 DEF DataTyped, history
<1>3. MemoryInv'
  <2>1. UNCHANGED <<recent, pStats>>
    BY DEF history
  <2> QED BY <1>1, <2>1 DEF MemoryInv, LivePcs, DoubtPcs
<1>4. UNCHANGED <<fault, signals>> /\ pStats' = pStats
  BY DEF history
<1> QED BY <1>2, <1>3, <1>4, SamplerKeeps

LEMMA SamplerQuietKeeps ==
    ASSUME IInv, SamplerLoop \/ SamplerRead \/ SamplerSleep \/ SamplerFails \/ SamplerCancelled
    PROVE  IInv'
<1> USE DEF SamplerPcs, LivePcs, DoubtPcs
<1>0. proc = "runs" /\ handler \in {"default", "shutdown"}
  BY DEF IInv, ControlTyped, SamplerLoop, SamplerRead, SamplerSleep, SamplerFails, SamplerCancelled,
         SamplerPlain, SamplerStep, Step, Active
<1>1. CASE \E from \in {"loop", "read", "pot", "print", "printDips", "printStats", "list", "sleep"},
              to \in {"ended", "loop", "read", "dipLock", "store"} :
             /\ SamplerPlain(from, to)
             /\ from \in {"loop", "read", "sleep"} \/ (to = "ended" /\ "sampler" \in cancelled)
  <2>1. PICK from \in {"loop", "read", "pot", "print", "printDips", "printStats", "list", "sleep"},
             to \in {"ended", "loop", "read", "dipLock", "store"} :
             /\ SamplerPlain(from, to)
             /\ from \in {"loop", "read", "sleep"} \/ (to = "ended" /\ "sampler" \in cancelled)
    BY <1>1
  <2>2. Holds(from, to)
    BY <2>1 DEF SamplerPlain, Holds, Ends, InHistory, InDip
  <2> QED BY <1>0, <2>1, <2>2, SamplerMoves DEF SamplerPlain, process
<1>2. CASE SamplerLoop
  <2>1. CASE SamplerPlain("loop", "ended")
    BY <1>1, <2>1
  <2>2. CASE SamplerStep("loop", "read") /\ handler' = "shutdown" /\ UNCHANGED <<proc, fault, signals, mutex, history, list>>
    <3>1. Holds("loop", "read")
      BY <2>2 DEF Holds, Ends, InHistory, InDip
    <3> QED BY <1>0, <2>2, <3>1, SamplerMoves
  <2> QED BY <1>2, <2>1, <2>2 DEF SamplerLoop
<1>3. CASE SamplerFails
  <2>1. PICK at \in {"start", "read", "pot"} : SamplerStep(at, at)
    BY <1>3 DEF SamplerFails
  <2>2. proc' = "exited" /\ UNCHANGED <<fault, handler, signals, mutex, history, list>>
    BY <1>3 DEF SamplerFails
  <2>3. Holds(at, at)
    BY <2>2 DEF Holds, Ends
  <2> QED BY <1>0, <2>1, <2>2, <2>3, SamplerMoves
<1>4. CASE SamplerRead
  BY <1>1, <1>4 DEF SamplerRead
<1>5. CASE SamplerSleep
  BY <1>1, <1>5 DEF SamplerSleep
<1>6. CASE SamplerCancelled
  BY <1>1, <1>6 DEF SamplerCancelled
<1> QED BY <1>2, <1>3, <1>4, <1>5, <1>6

LEMMA SamplerLocksKeep ==
    ASSUME IInv, SamplerDip \/ ResizeLock \/ ResizeUnlock \/ Report
    PROVE  IInv'
<1> USE DEF SamplerPcs, LivePcs, DoubtPcs
<1>1. PICK from \in {"dipLock", "dipUnlock", "resizeLock", "resizeUnlock", "reportLock", "print",
                     "reportDipLock", "printDips", "stats", "printStats", "list"},
           to \in {"dipUnlock", "store", "copy", "reportLock", "print", "reportDipLock", "printDips",
                   "stats", "printStats", "list", "sleep"} :
        /\ SamplerStep(from, to) /\ UNCHANGED <<process, history, list>>
        /\ \/ from = "dipLock" /\ to = "dipUnlock" /\ Lock("sampler", "dip")
           \/ from = "dipUnlock" /\ to = "store" /\ Unlock("dip")
           \/ from = "resizeLock" /\ to = "copy" /\ Lock("sampler", "history")
           \/ from = "resizeUnlock" /\ to = "reportLock" /\ Unlock("history")
           \/ from = "reportLock" /\ to = "print" /\ Lock("sampler", "history")
           \/ from = "reportDipLock" /\ to = "printDips" /\ Lock("sampler", "dip")
           \/ from = "printDips" /\ to = "stats" /\ Unlock("dip")
           \/ from = "printStats" /\ to = "list" /\ Unlock("history")
           \/ /\ UNCHANGED mutex
              /\ \/ from = "print" /\ to = "reportDipLock"
                 \/ from = "stats" /\ to = "printStats"
                 \/ from = "list" /\ to = "sleep"
  BY Zenon DEF SamplerDip, ResizeLock, ResizeUnlock, Report, SamplerPlain
<1>2. Holds(from, to)
  BY <1>1 DEF Holds, Ends, InHistory, InDip
<1>3. proc = "runs" /\ handler \in {"default", "shutdown"} /\ UNCHANGED <<proc, handler, fault, signals>>
  BY <1>1 DEF IInv, ControlTyped, SamplerStep, Step, Active, process
<1> QED BY <1>1, <1>2, <1>3, SamplerMoves
\* The steps that change the memory or the sizes.
LEMMA SamplerDataKeeps ==
    ASSUME IInv, SamplerStart \/ Store \/ ReadPot \/ ResizeCopy \/ ResizeFree \/ ResizeAssign
    PROVE  IInv'
<1> USE DEF IInv
<1> DEFINE Frees == list' = list \/ list' = "stale"
<1>1. PICK from \in {"start", "store", "pot", "copy", "free", "assign"},
           to \in {"loop", "pot", "sleep", "reportLock", "resizeLock", "free", "assign", "resizeUnlock"} :
        /\ SamplerStep(from, to) /\ UNCHANGED <<process, mutex>> /\ Frees
        /\ \/ /\ from = "start" /\ to = "loop" /\ recent' = "live" /\ pStats' = "live"
              /\ \E s \in Sizes : arraySize' = AtLeastOne(s) /\ length' = AtLeastOne(s)
              /\ UNCHANGED <<newSize, historyCount>>
           \/ /\ from = "store" /\ to \in {"pot", "sleep"}
              /\ historyCount' = (IF historyCount < arraySize THEN historyCount + 1 ELSE arraySize - 1)
              /\ UNCHANGED <<recent, pStats, length, arraySize, newSize>>
           \/ /\ from = "pot" /\ to \in {"reportLock", "resizeLock"} /\ \E s \in Sizes : newSize' = AtLeastOne(s)
              /\ UNCHANGED <<recent, pStats, length, arraySize, historyCount>>
           \/ /\ from = "copy" /\ to = "free" /\ arraySize' = newSize
              /\ UNCHANGED <<recent, pStats, length, newSize, historyCount>>
           \/ /\ from = "free" /\ to = "assign" /\ recent' = "freed"
              /\ UNCHANGED <<pStats, length, arraySize, newSize, historyCount>>
           \/ /\ from = "assign" /\ to = "resizeUnlock" /\ recent' = "live" /\ length' = newSize
              /\ UNCHANGED <<pStats, arraySize, newSize, historyCount>>
  <2>1. CASE SamplerStart
    BY <2>1 DEF SamplerStart
  <2>2. CASE Store
    BY <2>2 DEF Store
  <2>3. CASE ReadPot
    BY <2>3 DEF ReadPot
  <2>4. CASE ResizeCopy
    BY <2>4 DEF ResizeCopy
  <2>5. CASE ResizeFree
    BY <2>5 DEF ResizeFree
  <2>6. CASE ResizeAssign
    BY <2>6 DEF ResizeAssign
  <2> QED BY <2>1, <2>2, <2>3, <2>4, <2>5, <2>6
<1>2. /\ pc["sampler"] = from /\ pc'["sampler"] = to /\ UNCHANGED <<digits, n>>
      /\ proc = "runs" /\ fault = "none" /\ UNCHANGED <<proc, fault, handler, signals>>
      /\ from = "copy" => recent = "live"
  BY <1>1 DEF SamplerStep, Step, Active, BadAccess, ControlTyped, Threads, process
<1>3. \A s \in Sizes : AtLeastOne(s) \in (Sizes \ {0}) \cup {1}
  BY DEF AtLeastOne
<1>4. DataTyped'
  <2>1. Sizes \subseteq Nat
    BY SamplerAssumption DEF SamplerAssumption
  <2>2. recent' \in Pointers /\ pStats' \in Pointers /\ digits' \in Pointers
    BY <1>1, <1>2 DEF DataTyped, Pointers
  <2>3. arraySize' \in (Sizes \ {0}) \cup {1} /\ newSize' \in (Sizes \ {0}) \cup {1}
    BY <1>1, <1>3 DEF DataTyped
  <2>4. length' \in Sizes \cup {0, 1}
    BY <1>1, <1>3 DEF DataTyped
  <2>5. historyCount' \in Nat /\ \E s \in Sizes \cup {1} : historyCount' <= s
    <3>1. CASE from = "store"
      <4>1. arraySize \in Nat \ {0} /\ arraySize \in Sizes \cup {1} /\ historyCount \in Nat
        BY <2>1 DEF DataTyped
      <4>2. historyCount' = (IF historyCount < arraySize THEN historyCount + 1 ELSE arraySize - 1)
        BY <1>1, <3>1
      <4>3. historyCount' \in Nat /\ historyCount' <= arraySize
        BY <4>1, <4>2
      <4> QED BY <4>1, <4>3
    <3>2. CASE from # "store"
      BY <1>1, <3>2 DEF DataTyped
    <3> QED BY <3>1, <3>2
  <2>6. n' \in Int /\ list' \in {"none", "null", "copy", "recent", "empty", "short", "stale"}
    BY <1>1, <1>2 DEF DataTyped
  <2> QED BY <2>2, <2>3, <2>4, <2>5, <2>6 DEF DataTyped
<1>5. MemoryInv'
  BY <1>1, <1>2 DEF MemoryInv, LivePcs, DoubtPcs
<1>6. Holds(from, to)
  BY <1>1 DEF Holds, Ends, InHistory, InDip
<1>7. from \in SamplerPcs \ {"none", "ended"} /\ to \in SamplerPcs
  BY DEF SamplerPcs, LivePcs, DoubtPcs
<1>8. pStats' = pStats \/ (from = "start" /\ pStats' = "live")
  BY <1>1
<1>9. proc' \in {"runs", "exited"} /\ handler' \in {"default", "shutdown"}
  BY <1>2 DEF ControlTyped
<1> QED BY <1>1, <1>2, <1>4, <1>5, <1>6, <1>7, <1>8, <1>9, SamplerKeeps

LEMMA SamplerThreadKeeps == IInv /\ samplerThread => IInv'
BY SamplerQuietKeeps, SamplerLocksKeep, SamplerDataKeeps DEF samplerThread
(***************************************************************************)
(* ledThread.                                                              *)
(***************************************************************************)
LEMMA LedKeeps ==
    ASSUME IInv, NEW from \in LedPcs \ {"none", "ended"}, NEW to \in LedPcs, LedStep(from, to),
           proc' \in {"runs", "exited"}, digits' \in Pointers,
           to = "reset" => from = "reset" \/ "led" \notin running,
           \/ UNCHANGED mutex /\ from # "dipUnlock"
           \/ Lock("led", "dip") /\ to = "dipUnlock"
           \/ Unlock("dip")
    PROVE  IInv'
<1> USE DEF IInv
<1>1. /\ pc["led"] = from /\ pc' = [pc EXCEPT !["led"] = to] /\ fault = "none"
      /\ UNCHANGED <<calls, cancelled, running, history, request, handler, signals, fault>>
  BY DEF LedStep, Step, Active, control
<1>2. /\ pc' \in [Threads -> MainPcs \cup SamplerPcs \cup LedPcs \cup UdpPcs]
      /\ pc'["led"] = to /\ \A t \in Threads : t # "led" => pc'[t] = pc[t]
  BY <1>1 DEF ControlTyped, Threads
<1>3. /\ mutex' \in [Mutexes -> Threads \cup {"free", "destroyed"}]
      /\ mutex'["history"] = mutex["history"]
      /\ \/ mutex'["dip"] = mutex["dip"] /\ from # "dipUnlock"
         \/ mutex'["dip"] \in {"led", "destroyed"} /\ to = "dipUnlock"
         \/ mutex'["dip"] \in {"free", "destroyed"}
  <2>1. CASE UNCHANGED mutex /\ from # "dipUnlock"
    BY <2>1 DEF ControlTyped, Mutexes
  <2>2. CASE Lock("led", "dip") /\ to = "dipUnlock"
    BY <2>2, Locked DEF Mutexes, Threads
  <2>3. CASE Unlock("dip")
    BY <2>3, Unlocked DEF Mutexes
  <2> QED BY <2>1, <2>2, <2>3
<1>4. ControlTyped'
  BY <1>1, <1>2, <1>3 DEF ControlTyped, Mutexes, Threads
<1>5. Started' /\ DataTyped' /\ MemoryInv' /\ FaultInv'
  BY <1>1, <1>2 DEF Started, DataTyped, MemoryInv, FaultInv, Threads, history, request
<1>6. ShutdownInv'
  <2>1. pc'["led"] = "reset" => "led" \notin running
    BY <1>1, <1>2 DEF ShutdownInv
  <2> QED BY <1>1, <1>3, <2>1 DEF ShutdownInv, history
<1>7. HistoryInv'
  BY <1>1, <1>2, <1>3 DEF HistoryInv, Threads
<1>8. DipInv'
  BY <1>1, <1>2, <1>3 DEF DipInv, Threads
<1> QED BY <1>4, <1>5, <1>6, <1>7, <1>8

LEMMA LedThreadKeeps ==
    ASSUME IInv, ledThread
    PROVE  IInv'
<1>0. digits \in Pointers /\ Freed(digits) \in Pointers /\ {"live", "freed"} \subseteq Pointers
  BY DEF IInv, DataTyped, Pointers, Freed
<1>1. PICK from \in LedPcs \ {"none", "ended"}, to \in LedPcs :
        /\ LedStep(from, to) /\ proc' \in {proc, "exited"} /\ digits' \in Pointers
        /\ to = "reset" => from = "reset" \/ "led" \notin running
        /\ \/ UNCHANGED mutex /\ from # "dipUnlock"
           \/ Lock("led", "dip") /\ to = "dipUnlock"
           \/ Unlock("dip")
  <2> USE DEF LedPcs
  <2>1. CASE LedInit
    BY <1>0, <2>1 DEF LedInit
  <2>2. CASE LedFails
    BY <1>0, <2>2 DEF LedFails
  <2>3. CASE LedLoop
    BY <1>0, <2>3 DEF LedLoop
  <2>4. CASE LedNumDips
    BY <1>0, <2>4 DEF LedNumDips
  <2>5. CASE displayNum
    BY <1>0, <2>5 DEF displayNum
  <2>6. CASE led_reset
    BY <1>0, <2>6 DEF led_reset
  <2>7. CASE LedCancelled
    BY <1>0, <2>7 DEF LedCancelled
  <2> QED BY <2>1, <2>2, <2>3, <2>4, <2>5, <2>6, <2>7 DEF ledThread
<1>2. proc = "runs"
  BY <1>1 DEF LedStep, Step, Active
<1> QED BY <1>1, <1>2, LedKeeps
(***************************************************************************)
(* udpListenThread.                                                        *)
(***************************************************************************)
LEMMA UdpKeeps ==
    ASSUME IInv, NEW from \in UdpPcs \ {"none", "ended"}, NEW to \in UdpPcs, UdpStep(from, to),
           UNCHANGED calls, n' \in Int, list' \in {"none", "null", "copy", "recent", "empty", "short", "stale"},
           \/ UNCHANGED mutex /\ from \notin {"dipUnlock", "historyUnlock"}
           \/ Lock("udp", "history") /\ to = "historyUnlock" /\ from # "dipUnlock"
           \/ Unlock("history") /\ from # "dipUnlock"
           \/ Lock("udp", "dip") /\ to = "dipUnlock" /\ from # "historyUnlock"
           \/ Unlock("dip") /\ from # "historyUnlock"
    PROVE  IInv'
<1> USE DEF IInv
<1>1. /\ pc["udp"] = from /\ pc' = [pc EXCEPT !["udp"] = to] /\ calls["udp"] = <<>>
      /\ UNCHANGED <<process, cancelled, running, history, digits>>
  BY DEF UdpStep, Step, Active, InCall, ControlTyped, Callers
<1>2. /\ pc' \in [Threads -> MainPcs \cup SamplerPcs \cup LedPcs \cup UdpPcs]
      /\ pc'["udp"] = to /\ \A t \in Threads : t # "udp" => pc'[t] = pc[t]
  BY <1>1 DEF ControlTyped, Threads
<1>3. /\ mutex' \in [Mutexes -> Threads \cup {"free", "destroyed"}]
      /\ mutex'["history"] = "destroyed" => mutex["history"] = "destroyed"
      /\ \/ mutex'["history"] = mutex["history"] /\ from # "historyUnlock"
         \/ mutex'["history"] \in {"udp", "destroyed"} /\ to = "historyUnlock"
         \/ mutex'["history"] \in {"free", "destroyed"}
      /\ \/ mutex'["dip"] = mutex["dip"] /\ from # "dipUnlock"
         \/ mutex'["dip"] \in {"udp", "destroyed"} /\ to = "dipUnlock"
         \/ mutex'["dip"] \in {"free", "destroyed"}
  <2>1. CASE UNCHANGED mutex /\ from \notin {"dipUnlock", "historyUnlock"}
    BY <2>1 DEF ControlTyped, Mutexes
  <2>2. CASE Lock("udp", "history") /\ to = "historyUnlock" /\ from # "dipUnlock"
    BY <2>2, Locked DEF Mutexes, Threads
  <2>3. CASE Unlock("history") /\ from # "dipUnlock"
    BY <2>3, Unlocked DEF Mutexes
  <2>4. CASE Lock("udp", "dip") /\ to = "dipUnlock" /\ from # "historyUnlock"
    BY <2>4, Locked DEF Mutexes, Threads
  <2>5. CASE Unlock("dip") /\ from # "historyUnlock"
    BY <2>5, Unlocked DEF Mutexes
  <2> QED BY <2>1, <2>2, <2>3, <2>4, <2>5
<1>4. ControlTyped'
  BY <1>1, <1>2, <1>3 DEF ControlTyped, Mutexes, Threads, process
<1>5. DataTyped' /\ MemoryInv' /\ FaultInv'
  BY <1>1, <1>2 DEF DataTyped, MemoryInv, FaultInv, Threads, history, process
<1>6. Started'
  <2>1. pc["main"] \notin {"startSampler", "startLed", "startUdp"}
    BY <1>1 DEF Started
  <2> QED BY <1>1, <1>2, <2>1 DEF Started, Threads
<1>7. ShutdownInv'
  BY <1>1, <1>2, <1>3 DEF ShutdownInv, history, Threads
<1>8. HistoryInv'
  <2>1. Len(calls["udp"]) = 0
    BY <1>1
  <2> QED BY <1>1, <1>2, <1>3, <2>1 DEF HistoryInv, Threads
<1>9. DipInv'
  BY <1>1, <1>2, <1>3 DEF DipInv, Threads
<1> QED BY <1>4, <1>5, <1>6, <1>7, <1>8, <1>9
LEMMA ReceiveStopKeeps ==
    ASSUME IInv, ReceiveStop
    PROVE  IInv'
<1> USE DEF IInv, ReceiveStop
<1>1. /\ pc["udp"] = "recv" /\ pc' = [pc EXCEPT !["udp"] = "stop"] /\ calls["udp"] = <<>>
      /\ calls' = [calls EXCEPT !["udp"] = Append(@, "lock")] /\ "udp" \in Callers
      /\ UNCHANGED <<process, cancelled, running, history, digits, mutex, request>>
  BY DEF UdpStep, Step, Active, InCall, ControlTyped, Callers
<1>2. /\ pc' \in [Threads -> MainPcs \cup SamplerPcs \cup LedPcs \cup UdpPcs]
      /\ pc'["udp"] = "stop" /\ \A t \in Threads : t # "udp" => pc'[t] = pc[t]
  BY <1>1 DEF ControlTyped, Threads, UdpPcs
<1>3. /\ calls' \in [Callers -> Seq(RoutinePcs)]
      /\ Len(calls'["udp"]) = 1 /\ calls'["udp"][1] = "lock" /\ calls'["main"] = calls["main"]
      /\ \A i \in 1 .. Len(calls["udp"]) : FALSE
  <2>1. Len(calls["udp"]) = 0
    BY <1>1
  <2>2. /\ calls' \in [Callers -> Seq(RoutinePcs)]
        /\ Len(calls'["udp"]) = Len(calls["udp"]) + 1 /\ calls'["udp"][Len(calls["udp"]) + 1] = "lock"
        /\ \A u \in Callers : u # "udp" => calls'[u] = calls[u]
    BY <1>1, CallBegins
  <2>3. calls'["main"] = calls["main"]
    BY <2>2 DEF Callers
  <2> QED BY <2>1, <2>2, <2>3
<1>4. ControlTyped'
  BY <1>1, <1>2, <1>3 DEF ControlTyped, Threads, UdpPcs, process
<1>5. DataTyped' /\ MemoryInv' /\ FaultInv' /\ DipInv'
  BY <1>1, <1>2 DEF DataTyped, MemoryInv, FaultInv, DipInv, Threads, history, process, request
<1>6. Started'
  <2>1. pc["main"] \notin {"startSampler", "startLed", "startUdp"}
    BY <1>1 DEF Started
  <2> QED BY <1>1, <1>2, <1>3, <2>1 DEF Started, Threads
<1>7. ShutdownInv'
  BY <1>1, <1>2, <1>3 DEF ShutdownInv, history, Threads, Callers
<1>8. HistoryInv'
  BY <1>1, <1>2, <1>3 DEF HistoryInv, Threads
<1> QED BY <1>4, <1>5, <1>6, <1>7, <1>8

LEMMA UdpThreadKeeps ==
    ASSUME IInv, Receive \/ handleRequest
    PROVE  IInv'
<1>0. /\ historyCount \in Nat /\ n \in Int
      /\ list \in {"none", "null", "copy", "recent", "empty", "short", "stale"}
      /\ Seen \in {"none", "null", "copy", "recent", "empty", "short", "stale"}
  BY DEF IInv, DataTyped, Seen
<1>1. CASE ReceiveStop
  BY <1>1, ReceiveStopKeeps
<1>2. CASE ~ReceiveStop
  <2>1. PICK from \in UdpPcs \ {"none", "ended"}, to \in UdpPcs :
          /\ UdpStep(from, to) /\ UNCHANGED calls /\ n' \in Int
          /\ list' \in {"none", "null", "copy", "recent", "empty", "short", "stale"}
          /\ \/ UNCHANGED mutex /\ from \notin {"dipUnlock", "historyUnlock"}
             \/ Lock("udp", "history") /\ to = "historyUnlock" /\ from # "dipUnlock"
             \/ Unlock("history") /\ from # "dipUnlock"
             \/ Lock("udp", "dip") /\ to = "dipUnlock" /\ from # "historyUnlock"
             \/ Unlock("dip") /\ from # "historyUnlock"
    <3> USE DEF UdpPcs, request
    <3>1. CASE ReceiveGet
      BY <1>0, <3>1 DEF ReceiveGet
    <3>2. CASE ReceiveHistory
      BY <1>0, <3>2 DEF ReceiveHistory
    <3>3. CASE ReceiveDips
      BY <1>0, <3>3 DEF ReceiveDips
    <3>4. CASE GetCheck
      BY <1>0, <3>4 DEF GetCheck
    <3>5. CASE GetCopy
      BY <1>0, <3>5 DEF GetCopy
    <3>6. CASE Sampler_getHistory
      BY <1>0, <3>6 DEF Sampler_getHistory
    <3>7. CASE Sampler_getNumDips
      BY <1>0, <3>7 DEF Sampler_getNumDips
    <3>8. CASE sendNumList
      BY <1>0, <3>8 DEF sendNumList
    <3>9. CASE UdpEnds
      BY <1>0, <3>9 DEF UdpEnds
    <3> QED BY <1>2, <3>1, <3>2, <3>3, <3>4, <3>5, <3>6, <3>7, <3>8, <3>9 DEF Receive, handleRequest
  <2> QED BY <2>1, UdpKeeps
<1> QED BY <1>1, <1>2
(***************************************************************************)
(* main, a bad access, and every step.                                     *)
(***************************************************************************)
LEMMA MainKeeps ==
    ASSUME IInv, main
    PROVE  IInv'
<1> USE DEF IInv
<1>1. /\ UNCHANGED <<fault, handler, signals, control, mutex, history, digits, request>>
      /\ proc' \in {"runs", "exited"}
  BY DEF main, Start, Join, MainStep, Active
<1>2. /\ pc' \in [Threads -> MainPcs \cup SamplerPcs \cup LedPcs \cup UdpPcs] /\ pc'["main"] \in MainPcs
      /\ \/ \A t \in {"sampler", "led", "udp"} : pc'[t] = pc[t]
         \/ /\ pc["sampler"] = "none" /\ pc'["sampler"] = "start" /\ pc'["led"] = pc["led"] /\ pc'["udp"] = pc["udp"]
            /\ pc["main"] = "startSampler" /\ pc'["main"] = "startLed"
         \/ /\ pc["led"] = "none" /\ pc'["led"] = "init" /\ pc'["sampler"] = pc["sampler"] /\ pc'["udp"] = pc["udp"]
            /\ pc["main"] = "startLed" /\ pc'["main"] = "startUdp"
         \/ /\ pc["udp"] = "none" /\ pc'["udp"] = "recv" /\ pc'["sampler"] = pc["sampler"] /\ pc'["led"] = pc["led"]
            /\ pc["main"] = "startUdp" /\ pc'["main"] = "joinSampler"
      /\ pc'["main"] = pc["main"] \/ pc'["main"] \in {"startLed", "startUdp", "joinSampler", "joinUdp", "joinLed", "return"}
      /\ pc'["main"] = "startLed" => pc["main"] = "startSampler"
      /\ pc'["main"] = "startUdp" => pc["main"] = "startLed"
  <2> USE DEF ControlTyped, Threads, MainPcs
  <2>1. CASE Start("sampler", "startSampler", "start", "startLed")
    BY <2>1 DEF Start, MainStep, Started, SamplerPcs
  <2>2. CASE Start("led", "startLed", "init", "startUdp")
    BY <2>2 DEF Start, MainStep, Started, LedPcs
  <2>3. CASE Start("udp", "startUdp", "recv", "joinSampler")
    BY <2>3 DEF Start, MainStep, Started, UdpPcs
  <2>4. CASE \E t \in Threads, from, to \in {"joinSampler", "joinUdp", "joinLed", "return"} : Join(t, from, to)
    BY <2>4 DEF Join, MainStep
  <2>5. CASE MainStep("return", "return") /\ UNCHANGED pc
    BY <2>5 DEF MainStep
  <2> QED BY <2>1, <2>2, <2>3, <2>4, <2>5 DEF main
<1>3. ControlTyped'
  BY <1>1, <1>2 DEF ControlTyped, SamplerPcs, LedPcs, UdpPcs, control
<1>4. DataTyped'
  BY <1>1 DEF DataTyped, history, request
<1>5. Started'
  BY <1>1, <1>2 DEF Started, control
<1>6. MemoryInv'
  BY <1>1, <1>2 DEF MemoryInv, history, LivePcs, DoubtPcs
<1>7. ShutdownInv'
  BY <1>1, <1>2 DEF ShutdownInv, history, control
<1>8. HistoryInv' /\ DipInv' /\ FaultInv'
  BY <1>1, <1>2 DEF HistoryInv, DipInv, FaultInv, control, InHistory, InDip
<1> QED BY <1>3, <1>4, <1>5, <1>6, <1>7, <1>8
LEMMA FaultsKeep ==
    ASSUME IInv, Faults
    PROVE  IInv'
<1> USE DEF IInv
<1>1. PICK t \in Threads : (BadAccess(t) \/ MayBeBad(t)) /\ fault' = t
  BY DEF Faults
<1>2. UNCHANGED <<proc, handler, signals, pc, control, mutex, history, digits, request>>
  BY DEF Faults
<1>3. FaultInv'
  <2>1. ~InCall("sampler") /\ ~InCall("led")
    BY DEF InCall, ControlTyped, Callers
  <2>2. CASE t = "sampler"
    <3>1. \/ pc["sampler"] \in {"store", "copy", "list"} /\ recent # "live"
          \/ pc["sampler"] = "stats" /\ pStats # "live"
      BY <1>1, <2>1, <2>2 DEF BadAccess, MayBeBad
    <3>2. pc["sampler"] \in {"copy", "stats"} /\ pStats = "freed"
      BY <3>1 DEF MemoryInv, LivePcs, DoubtPcs
    <3> QED BY <1>1, <1>2, <2>2, <3>2 DEF FaultInv, ShutdownInv, control
  <2>3. CASE t = "led"
    <3>1. pc["led"] = "reset"
      BY <1>1, <2>1, <2>3 DEF BadAccess, MayBeBad
    <3> QED BY <1>1, <1>2, <2>3, <3>1 DEF FaultInv, ShutdownInv, control
  <2>4. CASE t \in {"main", "udp"}
    BY <1>1, <2>4 DEF FaultInv
  <2> QED BY <2>2, <2>3, <2>4 DEF Threads
<1>4. ControlTyped'
  BY <1>1, <1>2 DEF ControlTyped, control
<1>5. DataTyped' /\ Started' /\ MemoryInv'
  BY <1>2 DEF DataTyped, Started, MemoryInv, control, history, request
<1>6. ShutdownInv' /\ HistoryInv' /\ DipInv'
  BY <1>2 DEF ShutdownInv, HistoryInv, DipInv, control, history
<1> QED BY <1>3, <1>4, <1>5, <1>6

LEMMA StutterKeeps ==
    ASSUME IInv, UNCHANGED vars
    PROVE  IInv'
<1> USE DEF IInv, vars, process, control, history, request
<1>1. ControlTyped' /\ DataTyped' /\ Started' /\ MemoryInv'
  BY DEF ControlTyped, DataTyped, Started, MemoryInv
<1>2. ShutdownInv' /\ HistoryInv' /\ DipInv' /\ FaultInv'
  BY DEF ShutdownInv, HistoryInv, DipInv, FaultInv
<1> QED BY <1>1, <1>2

LEMMA Inductive == Spec => []IInv
<1>1. IInv /\ [Next]_vars => IInv'
  BY FaultsKeep, SigintKeeps, RoutinesKeep, SamplerThreadKeeps, LedThreadKeeps, UdpThreadKeeps, MainKeeps,
     StutterKeeps DEF Next
<1> QED BY InitIInv, <1>1, PTL DEF Spec
----------------------------------------------------------------------------
\* Whatever the sizes and however many SIGINTs, every variable stays in its type:
\* arraySize never reaches 0 (readPotentiometer makes 0 a 1), and the count never
\* exceeds the largest size asked for, though Sampler_setHistorySize shrinks the
\* array without a look at it.
THEOREM SamplerTyped == Spec => []TypeOK
<1>1. IInv => TypeOK
  <2> SUFFICES ASSUME IInv PROVE TypeOK
    OBVIOUS
  <2>1. DOMAIN pc = Threads /\ {recent, pStats, digits} \subseteq Pointers
    BY DEF IInv, ControlTyped, DataTyped
  <2>2. \A t \in {"main", "udp"} : \A i \in DOMAIN calls[t] : calls[t][i] \in RoutinePcs
    BY DEF IInv, ControlTyped, Callers
  <2>3. \A m \in {"history", "dip"} : mutex[m] \in Threads \cup {"free", "destroyed"}
    BY DEF IInv, ControlTyped
  <2> QED BY <2>1, <2>2, <2>3 DEF IInv, ControlTyped, DataTyped, TypeOK
<1> QED BY <1>1, Inductive, PTL

\* samplerThread stores a reading with no lock, and Sampler_shutdownRoutine frees the
\* array under one: the loop's flag and the sleep keep them apart all the same.
THEOREM StoresNeverFault == Spec => []StoresAreLive
<1>1. IInv => StoresAreLive
  BY DEF IInv, StoresAreLive, MemoryInv, ShutdownInv, FaultInv, LivePcs
<1> QED BY <1>1, Inductive, PTL

\* The sampler and the LED thread touch memory that is not theirs only after somebody
\* has called Sampler_shutdownRoutine.
THEOREM FaultsNeedAShutdown == Spec => []OnlyListenerFaults
<1>1. IInv => OnlyListenerFaults
  BY DEF IInv, OnlyListenerFaults, FaultInv, ShutDown
<1> QED BY <1>1, Inductive, PTL

\* A thread that is gone left no mutex locked, unless it is the sampler and
\* pthread_cancel ended it inside of its report.
THEOREM OrphansCancelled == Spec => []OrphansAreSamplers
<1>1. IInv => OrphansAreSamplers
  <2> SUFFICES ASSUME IInv, NEW m \in {"history", "dip"}, mutex[m] \in Threads, pc[mutex[m]] = "ended"
               PROVE  mutex[m] = "sampler" /\ "sampler" \in cancelled
    BY DEF OrphansAreSamplers
  <2>1. mutex[m] # "main"
    BY DEF IInv, ControlTyped, MainPcs
  <2>2. mutex[m] # "led"
    BY DEF IInv, HistoryInv, DipInv
  <2>3. mutex[m] # "udp"
    BY DEF IInv, HistoryInv, DipInv, Started
  <2>4. mutex[m] = "sampler"
    BY <2>1, <2>2, <2>3 DEF Threads
  <2> QED BY <2>4 DEF IInv, HistoryInv, DipInv, InHistory, InDip
<1> QED BY <1>1, Inductive, PTL

(***************************************************************************)
(* Who waits for whom.                                                     *)
(***************************************************************************)
LEMMA WaitingIs ==
    ASSUME NEW t, NEW m \in Waiting(t)
    PROVE  \/ m = "history" /\ InCall(t) /\ Frame(t) = "lock"
           \/ m = "history" /\ pc[t] \in {"resizeLock", "reportLock", "historyLock"}
           \/ m = "dip" /\ pc[t] \in {"dipLock", "reportDipLock"} /\ ~(InCall(t) /\ Frame(t) = "lock")
BY DEF Waiting

\* Only the listener and main make calls, the listener from its place "stop".
LEMMA CallersAre ==
    ASSUME IInv, NEW t, InCall(t)
    PROVE  t \in Callers /\ (t = "udp" => pc["udp"] = "stop" /\ Len(calls["udp"]) = 1)
BY DEF IInv, ControlTyped, Started, InCall

LEMMA DipHolderGoesOn ==
    ASSUME IInv, mutex["dip"] \in Threads
    PROVE  Waiting(mutex["dip"]) = {}
<1> DEFINE t == mutex["dip"]
<1>1. t # "main"
  BY DEF IInv, DipInv
<1>2. pc[t] \in InDip \cup {"ended"} /\ ~InCall(t)
  <2>1. t = "sampler" \/ t = "led" \/ t = "udp"
    BY <1>1 DEF Threads
  <2>2. pc[t] \in InDip \cup {"ended"} /\ (t = "udp" => pc["udp"] = "dipUnlock")
    BY <2>1 DEF IInv, DipInv, InDip
  <2> QED BY <1>1, <2>2, CallersAre DEF Callers
<1> QED BY <1>2, WaitingIs DEF InDip

LEMMA HistoryHolderHasIt ==
    ASSUME IInv, mutex["history"] \in Threads, "history" \in Waiting(mutex["history"])
    PROVE  mutex["history"] = "main" /\ Len(calls["main"]) > 1
<1> DEFINE t == mutex["history"]
<1>1. CASE InCall(t) /\ Frame(t) = "lock"
  <2>1. t \in Callers /\ Len(calls[t]) \in Nat \ {0} /\ calls[t][Len(calls[t])] = "lock"
    BY <1>1, CallersAre, InCallIs DEF IInv, Frame
  <2>2. \E i \in 1 .. Len(calls[t]) : calls[t][i] \in {"free", "unlock"}
    <3>1. t = "udp" => pc["udp"] = "stop"
      BY <1>1, CallersAre
    <3> QED BY <2>1, <3>1 DEF IInv, HistoryInv, Callers
  <2>3. Len(calls[t]) > 1
    BY <2>1, <2>2
  <2>4. t # "udp"
    <3>1. t = "udp" => Len(calls[t]) = 1
      BY <1>1, CallersAre
    <3>2. ~(1 > 1)
      OBVIOUS
    <3> QED BY <2>3, <3>1, <3>2, Zenon
  <2> QED BY <2>1, <2>3, <2>4 DEF Callers
<1>2. CASE ~(InCall(t) /\ Frame(t) = "lock")
  <2>1. pc[t] \in {"resizeLock", "reportLock", "historyLock"}
    BY <1>2, WaitingIs
  <2>2. t # "main" /\ t # "led" /\ t # "sampler"
    BY <2>1 DEF IInv, ControlTyped, MainPcs, HistoryInv, InHistory
  <2>3. t # "udp"
    <3>1. calls["udp"] = <<>> \/ pc["udp"] = "stop"
      BY DEF IInv, Started
    <3>2. calls["udp"] = <<>> => Len(calls["udp"]) = 0
      OBVIOUS
    <3> QED BY <2>1, <3>1, <3>2 DEF IInv, HistoryInv
  <2> QED BY <2>2, <2>3 DEF Threads
<1> QED BY <1>1, <1>2

\* The waits for historyMutex and dipMutex never close a circle, of one thread or
\* of several, but for main in the handler of a second SIGINT that came while the
\* first one's Sampler_shutdownRoutine had historyMutex.
THEOREM WaitsEnd == Spec => []NoCircularWait
<1>1. IInv => NoCircularWait
  <2> SUFFICES ASSUME IInv, NEW t \in Threads, NEW u \in Threads, NEW v \in Threads,
                      NEW m \in Waiting(t), mutex[m] = u, NEW k \in Waiting(u), mutex[k] = v
               PROVE  Waiting(v) = {} \/ (v = "main" /\ Len(calls["main"]) > 1)
    BY DEF NoCircularWait, WaitsFor
  <2>1. m \in {"history", "dip"} /\ k \in {"history", "dip"}
    BY WaitingIs
  <2>2. CASE k = "dip"
    BY <2>2, DipHolderGoesOn
  <2>3. CASE k = "history"
    <3>1. m # "dip"
      BY DipHolderGoesOn
    <3> QED BY <2>1, <2>3, <3>1, HistoryHolderHasIt
  <2> QED BY <2>1, <2>2, <2>3
<1> QED BY <1>1, Inductive, PTL
----------------------------------------------------------------------------
(***************************************************************************)
(* A mutex that nobody will unlock, as long as no SIGINT came.             *)
(***************************************************************************)
Orphaned(m) == mutex[m] \in Threads /\ pc[mutex[m]] = "ended"

\* Without a SIGINT only the listener shuts down, and has all but returned when
\* the sampler is cancelled.
StopInv ==
    signals = 0 =>
        /\ calls["main"] = <<>>
        /\ "sampler" \in cancelled => /\ pc["udp"] \in {"stop", "ended"}
                                      /\ \A i \in 1 .. Len(calls["udp"]) : calls["udp"][i] = "destroy"

LEMMA RoutinesStop ==
    ASSUME IInv, StopInv, Routines
    PROVE  StopInv'
<1> SUFFICES ASSUME signals = 0 PROVE StopInv'
  BY DEF Routines, Sampler_shutdownRoutine, ShutdownLock, ShutdownFree, ShutdownUnlock,
         led_shutdownRoutine, CancelSampler, ShutdownReturn, CallStep, StopInv, process
<1>1. PICK t \in Callers : Sampler_shutdownRoutine(t)
  BY DEF Routines, Callers
<1>2. InCall(t)
  BY <1>1 DEF Sampler_shutdownRoutine, ShutdownLock, ShutdownFree, ShutdownUnlock,
              led_shutdownRoutine, CancelSampler, ShutdownReturn, CallStep
<1>3. t = "udp" /\ pc["udp"] = "stop" /\ Len(calls["udp"]) = 1 /\ Frame("udp") = calls["udp"][1]
  BY <1>2, CallersAre DEF Callers, StopInv, InCall, Frame
<1>4. calls["main"] = <<>> /\ ("sampler" \in cancelled => Frame("udp") = "destroy")
  BY <1>3 DEF StopInv
<1>5. ASSUME NEW from, NEW to \in RoutinePcs, CallStep("udp", from, to), from # "destroy",
             cancelled' \subseteq cancelled \cup {"led"} \/ to = "destroy"
      PROVE  StopInv'
  <2>1. Len(calls'["udp"]) = 1 /\ calls'["udp"][1] = to /\ pc'["udp"] = "stop"
    BY <1>3, <1>5, CallGoesOn DEF CallStep, IInv, Callers
  <2>2. calls'["main"] = <<>>
    BY <1>4, <1>5 DEF CallStep, IInv, ControlTyped, Callers
  <2>3. "sampler" \in cancelled' => to = "destroy"
    BY <1>4, <1>5 DEF CallStep
  <2> QED BY <2>1, <2>2, <2>3 DEF StopInv
<1>6. CASE ShutdownReturn("udp")
  <2>1. Len(calls'["udp"]) = 0 /\ calls'["main"] = <<>>
    <3>1. /\ ControlTyped /\ "udp" \in Callers /\ "main" \in Callers /\ InCall("udp")
          /\ calls' = [calls EXCEPT !["udp"] = SubSeq(@, 1, Len(@) - 1)]
      BY <1>6 DEF ShutdownReturn, IInv, Callers
    <3>2. Len(calls'["udp"]) = Len(calls["udp"]) - 1 /\ calls'["main"] = calls["main"]
      BY <3>1, CallReturns
    <3> QED BY <1>3, <1>4, <3>2
  <2>2. pc'["udp"] = "stop"
    BY <1>3, <1>6 DEF ShutdownReturn
  <2> QED BY <2>1, <2>2 DEF StopInv
<1>7. CASE ShutdownLock("udp") \/ ShutdownFree("udp") \/ ShutdownUnlock("udp")
  BY <1>5, <1>7 DEF ShutdownLock, ShutdownFree, ShutdownUnlock, RoutinePcs
<1>8. CASE led_shutdownRoutine("udp") \/ CancelSampler("udp")
  BY <1>5, <1>8 DEF led_shutdownRoutine, CancelSampler, RoutinePcs
<1> QED BY <1>1, <1>3, <1>6, <1>7, <1>8 DEF Sampler_shutdownRoutine

\* The listener's own steps: it calls the routine before anyone is cancelled.
LEMMA UdpStops ==
    ASSUME IInv, StopInv, Receive \/ handleRequest
    PROVE  StopInv'
<1> DEFINE Goes(from, to) ==
      /\ UdpStep(from, to) /\ from # "ended" /\ (from = "stop" => to = "ended")
      /\ calls' = calls \/ (from = "recv" /\ calls' = [calls EXCEPT !["udp"] = Append(@, "lock")])
<1>1. PICK from \in UdpPcs, to \in UdpPcs : Goes(from, to)
  <2> USE DEF UdpPcs
  <2>1. CASE Receive
    <3>1. Goes("recv", "check") \/ Goes("recv", "historyLock") \/ Goes("recv", "dipLock") \/ Goes("recv", "stop")
      BY <2>1 DEF Receive, ReceiveGet, ReceiveHistory, ReceiveDips, ReceiveStop
    <3> QED BY <3>1
  <2>2. CASE GetCheck \/ GetCopy \/ sendNumList \/ UdpEnds
    <3>1. Goes("check", "send") \/ Goes("check", "copy") \/ Goes("copy", "send") \/ Goes("send", "recv")
          \/ Goes("stop", "ended")
      BY <2>2 DEF GetCheck, GetCopy, sendNumList, UdpEnds
    <3> QED BY <3>1
  <2>3. CASE Sampler_getHistory \/ Sampler_getNumDips
    <3>1. Goes("historyLock", "historyUnlock") \/ Goes("historyUnlock", "send")
          \/ Goes("dipLock", "dipUnlock") \/ Goes("dipUnlock", "recv")
      BY <2>3 DEF Sampler_getHistory, Sampler_getNumDips
    <3> QED BY <3>1
  <2> QED BY <2>1, <2>2, <2>3 DEF handleRequest
<1>2. pc["udp"] = from /\ pc'["udp"] = to /\ signals' = signals /\ cancelled' = cancelled
  BY <1>1 DEF UdpStep, Step, IInv, ControlTyped, UdpPcs, Threads, process
<1>3. calls'["main"] = calls["main"]
  BY <1>1 DEF IInv, ControlTyped, Callers
<1> QED BY <1>1, <1>2, <1>3 DEF StopInv

LEMMA StopStep ==
    ASSUME IInv, StopInv, [Next]_vars
    PROVE  StopInv'
<1>1. CASE Sigint
  <2>1. signals' # 0
    BY <1>1 DEF Sigint, IInv, ControlTyped
  <2> QED BY <2>1 DEF StopInv
<1>2. ASSUME UNCHANGED <<calls, cancelled, signals>>, pc'["udp"] = pc["udp"] \/ pc["udp"] = "none"
      PROVE  StopInv'
  BY <1>2 DEF StopInv
<1>3. CASE Faults
  BY <1>2, <1>3 DEF Faults, control
<1>4. CASE samplerThread
  <2>1. \E from, to : SamplerStep(from, to)
    <3>1. CASE SamplerRead \/ SamplerCancelled \/ SamplerSleep \/ SamplerLoop \/ Report
      BY <3>1 DEF SamplerRead, SamplerCancelled, SamplerSleep, SamplerLoop, Report, SamplerPlain
    <3>2. CASE SamplerStart \/ SamplerDip \/ Store \/ ReadPot \/ SamplerFails
      BY <3>2 DEF SamplerStart, SamplerDip, Store, ReadPot, SamplerFails
    <3>3. CASE ResizeLock \/ ResizeCopy \/ ResizeFree \/ ResizeAssign \/ ResizeUnlock
      BY <3>3 DEF ResizeLock, ResizeCopy, ResizeFree, ResizeAssign, ResizeUnlock
    <3> QED BY <1>4, <3>1, <3>2, <3>3 DEF samplerThread
  <2>2. UNCHANGED signals
    BY <1>4 DEF samplerThread, SamplerStart, SamplerLoop, SamplerRead, SamplerDip, Store, ReadPot,
         ResizeLock, ResizeCopy, ResizeFree, ResizeAssign, ResizeUnlock, Report, SamplerSleep,
         SamplerFails, SamplerCancelled, SamplerPlain, process
  <2> QED BY <1>2, <2>1, <2>2 DEF SamplerStep, Step, control, IInv, ControlTyped, Threads
<1>5. CASE ledThread
  <2>1. \E from, to : LedStep(from, to)
    BY <1>5 DEF ledThread, LedInit, LedFails, LedLoop, LedNumDips, displayNum, led_reset, LedCancelled
  <2> QED BY <1>2, <2>1 DEF LedStep, Step, control, IInv, ControlTyped, Threads
<1>6. CASE main
  <2>1. UNCHANGED <<calls, cancelled, signals>>
    BY <1>6 DEF main, Start, Join, MainStep, control
  <2>2. pc'["udp"] = pc["udp"] \/ pc["udp"] = "none"
    BY <1>6 DEF main, Start, Join, MainStep, IInv, ControlTyped, Started, Threads
  <2> QED BY <1>2, <2>1, <2>2
<1>7. CASE UNCHANGED vars
  BY <1>2, <1>7 DEF vars, control, process
<1> QED BY <1>1, <1>3, <1>4, <1>5, <1>6, <1>7, RoutinesStop, UdpStops DEF Next

\* The safety part of StopEndsOrStrands: without a SIGINT the LED thread alone can wait
\* for a mutex whose owner is gone, in the state LedStuck; by WaitsEnd every other wait
\* ends at a thread that is there and waits for no mutex.
THEOREM OnlyLedStranded ==
    Spec => [](signals = 0 => \A t \in Threads : \A m \in Waiting(t) :
                   Orphaned(m) => t = "led" /\ m = "dip" /\ LedStuck)
<1>1. Init => StopInv
  BY DEF Init, StopInv
<1>2. IInv /\ StopInv /\ [Next]_vars => StopInv'
  BY StopStep
<1>3. ASSUME IInv, StopInv, OrphansAreSamplers, signals = 0, NEW t \in Threads, NEW m \in Waiting(t), Orphaned(m)
      PROVE  t = "led" /\ m = "dip" /\ LedStuck
  <2>1. mutex[m] = "sampler" /\ "sampler" \in cancelled /\ pc["sampler"] = "ended"
    BY <1>3, WaitingIs DEF OrphansAreSamplers, Orphaned
  <2>2. pc["udp"] \in {"stop", "ended"} /\ \A i \in 1 .. Len(calls["udp"]) : calls["udp"][i] = "destroy"
    BY <1>3, <2>1 DEF StopInv
  <2>3. ~(InCall(t) /\ Frame(t) = "lock")
    <3>1. ASSUME InCall(t) PROVE t = "udp" /\ Frame(t) = calls["udp"][1] /\ Len(calls["udp"]) = 1
      BY <1>3, <3>1, CallersAre DEF StopInv, InCall, Callers, Frame
    <3> QED BY <2>2, <3>1
  <2>4. pc[t] \in {"resizeLock", "reportLock", "historyLock", "dipLock", "reportDipLock"}
    BY <2>3, WaitingIs
  <2>5. t = "led"
    BY <1>3, <2>1, <2>2, <2>4 DEF IInv, ControlTyped, MainPcs, Threads
  <2>6. pc["led"] = "dipLock" /\ m = "dip"
    BY <1>3, <2>3, <2>4, <2>5, WaitingIs DEF IInv, ControlTyped, LedPcs
  <2> QED BY <2>1, <2>5, <2>6 DEF LedStuck
<1>4. IInv /\ StopInv /\ OrphansAreSamplers =>
        (signals = 0 => \A t \in Threads : \A m \in Waiting(t) : Orphaned(m) => t = "led" /\ m = "dip" /\ LedStuck)
  BY <1>3
<1> QED BY <1>1, <1>2, <1>4, Inductive, OrphansCancelled, PTL DEF Spec
=============================================================================
