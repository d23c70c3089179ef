--------------------------- MODULE UdpRelayProofs ---------------------------
(***************************************************************************)
(* Types of the relay, and that every step of page, relay and program is   *)
(* one of Answers or changes nothing there, for every set of slots and     *)
(* every maximum of the volume.                                            *)
(***************************************************************************)
EXTENDS UdpRelay, FiniteSetTheorems, TLAPS

\* Slots with a command that waits for its answer.
Waiting == {s \in Slots : client[s] # "idle"}

\* The counterpart of Calm: answers and commands under way share the bound.
Bound == Len(commandReply) + Cardinality(Waiting) < 2 * Cardinality(Slots)

\* A slot in use has a command.
Busy == \A s \in Slots : client[s] # "idle" \/ datagram[s] # None => command[s] # "none"

Typed ==
    /\ running \in BOOLEAN /\ volume \in Volumes
    /\ command \in [Slots -> Commands \cup {"none"}] /\ client \in [Slots -> {"idle", "asked", "open"}]
    /\ datagram \in [Slots -> Volumes \cup {None, Request}]
    /\ commandReply \in Seq(Replies)
    /\ shown \in Volumes \cup {Unknown} /\ errorBox \in BOOLEAN

IInv == Typed /\ Busy /\ Bound

LEMMA Numbers ==
  /\ MaxVolume \in Nat /\ Default \in Volumes /\ Volumes \subseteq Nat
  /\ None \notin Volumes /\ Request \notin Volumes /\ None # Request
BY RelayAssumption DEF RelayAssumption, Volumes, None, Request

LEMMA SlotsFinite == Cardinality(Slots) \in Nat \ {0}
BY RelayAssumption, FS_CardinalityType, FS_EmptySet DEF RelayAssumption

LEMMA WaitingFinite ==
  /\ IsFiniteSet(Waiting) /\ Cardinality(Waiting) \in Nat
  /\ Cardinality(Waiting) <= Cardinality(Slots)
BY RelayAssumption, FS_Subset, FS_CardinalityType DEF RelayAssumption, Waiting

LEMMA InitIInv == Init => IInv
<1> SUFFICES ASSUME Init PROVE IInv
  OBVIOUS
<1>1. Typed
  <2>1. commandReply \in Seq(Replies)
    BY DEF Init
  <2>2. command \in [Slots -> Commands \cup {"none"}] /\ client \in [Slots -> {"idle", "asked", "open"}]
    BY DEF Init
  <2>3. datagram \in [Slots -> Volumes \cup {None, Request}]
    BY DEF Init
  <2>4. volume \in Volumes /\ shown \in Volumes \cup {Unknown}
    BY Numbers DEF Init
  <2> QED BY <2>1, <2>2, <2>3, <2>4 DEF Init, Typed
<1>2. Busy
  BY DEF Init, Busy
<1>3. Bound
  <2>1. Waiting = {}
    BY DEF Init, Waiting
  <2>2. Cardinality(Waiting) = 0 /\ Len(commandReply) = 0
    BY <2>1, FS_EmptySet DEF Init
  <2> QED BY <2>2, SlotsFinite DEF Bound
<1> QED BY <1>1, <1>2, <1>3 DEF IInv

\* The steps that keep answers and waiting commands keep the bound.
LEMMA BoundKept ==
  ASSUME Bound, UNCHANGED <<client, commandReply>>
  PROVE  Bound'
BY DEF Bound, Waiting

\* An answer takes the place of its command.
LEMMA AnswerKeeps ==
  ASSUME Typed, Bound, NEW s \in Slots, NEW r \in Replies, client[s] # "idle",
         client' = [client EXCEPT ![s] = "idle"], Emit(r)
  PROVE  Bound' /\ commandReply' \in Seq(Replies)
<1>1. commandReply' \in Seq(Replies) /\ Len(commandReply') = Len(commandReply) + 1
  BY DEF Emit, Typed
<1>2. Waiting' = Waiting \ {s} /\ s \in Waiting
  BY DEF Waiting, Typed
<1>3. Cardinality(Waiting') = Cardinality(Waiting) - 1
  BY <1>2, WaitingFinite, FS_RemoveElement
<1>4. Len(commandReply) \in Nat
  BY DEF Typed
<1> QED BY <1>1, <1>3, <1>4, WaitingFinite, SlotsFinite DEF Bound

LEMMA SendStep ==
  ASSUME IInv, NEW s \in Slots, NEW c \in Commands, sendCommandViaUDP(s, c)
  PROVE  IInv'
<1> USE DEF sendCommandViaUDP, program, page
<1>1. Typed'
  BY DEF IInv, Typed
<1>2. Busy'
  BY DEF IInv, Typed, Busy, Commands
<1>3. Bound'
  <2>1. IsFiniteSet(Waiting') /\ Cardinality(Waiting') \in Nat /\ Cardinality(Waiting') <= Cardinality(Slots)
    BY RelayAssumption, FS_Subset, FS_CardinalityType DEF RelayAssumption, Waiting
  <2>2. Len(commandReply') < Cardinality(Slots) /\ Len(commandReply') \in Nat
    BY DEF Calm, IInv, Typed
  <2> QED BY <2>1, <2>2, SlotsFinite DEF Bound
<1> QED BY <1>1, <1>2, <1>3 DEF IInv

LEMMA ReceiveStep ==
  ASSUME IInv, Receive
  PROVE  IInv'
<1>1. Head(commandReply) \in Replies /\ Tail(commandReply) \in Seq(Replies)
      /\ Len(commandReply') = Len(commandReply) - 1 /\ Len(commandReply) \in Nat
  BY DEF IInv, Typed, Receive
<1>2. Head(commandReply).volume \in Volumes
  BY <1>1 DEF Replies
<1>3. Typed'
  BY <1>1, <1>2 DEF Receive, IInv, Typed, program
<1>4. Busy'
  BY DEF Receive, IInv, Busy
<1>5. Bound'
  <2>1. Waiting' = Waiting
    BY DEF Receive, Waiting
  <2> QED BY <2>1, <1>1, WaitingFinite, SlotsFinite DEF Bound, IInv
<1> QED BY <1>3, <1>4, <1>5 DEF IInv

LEMMA RelayStep ==
  ASSUME IInv, NEW s \in Slots, OnCommand(s) \/ OnMessage(s) \/ OnTimeout(s) \/ Vanish(s)
  PROVE  IInv'
<1>1. CASE OnCommand(s)
  <2>1. Waiting' = Waiting /\ commandReply' = commandReply
    BY <1>1 DEF OnCommand, Waiting, IInv, Typed
  <2>2. Typed' /\ Busy'
    BY <1>1 DEF OnCommand, IInv, Typed, Busy, program, page
  <2> QED BY <2>1, <2>2 DEF IInv, Bound
<1>2. CASE OnMessage(s)
  <2> DEFINE r == [command |-> command[s], volume |-> datagram[s]]
  <2>1. r \in Replies /\ client[s] # "idle" /\ client' = [client EXCEPT ![s] = "idle"] /\ Emit(r)
    BY <1>2 DEF OnMessage, IInv, Typed, Busy, Replies
  <2>2. Bound' /\ commandReply' \in Seq(Replies)
    BY <2>1, AnswerKeeps DEF IInv
  <2>3. Typed' /\ Busy'
    BY <1>2, <2>2 DEF OnMessage, Release, IInv, Typed, Busy, program, page
  <2> QED BY <2>2, <2>3 DEF IInv
<1>3. CASE OnTimeout(s)
  <2>1. Error \in Replies
    BY RelayAssumption DEF RelayAssumption, Error, Replies, Volumes
  <2>2. Bound' /\ commandReply' \in Seq(Replies)
    BY <1>3, <2>1, AnswerKeeps DEF OnTimeout, IInv
  <2>3. Typed' /\ Busy'
    BY <1>3, <2>2 DEF OnTimeout, Release, IInv, Typed, Busy, program, page
  <2> QED BY <2>2, <2>3 DEF IInv
<1>4. CASE Vanish(s)
  <2>1. Typed' /\ Busy'
    BY <1>4 DEF Vanish, Release, IInv, Typed, Busy, program, page
  <2> QED BY <1>4, <2>1, BoundKept DEF Vanish, IInv
<1> QED BY <1>1, <1>2, <1>3, <1>4

LEMMA ProgramStep ==
  ASSUME IInv, (\E s \in Slots : handleRequest(s)) \/ Joystick \/ Start \/ UNCHANGED vars
  PROVE  IInv'
<1>1. ASSUME NEW s \in Slots, handleRequest(s) PROVE IInv'
  <2>1. volume' \in Volumes
    BY <1>1, Numbers DEF handleRequest, Raised, Volumes, IInv, Typed
  <2>2. Typed'
    BY <1>1, <2>1 DEF handleRequest, IInv, Typed, page
  <2>3. Busy'
    BY <1>1, Numbers DEF handleRequest, IInv, Typed, Busy
  <2> QED BY <1>1, <2>2, <2>3, BoundKept DEF handleRequest, IInv
<1>2. CASE Joystick
  BY <1>2, BoundKept DEF Joystick, IInv, Typed, Busy, page
<1>3. CASE Start
  BY <1>3, BoundKept DEF Start, IInv, Typed, Busy, page
<1>4. CASE UNCHANGED vars
  BY <1>4, BoundKept DEF vars, program, page, IInv, Typed, Busy
<1> QED BY <1>1, <1>2, <1>3, <1>4

LEMMA NextStep == IInv /\ [Next]_vars => IInv'
<1> SUFFICES ASSUME IInv, [Next]_vars PROVE IInv'
  OBVIOUS
<1>1. CASE Poll \/ Click
  BY <1>1, SendStep DEF Poll, Click, Commands
<1>2. CASE Receive
  BY <1>2, ReceiveStep
<1>3. CASE \E s \in Slots : OnCommand(s) \/ OnMessage(s) \/ Trouble(s)
  BY <1>3, RelayStep DEF Trouble, handleRequestFails
<1>4. CASE (\E s \in Slots : handleRequest(s)) \/ Joystick \/ Start \/ UNCHANGED vars
  BY <1>4, ProgramStep
<1> QED BY <1>1, <1>2, <1>3, <1>4 DEF Next

LEMMA Inductive == Spec => []IInv
BY InitIInv, NextStep, PTL DEF Spec

\* Types for every set of slots; the queue of answers is bounded by the commands
\* under way and holds only what the page can show (udp_server.js:41-56).
THEOREM RelayTyped == Spec => []TypeOK
<1>1. IInv => TypeOK
  <2> SUFFICES ASSUME IInv PROVE TypeOK
    OBVIOUS
  <2>1. Len(commandReply) < 2 * Cardinality(Slots)
    <3>1. Len(commandReply) \in Nat
      BY DEF IInv, Typed
    <3> QED BY <3>1, WaitingFinite, SlotsFinite DEF IInv, Bound
  <2> QED BY <2>1 DEF IInv, Typed, TypeOK
<1> QED BY <1>1, Inductive, PTL
----------------------------------------------------------------------------
\* What Answers sees of a slot.
asked == [s \in Slots |-> IF client[s] = "idle" THEN "none" ELSE command[s]]

\* What changes neither asked nor the answers is a stutter.
LEMMA Stutters ==
  ASSUME asked' = asked, commandReply' = commandReply
  PROVE  UNCHANGED A!vars
BY DEF A!vars, asked

LEMMA SendMaps ==
  ASSUME IInv, NEW s \in Slots, NEW c \in Commands, sendCommandViaUDP(s, c)
  PROVE  A!Next
<1>1. client[s] = "idle"
  BY DEF sendCommandViaUDP, IInv, Typed, Busy
<1>2. asked[s] = "none" /\ asked' = [asked EXCEPT ![s] = c]
  BY <1>1 DEF asked, sendCommandViaUDP, IInv, Typed
<1>3. A!Ask(s)
  BY <1>2 DEF A!Ask, asked, sendCommandViaUDP
<1> QED BY <1>3 DEF A!Next

LEMMA AnswerMaps ==
  ASSUME IInv, NEW s \in Slots, client[s] = "open",
         client' = [client EXCEPT ![s] = "idle"], Release(s),
         NEW r \in {Error} \cup {[command |-> command[s], volume |-> v] : v \in Volumes}, Emit(r)
  PROVE  A!Next
<1>1. asked[s] = command[s] /\ asked[s] # "none"
  BY DEF asked, IInv, Typed, Busy
<1>2. asked' = [asked EXCEPT ![s] = "none"]
  BY DEF asked, Release, IInv, Typed
<1>3. A!Answer(s)
  BY <1>1, <1>2 DEF A!Answer, asked, Emit
<1> QED BY <1>3 DEF A!Next

LEMMA StepMaps == IInv /\ [Next]_vars => [A!Next]_(A!vars)
<1> SUFFICES ASSUME IInv, [Next]_vars PROVE [A!Next]_(A!vars)
  OBVIOUS
<1>1. CASE Poll \/ Click
  BY <1>1, SendMaps DEF Poll, Click, Commands
<1>2. CASE Receive
  <2>1. A!Deliver
    BY <1>2 DEF Receive, A!Deliver
  <2> QED BY <2>1 DEF A!Next
<1>3. ASSUME NEW s \in Slots, OnMessage(s) PROVE [A!Next]_(A!vars)
  BY <1>3, AnswerMaps DEF OnMessage
<1>4. ASSUME NEW s \in Slots, OnTimeout(s) PROVE [A!Next]_(A!vars)
  BY <1>4, AnswerMaps DEF OnTimeout
<1>5. ASSUME NEW s \in Slots, OnCommand(s) PROVE [A!Next]_(A!vars)
  <2>1. asked' = asked /\ commandReply' = commandReply
    BY <1>5 DEF OnCommand, asked, IInv, Typed
  <2> QED BY <2>1, Stutters
<1>6. ASSUME NEW s \in Slots, Vanish(s) PROVE [A!Next]_(A!vars)
  <2>1. asked' = asked /\ commandReply' = commandReply
    BY <1>6 DEF Vanish, Release, asked, IInv, Typed
  <2> QED BY <2>1, Stutters
<1>7. ASSUME (\E s \in Slots : handleRequest(s)) \/ Joystick \/ Start \/ UNCHANGED vars
      PROVE  [A!Next]_(A!vars)
  <2>1. asked' = asked /\ commandReply' = commandReply
    BY <1>7 DEF handleRequest, Joystick, Start, vars, asked
  <2> QED BY <2>1, Stutters
<1> QED BY <1>1, <1>2, <1>3, <1>4, <1>5, <1>6, <1>7 DEF Next, Trouble, handleRequestFails

\* Whatever is lost, late or reordered, each command is answered once, by its own
\* reply or an error, in any number of slots (udp_server.js:41-56); that it is
\* answered at all is liveness and left to the run.
THEOREM AnswersAtMostOnce == Spec => A!Init /\ [][A!Next]_(A!vars)
<1>1. Init => A!Init
  BY DEF Init, A!Init
<1> QED BY <1>1, StepMaps, Inductive, PTL DEF Spec
============================================================================
