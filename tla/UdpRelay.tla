------------------------------ MODULE UdpRelay ------------------------------
(***************************************************************************)
(* The beat-box in a browser: the page (udp_ui.js), the relay in node      *)
(* (udp_server.js) and the listener of the program (udpListener.c).  The   *)
(* page sends a command over a web socket, the relay opens a UDP socket    *)
(* for it and starts a timer; it passes on the reply, or an error when the *)
(* timer ends first, and closes the socket.  Datagrams may be lost,        *)
(* delayed and reordered; the program may end and be started again.        *)
(*                                                                         *)
(* Of the settings the volume is modelled: its replies set what the page   *)
(* shows at once, as does the answer to the poll of once a second.  A      *)
(* slot is a command with its UDP socket, used again when its datagrams    *)
(* are gone.                                                               *)
(***************************************************************************)
EXTENDS Integers, Sequences, FiniteSets

CONSTANTS
    Slots,       \* commands under way at a time
    MaxVolume,
    Default      \* volume of a program just started

ASSUME RelayAssumption ==
    IsFiniteSet(Slots) /\ Slots # {} /\ MaxVolume \in Nat /\ Default \in 0 .. MaxVolume

Volumes == 0 .. MaxVolume
Commands == {"getUpdates", "volumeUp", "terminate"}

VARIABLES
    running, volume,   \* the program
    command,           \* slot -> what the page asked; "none" in a free slot
    client,            \* slot -> "idle", "asked" (not at the relay yet), "open" (socket and timer)
    datagram,          \* slot -> None, Request, or the volume a reply carries
    commandReply,      \* on the way to the page
    shown, errorBox    \* on the page

program == <<running, volume>>
page == <<shown, errorBox>>
vars == <<program, command, client, datagram, commandReply, page>>

Error == [command |-> "Error", volume |-> 0]
Unknown == -1   \* "???"
None == -1
Request == -2
Replies == [command : Commands \cup {"Error"}, volume : Volumes]

Init ==
    /\ running \in BOOLEAN /\ volume = Default
    /\ command = [s \in Slots |-> "none"]
    /\ client = [s \in Slots |-> "idle"] /\ datagram = [s \in Slots |-> None]
    /\ commandReply = <<>>
    /\ shown = Unknown /\ errorBox = FALSE
----------------------------------------------------------------------------
(***************************************************************************)
(* The page                                                                *)
(***************************************************************************)
\* The model sends no more commands while this many answers are on the way.
Calm == Len(commandReply) < Cardinality(Slots)

sendCommandViaUDP(s, c) ==
    /\ Calm /\ command[s] = "none"
    /\ client' = [client EXCEPT ![s] = "asked"] /\ command' = [command EXCEPT ![s] = c]
    /\ UNCHANGED <<program, datagram, commandReply, page>>

Poll == \E s \in Slots : sendCommandViaUDP(s, "getUpdates")
Click == \E s \in Slots, c \in Commands \ {"getUpdates"} : sendCommandViaUDP(s, c)

\* Mutant: the error stays on the page.
ReceiveKeepsError ==
    /\ commandReply # <<>> /\ commandReply' = Tail(commandReply)
    /\ LET r == Head(commandReply)
       IN /\ shown' = (IF r.command \in {"getUpdates", "volumeUp"} THEN r.volume ELSE shown)
          /\ errorBox' = (r = Error \/ errorBox)
    /\ UNCHANGED <<program, command, client, datagram>>

Receive ==
    /\ commandReply # <<>> /\ commandReply' = Tail(commandReply)
    /\ LET r == Head(commandReply)
       IN /\ shown' = (IF r.command \in {"getUpdates", "volumeUp"} THEN r.volume ELSE shown)
          /\ errorBox' = (r = Error \/ (errorBox /\ r.command # "getUpdates"))
    /\ UNCHANGED <<program, command, client, datagram>>
----------------------------------------------------------------------------
(***************************************************************************)
(* The relay                                                               *)
(***************************************************************************)
\* A slot whose command is answered and whose datagrams are gone is free.
Release(s) ==
    command' = [command EXCEPT ![s] =
                  IF client'[s] = "idle" /\ datagram'[s] = None THEN "none" ELSE @]

Emit(r) == commandReply' = Append(commandReply, r)

OnCommand(s) ==
    /\ client[s] = "asked" /\ client' = [client EXCEPT ![s] = "open"]
    /\ datagram' = [datagram EXCEPT ![s] = Request]
    /\ UNCHANGED <<program, command, commandReply, page>>

\* Mutant: the timer is not cleared, nor the socket closed.
OnMessageKeepsTimer(s) ==
    /\ client[s] = "open" /\ datagram[s] \in Volumes
    /\ Emit([command |-> command[s], volume |-> datagram[s]])
    /\ datagram' = [datagram EXCEPT ![s] = None]
    /\ UNCHANGED <<program, command, client, page>>

OnMessage(s) ==
    /\ client[s] = "open" /\ datagram[s] \in Volumes
    /\ Emit([command |-> command[s], volume |-> datagram[s]])
    /\ client' = [client EXCEPT ![s] = "idle"] /\ datagram' = [datagram EXCEPT ![s] = None]
    /\ Release(s) /\ UNCHANGED <<program, page>>

OnTimeout(s) ==
    /\ client[s] = "open" /\ Emit(Error)
    /\ client' = [client EXCEPT ![s] = "idle"] /\ UNCHANGED datagram
    /\ Release(s) /\ UNCHANGED <<program, page>>

\* Lost, or for a socket that is closed: a reply too late, or no program.
Vanish(s) ==
    /\ datagram[s] # None /\ datagram' = [datagram EXCEPT ![s] = None]
    /\ UNCHANGED client
    /\ Release(s) /\ UNCHANGED <<program, commandReply, page>>
----------------------------------------------------------------------------
(***************************************************************************)
(* The program: handleRequest, in the order the requests arrive; the       *)
(* joystick; the end by terminate, and a new start.                        *)
(***************************************************************************)
Raised == IF volume < MaxVolume THEN volume + 1 ELSE volume

handleRequest(s) ==
    /\ running /\ datagram[s] = Request
    /\ volume' = (CASE command[s] = "volumeUp" -> Raised
                   [] command[s] = "terminate" -> Default [] OTHER -> volume)
    /\ running' = (command[s] # "terminate")
    /\ datagram' = [datagram EXCEPT ![s] = volume']
    /\ UNCHANGED <<command, client, commandReply, page>>

\* "Error: could not open uptime file": no reply.
handleRequestFails(s) ==
    /\ running /\ command[s] = "getUpdates" /\ datagram[s] = Request
    /\ Vanish(s)

Joystick ==
    /\ running /\ volume' \in Volumes \ {volume}
    /\ UNCHANGED <<running, command, client, datagram, commandReply, page>>

Start ==
    /\ ~running /\ running' = TRUE
    /\ UNCHANGED <<volume, command, client, datagram, commandReply, page>>
----------------------------------------------------------------------------
Trouble(s) == OnTimeout(s) \/ Vanish(s) \/ handleRequestFails(s)

Next ==
    \/ Poll \/ Click \/ Receive \/ Joystick \/ Start
    \/ \E s \in Slots : OnCommand(s) \/ OnMessage(s) \/ handleRequest(s) \/ Trouble(s)

Spec == Init /\ [][Next]_vars

\* setInterval and setTimeout run; what arrived is handled.  A poll finds a
\* socket now and then, however many commands the user gives.
FairSpec ==
    /\ Spec /\ SF_vars(Poll) /\ WF_vars(Receive)
    /\ \A s \in Slots : /\ WF_vars(OnCommand(s)) /\ WF_vars(OnMessage(s) \/ OnTimeout(s))
                        /\ WF_vars(handleRequest(s) \/ Vanish(s))
----------------------------------------------------------------------------
\* Types; the queue to the page is bounded by the commands under way, and what is
\* in it can be shown.
TypeOK ==
    /\ running \in BOOLEAN /\ volume \in Volumes
    /\ command \in [Slots -> Commands \cup {"none"}] /\ client \in [Slots -> {"idle", "asked", "open"}]
    /\ datagram \in [Slots -> Volumes \cup {None, Request}]
    /\ commandReply \in Seq(Replies) /\ Len(commandReply) < 2 * Cardinality(Slots)
    /\ shown \in Volumes \cup {Unknown} /\ errorBox \in BOOLEAN

\* Reply and timer race for every command (udp_server.js:41-56): exactly one
\* of them answers, a reply answers the command it was sent for, and every
\* command is answered.
A == INSTANCE Answers WITH
       Values <- Volumes, answers <- commandReply,
       asked <- [s \in Slots |-> IF client[s] = "idle" THEN "none" ELSE command[s]]
AnsweredOnce == A!Spec

\* Whatever went wrong before, and in whatever order late replies come in: once
\* the program stays up, nobody changes the volume and polls get through, the
\* page shows the program's volume and no error (udp_ui.js:57-74).
Settled ==
    /\ running /\ running' /\ volume' = volume
    /\ ~\E s \in Slots : OnTimeout(s) \/ handleRequestFails(s) \/ Vanish(s)
PageCatchesUp == <>[][Settled]_vars /\ <>[]running => <>[](shown = volume /\ ~errorBox)
============================================================================
