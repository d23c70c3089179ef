------------------------------- MODULE Answers -------------------------------
(***************************************************************************)
(* What the relay promises the page: every command is answered once, by    *)
(* the program's reply to that very command or by an error, and answers    *)
(* arrive in the order in which they were given.                           *)
(***************************************************************************)
EXTENDS Sequences

CONSTANTS Slots, Commands, Values, Error

VARIABLES
    asked,    \* slot -> the command in it, or "none"
    answers   \* on the way to the page

vars == <<asked, answers>>

Init == asked = [s \in Slots |-> "none"] /\ answers = <<>>

Ask(s) ==
    /\ asked[s] = "none" /\ \E c \in Commands : asked' = [asked EXCEPT ![s] = c]
    /\ UNCHANGED answers

Answer(s) ==
    /\ asked[s] # "none" /\ asked' = [asked EXCEPT ![s] = "none"]
    /\ \E a \in {Error} \cup {[command |-> asked[s], volume |-> v] : v \in Values} :
         answers' = Append(answers, a)

Deliver == answers # <<>> /\ answers' = Tail(answers) /\ UNCHANGED asked

Next == Deliver \/ \E s \in Slots : Ask(s) \/ Answer(s)

Spec == Init /\ [][Next]_vars /\ WF_vars(Deliver) /\ \A s \in Slots : WF_vars(Answer(s))
============================================================================
