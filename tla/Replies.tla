------------------------------- MODULE Replies -------------------------------
(***************************************************************************)
(* What the client wrapper promises about the answers to the messages of   *)
(* the engine, whatever threads the application answers on: a method call  *)
(* is answered at most once, a call that was dropped is never answered     *)
(* any more, and nothing is answered when the engine is gone, although     *)
(* both may happen at the same time.  Only the reply of a basic message    *)
(* can be kept and used again.  Channels implements this specification.    *)
(***************************************************************************)
EXTENDS Naturals

CONSTANT Calls          \* messages the engine sends

VARIABLES
    running,            \* the engine runs
    life,               \* of a call: "unsent"; to be answered "once" or
                        \*   "often"; "answered" or "dropped"
    answers             \* of a call: the responses it got

vars == <<running, life, answers>>

Init ==
    /\ running = TRUE
    /\ life = [c \in Calls |-> "unsent"]
    /\ answers = [c \in Calls |-> 0]

\* The life of a call that waits for an answer.
Open == {"once", "often"}

Send(c) ==
    /\ running /\ life[c] = "unsent"
    /\ \E l \in Open : life' = [life EXCEPT ![c] = l]
    /\ UNCHANGED <<running, answers>>

\* The question whether the engine runs and the response are one step.
Answer(c) ==
    /\ running /\ life[c] \in Open
    /\ life' = [life EXCEPT ![c] = IF @ = "once" THEN "answered" ELSE @]
    /\ answers' = [answers EXCEPT ![c] = @ + 1]
    /\ UNCHANGED running

\* Also by an answer that comes too late.
Abandon(c) ==
    /\ life[c] \in Open
    /\ life' = [life EXCEPT ![c] = "dropped"]
    /\ UNCHANGED <<running, answers>>

Stop ==
    /\ running /\ running' = FALSE
    /\ UNCHANGED <<life, answers>>

Next == Stop \/ \E c \in Calls : Send(c) \/ Answer(c) \/ Abandon(c)

Spec == Init /\ [][Next]_vars
=============================================================================
