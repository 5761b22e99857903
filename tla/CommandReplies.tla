-------------------------- MODULE CommandReplies --------------------------
(***************************************************************************)
(* What a session promises on its control connection, whatever goes on     *)
(* inside it: every command it has read is answered, once, in the order    *)
(* read, for as long as the connection is up.                              *)
(***************************************************************************)
EXTENDS Naturals, Sequences

CONSTANT Commands  \* the commands, each issued once

VARIABLES
  heard,    \* the commands read, in order
  answers,  \* how many answers each command has got
  up        \* the connection has not been lost

replyVars == <<heard, answers, up>>

Init ==
  /\ heard = <<>>
  /\ answers = [c \in Commands |-> 0]
  /\ up = TRUE

(* No command is read twice. *)
Hear ==
  /\ \E c \in Commands :
       /\ \A i \in DOMAIN heard : heard[i] # c
       /\ heard' = Append(heard, c)
  /\ UNCHANGED <<answers, up>>

(* The first command that has no answer gets one. *)
Answer ==
  /\ \E i \in DOMAIN heard :
       /\ answers[heard[i]] = 0
       /\ \A j \in 1 .. i - 1 : answers[heard[j]] = 1
       /\ answers' = [answers EXCEPT ![heard[i]] = 1]
  /\ UNCHANGED <<heard, up>>

Lose ==
  /\ up' = FALSE
  /\ UNCHANGED <<heard, answers>>

Next == Hear \/ Answer \/ Lose

Safety == Init /\ [][Next]_replyVars

(* What is owed is paid while the connection lasts. *)
Fairness == WF_replyVars(up /\ Answer)

Spec == Safety /\ Fairness

=============================================================================
