---------------------------- MODULE DataStream ----------------------------
(***************************************************************************)
(* What RETR, LIST and NLST promise, whatever goes on inside the session:  *)
(* a transfer hands its peer all its chunks, in order, and is answered     *)
(* once, with 226 when it has handed over everything, or with the code of  *)
(* an error when it has handed over nothing.                               *)
(***************************************************************************)
EXTENDS Naturals, Sequences

CONSTANTS
  Transfers,  \* the transfer commands of a session
  Content     \* the chunks each of them has to send, in order

VARIABLES
  sent,    \* what each transfer has handed to its data connection
  finals   \* the final replies each transfer has been answered with

Init ==
  /\ sent = [t \in Transfers |-> <<>>]
  /\ finals = [t \in Transfers |-> <<>>]

Send(t) ==
  /\ finals[t] = <<>>
  /\ Len(sent[t]) < Len(Content[t])
  /\ sent' = [sent EXCEPT ![t] = Append(@, Content[t][Len(@) + 1])]
  /\ UNCHANGED finals

Complete(t) ==
  /\ finals[t] = <<>>
  /\ sent[t] = Content[t]
  /\ finals' = [finals EXCEPT ![t] = <<226>>]
  /\ UNCHANGED sent

Fail(t) ==
  /\ finals[t] = <<>>
  /\ sent[t] = <<>>
  /\ \E code \in {425, 426, 450, 451} : finals' = [finals EXCEPT ![t] = <<code>>]
  /\ UNCHANGED sent

Next == \E t \in Transfers : Send(t) \/ Complete(t) \/ Fail(t)

Spec == Init /\ [][Next]_<<sent, finals>>

=============================================================================
