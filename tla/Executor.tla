------------------------------ MODULE Executor ------------------------------
(***************************************************************************)
(* What an io_context promises to whoever posts functions to its executor  *)
(* and starts operations on its sockets: each completion handler runs      *)
(* once, on one of the threads in run(), and none is forgotten.            *)
(***************************************************************************)
EXTENDS FiniteSets

CONSTANT Handlers  \* the functions and completion handlers

VARIABLES
  due,      \* posted, or completed by the reactor, and not begun
  current,  \* running
  done      \* finished

Init ==
  /\ due \in SUBSET Handlers
  /\ current = {}
  /\ done = {}

(* A function is posted, or an operation completes; closing a socket       *)
(* completes all that wait on it.                                          *)
Complete ==
  /\ \E more \in SUBSET (Handlers \ (due \cup current \cup done)) :
       due' = due \cup more
  /\ UNCHANGED <<current, done>>

Begin ==
  /\ \E h \in due :
       /\ due' = due \ {h}
       /\ current' = current \cup {h}
  /\ UNCHANGED done

End ==
  /\ \E h \in current :
       /\ current' = current \ {h}
       /\ done' = done \cup {h}
  /\ UNCHANGED due

Next == Complete \/ Begin \/ End

vars == <<due, current, done>>

Safety == Init /\ [][Next]_vars

Spec == Safety /\ WF_vars(Begin) /\ WF_vars(End)

=============================================================================
