---------------------------- MODULE StrandQueue ----------------------------
(***************************************************************************)
(* What a strand promises: the handlers submitted to it run one at a time, *)
(* on whatever threads, in the order submitted, and all of them.  Only a   *)
(* handler dispatched by one that runs in the strand runs at once, inside  *)
(* its caller.  A thread in a handler may be given one of another strand.  *)
(***************************************************************************)
EXTENDS Naturals, Sequences

CONSTANTS Threads, Strands, Handlers, StrandOf

VARIABLES
  fresh,    \* the handlers not submitted yet
  pending,  \* the handlers of each strand, in order
  calls     \* the handlers each thread is in, the innermost last

queueVars == <<fresh, pending, calls>>

Init ==
  /\ fresh = Handlers
  /\ pending = [s \in Strands |-> <<>>]
  /\ calls = [t \in Threads |-> <<>>]

IsIn(t, s) == \E i \in DOMAIN calls[t] : StrandOf[calls[t][i]] = s

Submit(h) ==
  /\ h \in fresh
  /\ fresh' = fresh \ {h}
  /\ pending' = [pending EXCEPT ![StrandOf[h]] = Append(@, h)]
  /\ UNCHANGED calls

Start(t, s) ==
  /\ pending[s] # <<>>
  /\ \A u \in Threads : ~IsIn(u, s)
  /\ calls' = [calls EXCEPT ![t] = Append(@, Head(pending[s]))]
  /\ pending' = [pending EXCEPT ![s] = Tail(@)]
  /\ UNCHANGED fresh

CallInside(t, h) ==
  /\ h \in fresh
  /\ IsIn(t, StrandOf[h])
  /\ fresh' = fresh \ {h}
  /\ calls' = [calls EXCEPT ![t] = Append(@, h)]
  /\ UNCHANGED pending

Return(t) ==
  /\ calls[t] # <<>>
  /\ calls' = [calls EXCEPT ![t] = SubSeq(@, 1, Len(@) - 1)]
  /\ UNCHANGED <<fresh, pending>>

Next ==
  \/ \E h \in Handlers : Submit(h)
  \/ \E t \in Threads :
       \/ \E h \in Handlers : CallInside(t, h)
       \/ \E s \in Strands : Start(t, s)
       \/ Return(t)

Safety == Init /\ [][Next]_queueVars

Spec ==
  /\ Safety
  /\ \A s \in Strands : WF_queueVars(\E t \in Threads : Start(t, s))
  /\ \A t \in Threads : WF_queueVars(Return(t))

=============================================================================
