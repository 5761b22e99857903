------------------------------- MODULE Strand -------------------------------
(***************************************************************************)
(* Strands (networking-ts-impl, detail/strand_executor_service.hpp and its *)
(* impl/ files), as FTPSession uses them: a session has msgWriteStrand_,   *)
(* fileRWStrand_ and dataBufStrand_, posts functions to them and binds the *)
(* handlers of reads and writes to them, which the threads of the          *)
(* io_context dispatch when they complete.                                 *)
(*                                                                         *)
(* A strand has handlers that are ready and handlers that wait.  Whoever   *)
(* finds it unlocked locks it and schedules an invoker, which runs what is *)
(* ready and, if some wait by then, schedules itself again.  The ready     *)
(* ones are touched without the mutex.  The executor below is that of      *)
(* Scheduler: what is posted to it is run by one thread, some time; what   *)
(* is dispatched to it from one of its threads is run on the spot.  The    *)
(* shutdown of the service, with the io_context, is left out.              *)
(***************************************************************************)
EXTENDS Naturals, Sequences

CONSTANTS
  Strands,
  Handlers,  \* the functions submitted, each once
  StrandOf,  \* the strand each is submitted to
  NoHandler, \* no handler runs
  Threads    \* the threads in io_context::run()

ASSUME StrandAssumption ==
  /\ StrandOf \in [Handlers -> Strands]
  /\ NoHandler \notin Handlers

VARIABLES
  locked,   \* locked_ of each strand
  ready,    \* ready_queue_
  waiting,  \* waiting_queue_
  posted,   \* how many invokers of each strand the io_context has queued
  stack,    \* what each thread is in, the innermost last, see Frames
  fresh     \* the handlers not submitted yet

vars == <<locked, ready, waiting, posted, stack, fresh>>

(* "push": enqueue has locked the strand and not pushed the handler yet;   *)
(* "schedule": about to hand an invoker to the io_context, or to call it   *)
(* when dispatch is set; "loop": in the invoker, between handlers; "run":  *)
(* in a handler it has called; "inside": in a handler that dispatch has    *)
(* called, from a handler of the same strand.  Those of Called have one.    *)
Places == {"push", "schedule", "loop", "run", "inside"}

Called == {"push", "run", "inside"}

Frames ==
  [strand : Strands, at : Called, handler : Handlers, dispatch : BOOLEAN]
    \cup [strand : Strands, at : Places \ Called, handler : {NoHandler}, dispatch : BOOLEAN]

Frame(s, place, h, d) == [strand |-> s, at |-> place, handler |-> h, dispatch |-> d]

TypeOK ==
  /\ locked \in [Strands -> BOOLEAN]
  /\ ready \in [Strands -> Seq(Handlers)]
  /\ waiting \in [Strands -> Seq(Handlers)]
  /\ posted \in [Strands -> Nat]
  /\ stack \in [Threads -> Seq(Frames)]
  /\ fresh \subseteq Handlers

Init ==
  /\ locked = [s \in Strands |-> FALSE]
  /\ ready = [s \in Strands |-> <<>>]
  /\ waiting = [s \in Strands |-> <<>>]
  /\ posted = [s \in Strands |-> 0]
  /\ stack = [t \in Threads |-> <<>>]
  /\ fresh = Handlers

Top(t) == stack[t][Len(stack[t])]
At(t, place) == stack[t] # <<>> /\ Top(t).at = place

Enter(t, f) == stack' = [stack EXCEPT ![t] = Append(@, f)]
Become(t, f) == stack' = [stack EXCEPT ![t] = [@ EXCEPT ![Len(@)] = f]]
Leave(t) == stack' = [stack EXCEPT ![t] = SubSeq(@, 1, Len(@) - 1)]

(* Thread t runs code that may submit handlers: a handler of a strand, or  *)
(* one that is bound to none.                                              *)
InHandler(t) == stack[t] = <<>> \/ At(t, "run") \/ At(t, "inside")

(* call_stack<strand_impl>::contains *)
Contains(t, s) == \E i \in DOMAIN stack[t] : stack[t][i].strand = s

-----------------------------------------------------------------------------

(* dispatch, in the strand already. *)
CallInside(t, h) ==
  /\ h \in fresh /\ InHandler(t)
  /\ Contains(t, StrandOf[h])
  /\ fresh' = fresh \ {h}
  /\ Enter(t, Frame(StrandOf[h], "inside", h, TRUE))
  /\ UNCHANGED <<locked, ready, waiting, posted>>

(* post, and dispatch from outside: enqueue, under the strand's mutex. *)
Enqueue(t, h, dispatch) ==
  LET s == StrandOf[h] IN
  /\ h \in fresh /\ InHandler(t)
  /\ dispatch => ~Contains(t, s)
  /\ fresh' = fresh \ {h}
  /\ IF locked[s]
     THEN /\ waiting' = [waiting EXCEPT ![s] = Append(@, h)]
          /\ UNCHANGED <<locked, stack>>
     ELSE /\ locked' = [locked EXCEPT ![s] = TRUE]
          /\ Enter(t, Frame(s, "push", h, dispatch))
          /\ UNCHANGED waiting
  /\ UNCHANGED <<ready, posted>>

(* The rest of enqueue, after the unlock. *)
Push(t) ==
  LET s == Top(t).strand IN
  /\ At(t, "push")
  /\ ready' = [ready EXCEPT ![s] = Append(@, Top(t).handler)]
  /\ Become(t, Frame(s, "schedule", NoHandler, Top(t).dispatch))
  /\ UNCHANGED <<locked, waiting, posted, fresh>>

(* ex.post(invoker), or ex.dispatch(invoker), which calls it. *)
Schedule(t) ==
  LET s == Top(t).strand IN
  /\ At(t, "schedule")
  /\ IF Top(t).dispatch
     THEN Become(t, Frame(s, "loop", NoHandler, TRUE)) /\ UNCHANGED posted
     ELSE Leave(t) /\ posted' = [posted EXCEPT ![s] = @ + 1]
  /\ UNCHANGED <<locked, ready, waiting, fresh>>

(* A thread takes an invoker from the io_context's queue. *)
Invoke(t, s) ==
  /\ stack[t] = <<>>
  /\ posted[s] > 0
  /\ posted' = [posted EXCEPT ![s] = @ - 1]
  /\ Enter(t, Frame(s, "loop", NoHandler, FALSE))
  /\ UNCHANGED <<locked, ready, waiting, fresh>>

Take(t) ==
  LET s == Top(t).strand IN
  /\ At(t, "loop") /\ ready[s] # <<>>
  /\ ready' = [ready EXCEPT ![s] = Tail(@)]
  /\ Become(t, Frame(s, "run", Head(ready[s]), Top(t).dispatch))
  /\ UNCHANGED <<locked, waiting, posted, fresh>>

(* A handler returns, to the invoker or to the handler that called it. *)
Return(t) ==
  /\ At(t, "run") \/ At(t, "inside")
  /\ IF At(t, "run") THEN Become(t, Frame(Top(t).strand, "loop", NoHandler, Top(t).dispatch))
     ELSE Leave(t)
  /\ UNCHANGED <<locked, ready, waiting, posted, fresh>>

(* Mutant: the strand is unlocked although handlers wait. *)
ExitUnlocks(t) ==
  LET s == Top(t).strand IN
  /\ At(t, "loop") /\ ready[s] = <<>>
  /\ ready' = [ready EXCEPT ![s] = waiting[s]]
  /\ waiting' = [waiting EXCEPT ![s] = <<>>]
  /\ locked' = [locked EXCEPT ![s] = FALSE]
  /\ IF waiting[s] # <<>>
     THEN Become(t, Frame(s, "schedule", NoHandler, FALSE))
     ELSE Leave(t)
  /\ UNCHANGED <<posted, fresh>>

(* Mutant: what waits is not scheduled. *)
ExitForgets(t) ==
  LET s == Top(t).strand IN
  /\ At(t, "loop") /\ ready[s] = <<>>
  /\ ready' = [ready EXCEPT ![s] = waiting[s]]
  /\ waiting' = [waiting EXCEPT ![s] = <<>>]
  /\ locked' = [locked EXCEPT ![s] = (waiting[s] # <<>>)]
  /\ Leave(t)
  /\ UNCHANGED <<posted, fresh>>

(* on_invoker_exit: what waits gets ready, and the strand stays locked and *)
(* is scheduled again if there is any.                                     *)
Exit(t) ==
  LET s == Top(t).strand IN
  /\ At(t, "loop") /\ ready[s] = <<>>
  /\ ready' = [ready EXCEPT ![s] = waiting[s]]
  /\ waiting' = [waiting EXCEPT ![s] = <<>>]
  /\ locked' = [locked EXCEPT ![s] = (waiting[s] # <<>>)]
  /\ IF waiting[s] # <<>>
     THEN Become(t, Frame(s, "schedule", NoHandler, FALSE))
     ELSE Leave(t)
  /\ UNCHANGED <<posted, fresh>>

-----------------------------------------------------------------------------

Step(t) ==
  Push(t) \/ Schedule(t) \/ (\E s \in Strands : Invoke(t, s)) \/ Take(t) \/ Return(t) \/ Exit(t)

Submit(t) ==
  \E h \in Handlers : CallInside(t, h) \/ \E dispatch \in BOOLEAN : Enqueue(t, h, dispatch)

Next == \E t \in Threads : Step(t) \/ Submit(t)

Spec == Init /\ [][Next]_vars

(* Every thread is given the processor, every handler returns, and the     *)
(* io_context runs what it has queued.                                     *)
FairSpec == Spec /\ \A t \in Threads : WF_vars(Step(t))

-----------------------------------------------------------------------------
(* Properties.                                                             *)

(* Thread t runs a handler of strand s. *)
Runs(t, s) ==
  \E i \in DOMAIN stack[t] :
    stack[t][i].strand = s /\ stack[t][i].at \in {"run", "inside"}

(* Two threads never run handlers of one strand at the same time, which is *)
(* all that keeps FTPSession's queues and buffers from data races.         *)
OneAtATime ==
  \A s \in Strands : \A t, u \in Threads : Runs(t, s) /\ Runs(u, s) => t = u

(* The handlers that thread t is in, the outermost first: all its frames,  *)
(* unless the innermost is an invoker between handlers, or enqueue.        *)
Depth(t) ==
  IF stack[t] = <<>> \/ Top(t).at \in {"run", "inside"} THEN Len(stack[t])
                                                      ELSE Len(stack[t]) - 1
Calls(t) == [i \in 1 .. Depth(t) |-> stack[t][i].handler]

(* The handlers of s in the order they are to run; the first may still be  *)
(* with the thread that is about to push it.                               *)
Pushes(t, s) == At(t, "push") /\ Top(t).strand = s
Pushed(s) ==
  IF \E t \in Threads : Pushes(t, s)
  THEN <<Top(CHOOSE t \in Threads : Pushes(t, s)).handler>> ELSE <<>>
Pending(s) == (Pushed(s) \o ready[s]) \o waiting[s]

(* A strand is a queue: what is submitted runs in order, one at a time,    *)
(* and all of it runs, on whatever threads.                                *)
Queue == INSTANCE StrandQueue WITH
  pending <- [s \in Strands |-> Pending(s)],
  calls   <- [t \in Threads |-> Calls(t)]

StrandSpec == Queue!Spec

=============================================================================
