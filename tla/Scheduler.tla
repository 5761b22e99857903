------------------------------ MODULE Scheduler ------------------------------
(***************************************************************************)
(* The io_context of networking-ts-impl under the server's threads, all of *)
(* them in run(): the queue of operations and the event its threads sleep  *)
(* on (detail/impl/scheduler.ipp, detail/posix_event.hpp), and the reactor *)
(* (detail/impl/epoll_reactor.ipp), which is an operation of that queue,   *)
(* the Task, so that one thread at a time waits for the sockets.           *)
(*                                                                         *)
(* What the scheduler's mutex covers is one step; it is held from one step *)
(* into the next where the code returns to its loop without unlocking. The *)
(* kernel's side is what epoll(7) and pthreads promise: edges are reported *)
(* once, a signal wakes one sleeper if there is one, and sleepers may wake *)
(* for no reason.                                                          *)
(*                                                                         *)
(* Each descriptor has reads (or accepts) only; one read takes one unit of *)
(* input. The count of outstanding work is left out: FTPServer's dummy_    *)
(* keeps it above zero, so that nothing stops the threads. There are no    *)
(* timers.                                                                 *)
(***************************************************************************)
EXTENDS Naturals, Sequences, FiniteSets, Functions

CONSTANTS
  Threads,      \* the threads in io_context::run()
  Handlers,     \* the functions posted, and the handlers of reads
  Descriptors,  \* the sockets; also the operation of each in the queue
  Task,         \* task_operation_
  Nobody,       \* no thread holds mutex_
  MaxInput      \* bound: the units of input that come for one socket

ASSUME SchedulerAssumption ==
  /\ Handlers \cap Descriptors = {}
  /\ Task \notin Handlers \cup Descriptors
  /\ Nobody \notin Threads
  /\ MaxInput \in Nat
  /\ IsFiniteSet(Descriptors)

VARIABLES
  mutex,        \* the thread that goes on to its next step with mutex_
  queue,        \* op_queue_
  interrupted,  \* task_interrupted_
  signalled,    \* the low bit of wakeup_event_.state_
  signals,      \* the threads that have unlocked and have to pthread_cond_signal
  pc,           \* what each thread is doing, see Stages
  current,      \* the operation each has taken from the queue
  private,      \* private_op_queue of each
  rest,         \* the operations each has to post
  fresh,        \* the handlers not used yet
  done,         \* the handlers that have returned
  ops,          \* op_queue_[read_op] of each descriptor
  speculative,  \* the descriptors whose try_speculative_[read_op] is set
  input,        \* what the kernel holds for each
  arrived,      \* how much has arrived for each
  ended,        \* those whose peer has closed
  closed,       \* those closed here
  ready,        \* the edges epoll has to report
  poked         \* the interrupter's

schedulerVars == <<mutex, queue, interrupted, signalled, signals>>
threadVars == <<pc, current, private, rest>>
handlerVars == <<fresh, done>>
socketVars == <<ops, speculative, input, closed>>
peerVars == <<arrived, ended>>
epollVars == <<ready, poked>>
vars == <<schedulerVars, threadVars, handlerVars, socketVars, peerVars, epollVars>>

Operations == Handlers \cup Descriptors \cup {Task}

(* "look": in the loop of do_run_one; "asleep": in pthread_cond_wait;      *)
(* "woken": out of it, but for mutex_; "polling", "blocked": in epoll_wait *)
(* with a timeout of 0, -1; "cleanup": out of it; "performing": in         *)
(* perform_io; "returning": at its end; "running": in a handler;           *)
(* "posting": in a handler that is posting.                                *)
Stages == {"look", "asleep", "woken", "polling", "blocked", "cleanup",
           "performing", "returning", "running", "posting"}

TypeOK ==
  /\ mutex \in Threads \cup {Nobody}
  /\ queue \in Seq(Operations)
  /\ interrupted \in BOOLEAN /\ signalled \in BOOLEAN /\ poked \in BOOLEAN
  /\ signals \subseteq Threads
  /\ pc \in [Threads -> Stages]
  /\ current \in [Threads -> Operations]
  /\ private \in [Threads -> Seq(Handlers \cup Descriptors)]
  /\ rest \in [Threads -> Seq(Handlers)]
  /\ fresh \subseteq Handlers /\ done \subseteq Handlers
  /\ ops \in [Descriptors -> Seq(Handlers)]
  /\ input \in [Descriptors -> 0 .. MaxInput]
  /\ arrived \in [Descriptors -> 0 .. MaxInput]
  /\ speculative \subseteq Descriptors /\ ready \subseteq Descriptors
  /\ ended \subseteq Descriptors /\ closed \subseteq Descriptors

(* As FTPServer::start leaves it: an accept is outstanding, the Task is    *)
(* queued, and no thread is in run() yet.                                  *)
Init ==
  /\ mutex = Nobody
  /\ queue = <<Task>>
  /\ interrupted = TRUE
  /\ signalled = TRUE
  /\ signals = {}
  /\ pc = [t \in Threads |-> "look"]
  /\ current = [t \in Threads |-> Task]
  /\ private = [t \in Threads |-> <<>>]
  /\ rest = [t \in Threads |-> <<>>]
  /\ done = {}
  /\ \E h \in Handlers, d \in Descriptors :
       /\ fresh = Handlers \ {h}
       /\ ops = [e \in Descriptors |-> IF e = d THEN <<h>> ELSE <<>>]
  /\ speculative = Descriptors
  /\ input = [d \in Descriptors |-> 0]
  /\ arrived = [d \in Descriptors |-> 0]
  /\ ended = {}
  /\ closed = {}
  /\ ready = {}
  /\ poked = FALSE

Goto(t, p) == pc' = [pc EXCEPT ![t] = p]

(* Thread t can take mutex_, or has it. *)
Locked(t) == mutex \in {t, Nobody} /\ t \notin signals

-----------------------------------------------------------------------------
(* The event.                                                              *)

(* The count in wakeup_event_.state_: who is between the two lines around  *)
(* pthread_cond_wait.                                                      *)
Waiters == {t \in Threads : pc[t] \in {"asleep", "woken"}}

(* The bit is set in any case. *)
unlock_and_signal_one(t) ==
  /\ signalled' = TRUE
  /\ signals' = IF Waiters # {} THEN signals \cup {t} ELSE signals
  /\ mutex' = Nobody

(* Mutant: whoever waits for the sockets is left there. *)
WakeSleepersOnly(t) ==
  /\ unlock_and_signal_one(t)
  /\ UNCHANGED <<interrupted, poked>>

(* If nobody sleeps, the thread that waits for the sockets is poked, once. *)
wake_one_thread_and_unlock(t) ==
  /\ unlock_and_signal_one(t)
  /\ IF Waiters = {} /\ ~interrupted
     THEN interrupted' = TRUE /\ poked' = TRUE
     ELSE UNCHANGED <<interrupted, poked>>

Signal(t) ==
  /\ t \in signals
  /\ signals' = signals \ {t}
  /\ IF \E u \in Threads : pc[u] = "asleep"
     THEN \E u \in Threads : pc[u] = "asleep" /\ Goto(u, "woken")
     ELSE UNCHANGED pc
  /\ UNCHANGED <<mutex, queue, interrupted, signalled, current, private, rest,
                 handlerVars, socketVars, peerVars, epollVars>>

WakeSpuriously(t) ==
  /\ pc[t] = "asleep"
  /\ Goto(t, "woken")
  /\ UNCHANGED <<schedulerVars, current, private, rest, handlerVars, socketVars,
                 peerVars, epollVars>>

(* The loop of posix_event::wait: back to sleep while the bit is clear. *)
Reacquire(t) ==
  /\ pc[t] = "woken"
  /\ Locked(t)
  /\ IF signalled
     THEN Goto(t, "look") /\ mutex' = t
     ELSE Goto(t, "asleep") /\ UNCHANGED mutex
  /\ UNCHANGED <<queue, interrupted, signalled, signals, current, private, rest,
                 handlerVars, socketVars, peerVars, epollVars>>

-----------------------------------------------------------------------------
(* do_run_one.                                                             *)

Sleep(t) ==
  /\ pc[t] = "look"
  /\ Locked(t)
  /\ queue = <<>>
  /\ signalled' = FALSE
  /\ mutex' = Nobody
  /\ Goto(t, "asleep")
  /\ UNCHANGED <<queue, interrupted, signals, current, private, rest, handlerVars,
                 socketVars, peerVars, epollVars>>

(* The reactor only looks at the sockets if there is other work to do. *)
TakeTask(t) ==
  /\ pc[t] = "look"
  /\ Locked(t)
  /\ queue # <<>> /\ Head(queue) = Task
  /\ queue' = Tail(queue)
  /\ interrupted' = (queue' # <<>>)
  /\ IF queue' # <<>>
     THEN unlock_and_signal_one(t) /\ Goto(t, "polling")
     ELSE mutex' = Nobody /\ Goto(t, "blocked") /\ UNCHANGED <<signalled, signals>>
  /\ UNCHANGED <<current, private, rest, handlerVars, socketVars, peerVars, epollVars>>

(* If there is more in the queue, another thread is woken for it. *)
TakeOperation(t) ==
  /\ pc[t] = "look"
  /\ Locked(t)
  /\ queue # <<>> /\ Head(queue) # Task
  /\ queue' = Tail(queue)
  /\ IF queue' # <<>>
     THEN wake_one_thread_and_unlock(t)
     ELSE mutex' = Nobody /\ UNCHANGED <<signalled, signals, interrupted, poked>>
  /\ current' = [current EXCEPT ![t] = Head(queue)]
  /\ Goto(t, IF Head(queue) \in Descriptors THEN "performing" ELSE "running")
  /\ UNCHANGED <<private, rest, handlerVars, socketVars, peerVars, ready>>

(* epoll_wait returns, with every edge there is. *)
reactor_run(t) ==
  /\ t \notin signals
  /\ pc[t] = "polling" \/ (pc[t] = "blocked" /\ (ready # {} \/ poked))
  /\ \E events \in {e \in [1 .. Cardinality(ready) -> ready] : Range(e) = ready} :
       private' = [private EXCEPT ![t] = events]
  /\ ready' = {}
  /\ poked' = FALSE
  /\ Goto(t, "cleanup")
  /\ UNCHANGED <<schedulerVars, current, rest, handlerVars, socketVars, peerVars>>

(* Mutant: the Task goes before what it has found. *)
TaskFirst(t) ==
  /\ pc[t] = "cleanup"
  /\ Locked(t)
  /\ mutex' = t
  /\ interrupted' = TRUE
  /\ queue' = queue \o <<Task>> \o private[t]
  /\ private' = [private EXCEPT ![t] = <<>>]
  /\ Goto(t, "look")
  /\ UNCHANGED <<signalled, signals, current, rest, handlerVars, socketVars, peerVars,
                 epollVars>>

task_cleanup(t) ==
  /\ pc[t] = "cleanup"
  /\ Locked(t)
  /\ mutex' = t
  /\ interrupted' = TRUE
  /\ queue' = (queue \o private[t]) \o <<Task>>
  /\ private' = [private EXCEPT ![t] = <<>>]
  /\ Goto(t, "look")
  /\ UNCHANGED <<signalled, signals, current, rest, handlerVars, socketVars, peerVars,
                 epollVars>>

-----------------------------------------------------------------------------
(* Descriptors.                                                            *)

(* What do_perform of the reads in the queue qs of d comes to: how many of *)
(* them take their input, and whether the one after them reads the end.    *)
Takes(d, qs) == IF Len(qs) < input[d] THEN Len(qs) ELSE input[d]
ReadsEnd(d, qs) == d \in ended /\ input[d] < Len(qs)
Completed(d, qs) == Takes(d, qs) + (IF ReadsEnd(d, qs) THEN 1 ELSE 0)

(* The first that completes is run by this thread, the others are posted;  *)
(* if there is none, the thread goes back to the queue.                    *)
perform_io(t) ==
  LET d == current[t]
      n == Completed(d, ops[d])
  IN
  /\ pc[t] = "performing"
  /\ t \notin signals
  /\ ops' = [ops EXCEPT ![d] = SubSeq(@, n + 1, Len(@))]
  /\ input' = [input EXCEPT ![d] = @ - Takes(d, ops[d])]
  /\ speculative' = IF ReadsEnd(d, ops[d]) THEN speculative \ {d} ELSE speculative \cup {d}
  /\ IF n = 0
     THEN Goto(t, "look") /\ UNCHANGED <<current, rest>>
     ELSE /\ current' = [current EXCEPT ![t] = Head(ops[d])]
          /\ rest' = [rest EXCEPT ![t] = SubSeq(ops[d], 2, n)]
          /\ Goto(t, "returning")
  /\ UNCHANGED <<schedulerVars, private, handlerVars, closed, peerVars, epollVars>>

(* post_immediate_completion, post_deferred_completions. *)
PostOps(t) ==
  /\ pc[t] = "posting" \/ (pc[t] = "returning" /\ rest[t] # <<>>)
  /\ Locked(t)
  /\ queue' = queue \o rest[t]
  /\ rest' = [rest EXCEPT ![t] = <<>>]
  /\ wake_one_thread_and_unlock(t)
  /\ Goto(t, "running")
  /\ UNCHANGED <<current, private, handlerVars, socketVars, peerVars, ready>>

Upcall(t) ==
  /\ pc[t] = "returning" /\ rest[t] = <<>>
  /\ Goto(t, "running")
  /\ UNCHANGED <<schedulerVars, current, private, rest, handlerVars, socketVars,
                 peerVars, epollVars>>

-----------------------------------------------------------------------------
(* What a handler may do.                                                  *)

Running(t) == pc[t] = "running" /\ t \notin signals

(* A continuation (defer, or the next step of a composed operation) stays  *)
(* in the thread's own queue until its handler returns.                    *)
PostHandler(t, h, continuation) ==
  IF continuation
  THEN /\ private' = [private EXCEPT ![t] = Append(@, h)]
       /\ UNCHANGED <<pc, rest>>
  ELSE /\ rest' = [rest EXCEPT ![t] = <<h>>]
       /\ Goto(t, "posting")
       /\ UNCHANGED private

Post(t, h) ==
  /\ Running(t) /\ h \in fresh
  /\ fresh' = fresh \ {h}
  /\ \E continuation \in BOOLEAN : PostHandler(t, h, continuation)
  /\ UNCHANGED <<schedulerVars, current, done, socketVars, peerVars, epollVars>>

(* Mutant: the read is left to the reactor in any case. *)
start_opLater(t, d, h) ==
  /\ Running(t) /\ h \in fresh
  /\ fresh' = fresh \ {h}
  /\ ops' = [ops EXCEPT ![d] = Append(@, h)]
  /\ UNCHANGED <<schedulerVars, threadVars, done, speculative, input, closed, peerVars,
                 epollVars>>

(* A read, that is tried at once if no other waits and the end has not     *)
(* been read; on a closed socket it fails at once.                         *)
start_op(t, d, h) ==
  LET once == ops[d] = <<>> /\ d \in speculative /\ d \notin closed
      n == IF once THEN Completed(d, <<h>>) ELSE 0
  IN
  /\ Running(t) /\ h \in fresh
  /\ fresh' = fresh \ {h}
  /\ IF n = 1 \/ d \in closed
     THEN /\ \E continuation \in BOOLEAN : PostHandler(t, h, continuation)
          /\ input' = [input EXCEPT ![d] = IF once THEN @ - Takes(d, <<h>>) ELSE @]
          /\ speculative' = IF once /\ ReadsEnd(d, <<h>>)
                            THEN speculative \ {d} ELSE speculative
          /\ UNCHANGED ops
     ELSE /\ ops' = [ops EXCEPT ![d] = Append(@, h)]
          /\ UNCHANGED <<private, pc, rest, input, speculative>>
  /\ UNCHANGED <<schedulerVars, current, done, closed, peerVars, epollVars>>

(* close: what waits is aborted. *)
deregister_descriptor(t, d) ==
  /\ Running(t) /\ d \notin closed
  /\ closed' = closed \cup {d}
  /\ ready' = ready \ {d}
  /\ ops' = [ops EXCEPT ![d] = <<>>]
  /\ IF ops[d] = <<>> THEN UNCHANGED <<rest, pc>>
     ELSE rest' = [rest EXCEPT ![t] = ops[d]] /\ Goto(t, "posting")
  /\ UNCHANGED <<schedulerVars, current, private, handlerVars, speculative, input,
                 peerVars, poked>>

(* Mutant: what the handler left in the thread's queue is lost. *)
ReturnOnly(t) ==
  /\ Running(t)
  /\ done' = done \cup {current[t]}
  /\ UNCHANGED <<queue, mutex>>
  /\ private' = [private EXCEPT ![t] = <<>>]
  /\ Goto(t, "look")
  /\ UNCHANGED <<interrupted, signalled, signals, current, rest, fresh, socketVars,
                 peerVars, epollVars>>

(* The handler returns, and work_cleanup queues what it left. *)
Return(t) ==
  /\ Running(t)
  /\ done' = done \cup {current[t]}
  /\ IF private[t] = <<>>
     THEN UNCHANGED <<queue, mutex>>
     ELSE Locked(t) /\ mutex' = t /\ queue' = queue \o private[t]
  /\ private' = [private EXCEPT ![t] = <<>>]
  /\ Goto(t, "look")
  /\ UNCHANGED <<interrupted, signalled, signals, current, rest, fresh, socketVars,
                 peerVars, epollVars>>

-----------------------------------------------------------------------------
(* The peers.                                                              *)

Arrive(d) ==
  /\ arrived[d] < MaxInput /\ d \notin ended /\ d \notin closed
  /\ arrived' = [arrived EXCEPT ![d] = @ + 1]
  /\ input' = [input EXCEPT ![d] = @ + 1]
  /\ ready' = ready \cup {d}
  /\ UNCHANGED <<schedulerVars, threadVars, handlerVars, ops, speculative, closed, ended,
                 poked>>

PeerCloses(d) ==
  /\ d \notin ended /\ d \notin closed
  /\ ended' = ended \cup {d}
  /\ ready' = ready \cup {d}
  /\ UNCHANGED <<schedulerVars, threadVars, handlerVars, socketVars, arrived, poked>>

-----------------------------------------------------------------------------

Step(t) ==
  \/ Signal(t) \/ Reacquire(t) \/ Sleep(t) \/ TakeTask(t) \/ TakeOperation(t)
  \/ reactor_run(t) \/ task_cleanup(t) \/ perform_io(t) \/ PostOps(t) \/ Upcall(t)
  \/ Return(t)

Handler(t) ==
  \E h \in Handlers, d \in Descriptors :
    Post(t, h) \/ start_op(t, d, h) \/ deregister_descriptor(t, d)

Next ==
  \/ \E t \in Threads : Step(t) \/ Handler(t) \/ WakeSpuriously(t)
  \/ \E d \in Descriptors : Arrive(d) \/ PeerCloses(d)

Spec == Init /\ [][Next]_vars

(* Every thread is given the processor, and every handler returns. *)
FairSpec == Spec /\ \A t \in Threads : WF_vars(Step(t))

-----------------------------------------------------------------------------
(* Properties.                                                             *)

(* No operation is linked into two queues, or twice into one, whatever the *)
(* sockets report while the threads are at it: epoll_reactor::run relies   *)
(* on the Task being queued behind what it found.  The Task is in the      *)
(* queue or with one thread.                                               *)
WithTask == {t \in Threads : pc[t] \in {"polling", "blocked", "cleanup"}}

LinkedOnce ==
  /\ IsInjective(queue)
  /\ \A t \in Threads :
       /\ IsInjective(private[t])
       /\ Range(private[t]) \cap Range(queue) = {}
       /\ \A u \in Threads : t # u => Range(private[t]) \cap Range(private[u]) = {}
  /\ \A t, u \in WithTask : t = u
  /\ Task \in Range(queue) <=> WithTask = {}

(* In a handler, or about to call one. *)
Busy == {"performing", "returning", "running", "posting"}

(* Thread t will look at the queue without anybody's help. *)
Comes(t) ==
  \/ pc[t] \in {"look", "polling", "cleanup"} \/ t \in signals
  \/ pc[t] = "woken" /\ signalled
  \/ pc[t] = "blocked" /\ (poked \/ ready # {})

(* No wake-up is lost: while anything is queued, be it the Task, either    *)
(* every thread is in a handler or one is on its way to the queue.         *)
WorkIsFetched ==
  queue = <<>>
    \/ (\A t \in Threads : pc[t] \in Busy)
    \/ \E t \in Threads : Comes(t)

(* What a read waits for has come, or its end and nobody has read that. *)
Readable(d) == ops[d] # <<>> /\ (input[d] > 0 \/ (d \in ended /\ d \in speculative))

Queued(o) == o \in Range(queue) \/ \E t \in Threads : o \in Range(private[t])

(* No input is forgotten, though its edge is reported once: where a read   *)
(* waits and there is something to read, the reactor has still to report   *)
(* it or somebody is on the way to try.                                    *)
InputIsSeen ==
  \A d \in Descriptors : Readable(d) =>
    \/ d \in ready \/ Queued(d)
    \/ \E t \in Threads : pc[t] = "performing" /\ current[t] = d

(* And so it is read. *)
InputIsRead == \A d \in Descriptors : Readable(d) ~> ~Readable(d)

InQueues ==
  Range(queue) \cup UNION {Range(private[t]) \cup Range(rest[t]) : t \in Threads}

(* The handlers that are posted, or whose read has completed, and those    *)
(* that threads are in.                                                    *)
Due ==
  (InQueues \cap Handlers)
    \cup {current[t] : t \in {u \in Threads : pc[u] = "returning"}}

InHand == {current[t] : t \in {u \in Threads : pc[u] \in {"running", "posting"}}}

(* Every handler that is posted, or whose read completes, runs once. *)
Promise == INSTANCE Executor WITH due <- Due, current <- InHand, done <- done

ExecutorSpec == Promise!Spec

=============================================================================
