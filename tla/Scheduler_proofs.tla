-------------------------- MODULE Scheduler_proofs --------------------------
(***************************************************************************)
(* No wake-up and no input is lost by the scheduler and its reactor, no    *)
(* operation is queued twice, and handlers are run as Executor has it, for *)
(* any number of threads, handlers and sockets.                            *)
(*                                                                         *)
(* The argument for wake-ups: a thread that leaves something in the queue  *)
(* either goes on to look at it, or signals; the signal finds a sleeper,   *)
(* or nobody sleeps and the thread in epoll_wait is poked.  It has to be   *)
(* poked only if task_interrupted_ is clear, as there is one thread in     *)
(* epoll_wait (OneTask), and if the flag is set that thread has been poked *)
(* (Poked).                                                                *)
(*                                                                         *)
(* The argument for input: try_speculative_ is clear only when the end was *)
(* read (Spent), so a read is left waiting only after it was tried; what   *)
(* comes later raises an edge, and an edge is turned into an operation of  *)
(* the queue, which is taken from it only to be performed.                 *)
(*                                                                         *)
(* The argument for the queue: the reactor finds descriptors once per call *)
(* of epoll_wait, and the next call comes only when the Task is taken from *)
(* the queue, where it stands behind all that was found (BeforeTask).  A   *)
(* handler is in one place at a time (OnePlace), and each step moves one   *)
(* handler a place on: that is what Executor asks.                         *)
(***************************************************************************)
EXTENDS Scheduler, SequenceTheorems, FiniteSetTheorems, TLAPS

(* What the stage of a thread says of its operation and its own queue. *)
Idle == {"look", "asleep", "woken", "polling", "blocked", "performing"}

Placed ==
  \A t \in Threads :
    /\ pc[t] = "performing" => current[t] \in Descriptors
    /\ pc[t] \in {"returning", "running", "posting"} => current[t] \in Handlers
    /\ pc[t] \in Idle => private[t] = <<>>

InputCounted == \A d \in Descriptors : input[d] <= arrived[d]

Spent == \A d \in Descriptors : d \notin speculative => input[d] = 0 /\ d \in ended

ClosedIsEmpty == \A d \in closed : ops[d] = <<>>

(* The Task is in the queue once, or with one thread. *)
HasTask(t) == pc[t] \in {"polling", "blocked", "cleanup"}

TaskAt(q) == {i \in DOMAIN q : q[i] = Task}

OneTask ==
  /\ \A i, j \in TaskAt(queue) : i = j
  /\ \A t, u \in Threads : HasTask(t) /\ HasTask(u) => t = u
  /\ TaskAt(queue) # {} => \A t \in Threads : ~HasTask(t)

Poked == \A t \in Threads : pc[t] = "blocked" /\ interrupted => poked

Fetches(t) ==
  \/ pc[t] \in {"look", "polling", "cleanup"}
  \/ pc[t] = "woken" /\ signalled
  \/ pc[t] = "asleep" /\ signalled /\ signals # {}
  \/ pc[t] = "blocked" /\ poked

SomeFetches == (\A t \in Threads : pc[t] \in Busy) \/ \E t \in Threads : Fetches(t)

Fetched == queue # <<>> => SomeFetches

TInv == TypeOK /\ Placed /\ InputCounted
WInv == OneTask /\ Poked /\ Fetched
SInv == Spent /\ ClosedIsEmpty /\ InputIsSeen
IInv == TInv /\ WInv /\ SInv

-----------------------------------------------------------------------------
(* Sequences.                                                              *)

LEMMA TailOf ==
  ASSUME NEW S, NEW q \in Seq(S), q # <<>>
  PROVE  /\ Head(q) \in S /\ Tail(q) \in Seq(S)
         /\ Len(q) \in Nat /\ Len(q) >= 1 /\ DOMAIN q = 1 .. Len(q)
         /\ Head(q) = q[1]
         /\ DOMAIN Tail(q) = 1 .. (Len(q) - 1)
         /\ \A i \in 1 .. (Len(q) - 1) : Tail(q)[i] = q[i + 1]
OBVIOUS

LEMMA RangeTail ==
  ASSUME NEW S, NEW q \in Seq(S), q # <<>>
  PROVE  Range(q) \subseteq {Head(q)} \cup Range(Tail(q))
<1> SUFFICES ASSUME NEW i \in DOMAIN q, q[i] # Head(q) PROVE q[i] \in Range(Tail(q))
  BY DEF Range
<1>1. i \in 2 .. Len(q) BY TailOf
<1>2. i - 1 \in DOMAIN Tail(q) /\ Tail(q)[i - 1] = q[i] BY <1>1, TailOf
<1> QED BY <1>2 DEF Range

LEMMA Concat ==
  ASSUME NEW S, NEW p \in Seq(S), NEW q \in Seq(S)
  PROVE  /\ p \o q \in Seq(S)
         /\ Len(p) \in Nat /\ Len(q) \in Nat
         /\ DOMAIN (p \o q) = 1 .. (Len(p) + Len(q))
         /\ DOMAIN p = 1 .. Len(p) /\ DOMAIN q = 1 .. Len(q)
         /\ \A i \in 1 .. (Len(p) + Len(q)) :
              (p \o q)[i] = IF i <= Len(p) THEN p[i] ELSE q[i - Len(p)]
OBVIOUS

LEMMA RangeConcat ==
  ASSUME NEW S, NEW p \in Seq(S), NEW q \in Seq(S)
  PROVE  Range(p \o q) = Range(p) \cup Range(q)
<1>1. ASSUME NEW i \in DOMAIN p PROVE p[i] \in Range(p \o q)
  <2>1. i \in DOMAIN (p \o q) /\ (p \o q)[i] = p[i] BY <1>1, Concat
  <2> QED BY <2>1 DEF Range
<1>2. ASSUME NEW i \in DOMAIN q PROVE q[i] \in Range(p \o q)
  <2>1. i + Len(p) \in DOMAIN (p \o q) /\ (p \o q)[i + Len(p)] = q[i] BY <1>2, Concat
  <2> QED BY <2>1 DEF Range
<1>3. ASSUME NEW i \in DOMAIN (p \o q) PROVE (p \o q)[i] \in Range(p) \cup Range(q)
  <2>1. CASE i <= Len(p)
    <3>1. i \in DOMAIN p /\ (p \o q)[i] = p[i] BY <1>3, <2>1, Concat
    <3> QED BY <3>1 DEF Range
  <2>2. CASE ~(i <= Len(p))
    <3>1. i - Len(p) \in DOMAIN q /\ (p \o q)[i] = q[i - Len(p)] BY <1>3, <2>2, Concat
    <3> QED BY <3>1 DEF Range
  <2> QED BY <2>1, <2>2
<1> QED BY <1>1, <1>2, <1>3 DEF Range

LEMMA RangeConcat3 ==
  ASSUME NEW S, NEW p \in Seq(S), NEW q \in Seq(S), NEW r \in Seq(S)
  PROVE  Range((p \o q) \o r) = (Range(p) \cup Range(q)) \cup Range(r)
<1> DEFINE pq == p \o q
<1>1. pq \in Seq(S) OBVIOUS
<1>2. Range(pq) = Range(p) \cup Range(q) BY RangeConcat
<1> HIDE DEF pq
<1>3. Range(pq \o r) = Range(pq) \cup Range(r) BY <1>1, RangeConcat
<1> QED BY <1>2, <1>3 DEF pq

(* What epoll_wait returns is a sequence. *)
LEMMA EventsTyped ==
  ASSUME TypeOK, NEW e \in [1 .. Cardinality(ready) -> ready]
  PROVE  e \in Seq(Handlers \cup Descriptors)
<1>1. IsFiniteSet(ready) BY SchedulerAssumption, FS_Subset DEF TypeOK
<1>2. Cardinality(ready) \in Nat BY <1>1, FS_CardinalityType
<1>3. ASSUME NEW n \in Nat, NEW f \in [1 .. n -> ready] PROVE f \in Seq(Handlers \cup Descriptors)
  BY <1>3 DEF TypeOK
<1> QED BY <1>2, <1>3

-----------------------------------------------------------------------------
(* Types.                                                                  *)

LEMMA InitTyped == Init => TInv
<1> SUFFICES ASSUME Init PROVE TInv
  OBVIOUS
<1> USE SchedulerAssumption
<1>1. PICK h \in Handlers, d \in Descriptors :
        /\ fresh = Handlers \ {h}
        /\ ops = [e \in Descriptors |-> IF e = d THEN <<h>> ELSE <<>>]
  BY DEF Init
<1>2. <<h>> \in Seq(Handlers) /\ <<>> \in Seq(Handlers) /\ <<Task>> \in Seq(Operations)
      /\ <<>> \in Seq(Handlers \cup Descriptors)
  BY DEF Operations
<1>3. ops \in [Descriptors -> Seq(Handlers)] /\ fresh \subseteq Handlers BY <1>1, <1>2
<1>4. /\ queue \in Seq(Operations) /\ private \in [Threads -> Seq(Handlers \cup Descriptors)]
      /\ rest \in [Threads -> Seq(Handlers)]
  BY <1>2 DEF Init
<1>5. /\ pc \in [Threads -> Stages] /\ current \in [Threads -> Operations]
      /\ input \in [Descriptors -> 0 .. MaxInput] /\ arrived \in [Descriptors -> 0 .. MaxInput]
  BY DEF Init, Stages, Operations
<1>6. TypeOK BY <1>3, <1>4, <1>5 DEF Init, TypeOK
<1>7. Placed BY DEF Init, Placed
<1>8. InputCounted BY DEF Init, InputCounted
<1> QED BY <1>6, <1>7, <1>8 DEF TInv

(* How many reads complete is not more than there are. *)
LEMMA CompletedInRange ==
  ASSUME TypeOK, NEW d \in Descriptors, NEW q \in Seq(Handlers)
  PROVE  /\ Takes(d, q) \in 0 .. input[d]
         /\ Completed(d, q) \in 0 .. Len(q)
         /\ Takes(d, q) <= Completed(d, q)
         /\ Completed(d, q) < Len(q) => Takes(d, q) = input[d]
         /\ ReadsEnd(d, q) => Takes(d, q) = input[d]
<1>1. input[d] \in Nat /\ Len(q) \in Nat BY SchedulerAssumption DEF TypeOK
<1> QED BY <1>1 DEF Takes, Completed, ReadsEnd

LEMMA StepTyped == TInv /\ [Next]_vars => TInv'
<1> SUFFICES ASSUME TInv, [Next]_vars PROVE TInv'
  OBVIOUS
<1> USE SchedulerAssumption
<1>0. TypeOK /\ Placed /\ InputCounted BY DEF TInv
<1> USE <1>0 DEF TInv
<1>1. ASSUME NEW t \in Threads, Signal(t) PROVE TInv'
  <2>1. UNCHANGED <<mutex, queue, interrupted, signalled, current, private, rest,
                    handlerVars, socketVars, peerVars, epollVars>> /\ signals' \subseteq Threads
    BY <1>1 DEF Signal, TypeOK
  <2>2. CASE UNCHANGED pc
    BY <2>1, <2>2 DEF TypeOK, Placed, InputCounted, handlerVars, socketVars, peerVars, epollVars
  <2>3. CASE \E u \in Threads : pc[u] = "asleep" /\ Goto(u, "woken")
    BY <2>1, <2>3 DEF TypeOK, Placed, InputCounted, handlerVars, socketVars, peerVars, epollVars,
                      Goto, Stages, Idle
  <2> QED BY <1>1, <2>2, <2>3 DEF Signal
<1>2. ASSUME NEW t \in Threads, Reacquire(t) PROVE TInv'
  BY <1>2 DEF Reacquire, TypeOK, Placed, InputCounted, handlerVars, socketVars, peerVars,
              epollVars, Goto, Stages, Idle
<1>3. ASSUME NEW t \in Threads, Sleep(t) PROVE TInv'
  BY <1>3 DEF Sleep, TypeOK, Placed, InputCounted, handlerVars, socketVars, peerVars,
              epollVars, Goto, Stages, Idle
<1>4. ASSUME NEW t \in Threads, WakeSpuriously(t) PROVE TInv'
  BY <1>4 DEF WakeSpuriously, TypeOK, Placed, InputCounted, schedulerVars, handlerVars,
              socketVars, peerVars, epollVars, Goto, Stages, Idle
<1>5. ASSUME NEW t \in Threads, TakeTask(t) PROVE TInv'
  <2>1. queue' \in Seq(Operations) BY <1>5, TailOf DEF TakeTask, TypeOK
  <2>2. /\ mutex' = Nobody /\ signalled' \in BOOLEAN /\ signals' \subseteq Threads
        /\ interrupted' \in BOOLEAN
    BY <1>5 DEF TakeTask, unlock_and_signal_one, TypeOK
  <2>3. /\ pc' \in [Threads -> Stages]
        /\ pc' = [pc EXCEPT ![t] = "polling"] \/ pc' = [pc EXCEPT ![t] = "blocked"]
        /\ pc[t] = "look"
        /\ UNCHANGED <<current, private, rest, handlerVars, socketVars, peerVars, epollVars>>
    BY <1>5 DEF TakeTask, Goto, TypeOK, Stages
  <2>4. TypeOK'
    BY <2>1, <2>2, <2>3 DEF TypeOK, handlerVars, socketVars, peerVars, epollVars
  <2>5. Placed' BY <2>3 DEF TypeOK, Placed, Idle
  <2> QED BY <2>3, <2>4, <2>5 DEF InputCounted, socketVars, peerVars
<1>6. ASSUME NEW t \in Threads, TakeOperation(t) PROVE TInv'
  <2>1. queue' \in Seq(Operations) /\ Head(queue) \in Handlers \cup Descriptors
    BY <1>6, TailOf DEF TakeOperation, TypeOK, Operations
  <2>2. /\ mutex' = Nobody /\ signalled' \in BOOLEAN /\ signals' \subseteq Threads
        /\ interrupted' \in BOOLEAN /\ poked' \in BOOLEAN
    BY <1>6 DEF TakeOperation, wake_one_thread_and_unlock, unlock_and_signal_one, TypeOK
  <2>3. /\ current' = [current EXCEPT ![t] = Head(queue)]
        /\ pc' = [pc EXCEPT ![t] = IF Head(queue) \in Descriptors THEN "performing" ELSE "running"]
        /\ UNCHANGED <<private, rest, handlerVars, socketVars, peerVars, ready>>
        /\ pc[t] = "look"
    BY <1>6 DEF TakeOperation, Goto
  <2>4. TypeOK'
    BY <2>1, <2>2, <2>3 DEF TypeOK, handlerVars, socketVars, peerVars, Stages, Operations
  <2>5. Placed'
    BY <2>1, <2>3 DEF TypeOK, Placed, Idle
  <2> QED BY <2>3, <2>4, <2>5 DEF InputCounted, socketVars, peerVars
<1>7. ASSUME NEW t \in Threads, reactor_run(t) PROVE TInv'
  <2>1. PICK e \in [1 .. Cardinality(ready) -> ready] : private' = [private EXCEPT ![t] = e]
    BY <1>7 DEF reactor_run
  <2>2. e \in Seq(Handlers \cup Descriptors) BY EventsTyped
  <2> HIDE <1>0
  <2>3. /\ ready' = {} /\ poked' = FALSE /\ pc' = [pc EXCEPT ![t] = "cleanup"]
        /\ UNCHANGED <<schedulerVars, current, rest, handlerVars, socketVars, peerVars>>
    BY <1>7 DEF reactor_run, Goto
  <2>4. TypeOK'
    BY <1>0, <2>1, <2>2, <2>3
       DEF TypeOK, schedulerVars, handlerVars, socketVars, peerVars, Stages
  <2>5. Placed' BY <1>0, <2>1, <2>3 DEF TypeOK, Placed, Idle
  <2> QED BY <1>0, <2>3, <2>4, <2>5 DEF InputCounted, socketVars, peerVars
<1>8. ASSUME NEW t \in Threads, task_cleanup(t) PROVE TInv'
  <2>1. private[t] \in Seq(Operations) /\ <<Task>> \in Seq(Operations)
        /\ queue \in Seq(Operations)
    BY DEF TypeOK, Operations
  <2>2. (queue \o private[t]) \o <<Task>> \in Seq(Operations) BY <2>1
  <2>3. <<>> \in Seq(Handlers \cup Descriptors) OBVIOUS
  <2> QED
    BY <1>8, <2>2, <2>3 DEF task_cleanup, TypeOK, Placed, InputCounted, handlerVars, socketVars,
              peerVars, epollVars, Goto, Stages, Idle
<1>9. ASSUME NEW t \in Threads, perform_io(t) PROVE TInv'
  <2> DEFINE d == current[t]
             q == ops[d]
             n == Completed(d, q)
  <2>1. pc[t] = "performing" /\ d \in Descriptors BY <1>9 DEF perform_io, Placed
  <2>2. q \in Seq(Handlers) BY <2>1 DEF TypeOK
  <2>3. n \in 0 .. Len(q) /\ Takes(d, q) \in 0 .. input[d] BY <2>1, <2>2, CompletedInRange
  <2>4. SubSeq(q, n + 1, Len(q)) \in Seq(Handlers) /\ SubSeq(q, 2, n) \in Seq(Handlers)
    BY <2>2, <2>3
  <2>5. input[d] - Takes(d, q) \in 0 .. MaxInput /\ input[d] - Takes(d, q) <= input[d]
    BY <2>1, <2>3 DEF TypeOK
  <2>6. n # 0 => Head(q) \in Handlers BY <2>2, <2>3
  <2>7. /\ ops' = [ops EXCEPT ![d] = SubSeq(q, n + 1, Len(q))]
        /\ input' = [input EXCEPT ![d] = input[d] - Takes(d, q)]
        /\ speculative' \subseteq speculative \cup {d}
        /\ UNCHANGED <<schedulerVars, private, handlerVars, closed, peerVars, epollVars>>
    BY <1>9 DEF perform_io
  <2>8. \/ pc' = [pc EXCEPT ![t] = "look"] /\ UNCHANGED <<current, rest>>
        \/ /\ pc' = [pc EXCEPT ![t] = "returning"]
           /\ current' = [current EXCEPT ![t] = Head(q)] /\ Head(q) \in Handlers
           /\ rest' = [rest EXCEPT ![t] = SubSeq(q, 2, n)]
    BY <1>9, <2>6 DEF perform_io, Goto
  <2> HIDE DEF d, q, n
  <2>14. ops' \in [Descriptors -> Seq(Handlers)]
    BY <2>1, <2>4, <2>7 DEF TypeOK
  <2>15. /\ input' \in [Descriptors -> 0 .. MaxInput]
         /\ \A e \in Descriptors : input[e] \in 0 .. MaxInput
         /\ input'[d] <= input[d] /\ \A e \in Descriptors \ {d} : input'[e] = input[e]
    BY <2>1, <2>5, <2>7 DEF TypeOK
  <2>9. /\ ops' \in [Descriptors -> Seq(Handlers)]
        /\ input' \in [Descriptors -> 0 .. MaxInput]
        /\ \A e \in Descriptors : input'[e] <= input[e]
    BY <2>14, <2>15
  <2>10. InputCounted'
    BY <2>7, <2>9 DEF InputCounted, peerVars, TypeOK
  <2>16. pc' \in [Threads -> Stages] BY <2>8 DEF TypeOK, Stages
  <2>17. current' \in [Threads -> Operations]
    <3>1. ASSUME NEW o \in Operations, current' = [current EXCEPT ![t] = o]
          PROVE  current' \in [Threads -> Operations]
      BY <3>1 DEF TypeOK
    <3>2. Handlers \subseteq Operations BY DEF Operations
    <3>3. UNCHANGED current => current' \in [Threads -> Operations] BY DEF TypeOK
    <3> QED BY <2>8, <3>1, <3>2, <3>3
  <2>18. rest' \in [Threads -> Seq(Handlers)] BY <2>4, <2>8 DEF TypeOK
  <2>11. /\ pc' \in [Threads -> Stages] /\ current' \in [Threads -> Operations]
         /\ rest' \in [Threads -> Seq(Handlers)]
    BY <2>16, <2>17, <2>18
  <2>12. TypeOK'
    BY <2>1, <2>7, <2>9, <2>11 DEF TypeOK, schedulerVars, handlerVars, peerVars, epollVars
  <2>13. Placed' BY <2>1, <2>7, <2>8 DEF TypeOK, Placed, Idle
  <2> QED BY <2>10, <2>12, <2>13
<1>10. ASSUME NEW t \in Threads, PostOps(t) PROVE TInv'
  <2>1. queue \o rest[t] \in Seq(Operations) BY DEF TypeOK, Operations
  <2>2. /\ mutex' = Nobody /\ signalled' \in BOOLEAN /\ signals' \subseteq Threads
        /\ interrupted' \in BOOLEAN /\ poked' \in BOOLEAN
    BY <1>10 DEF PostOps, wake_one_thread_and_unlock, unlock_and_signal_one, TypeOK
  <2>3. /\ queue' = queue \o rest[t] /\ rest' = [rest EXCEPT ![t] = <<>>]
        /\ pc' = [pc EXCEPT ![t] = "running"] /\ pc[t] \in {"posting", "returning"}
        /\ UNCHANGED <<current, private, handlerVars, socketVars, peerVars, ready>>
    BY <1>10 DEF PostOps, Goto
  <2>4. <<>> \in Seq(Handlers) OBVIOUS
  <2> QED
    BY <2>1, <2>2, <2>3, <2>4 DEF TypeOK, Placed, InputCounted, handlerVars, socketVars, peerVars,
              Stages, Idle
<1>11. ASSUME NEW t \in Threads, Upcall(t) PROVE TInv'
  BY <1>11 DEF Upcall, TypeOK, Placed, InputCounted, schedulerVars, handlerVars,
              socketVars, peerVars, epollVars, Goto, Stages, Idle
<1>12. ASSUME NEW t \in Threads, Return(t) PROVE TInv'
  <2>1. queue \o private[t] \in Seq(Operations) BY DEF TypeOK, Operations
  <2>2. queue' \in Seq(Operations) /\ mutex' \in Threads \cup {Nobody}
    BY <1>12, <2>1 DEF Return, TypeOK
  <2>3. <<>> \in Seq(Handlers \cup Descriptors) OBVIOUS
  <2> QED
    BY <1>12, <2>2, <2>3 DEF Return, Running, TypeOK, Placed, InputCounted, handlerVars,
              socketVars, peerVars, epollVars, Goto, Stages, Idle
<1>13. ASSUME NEW t \in Threads, NEW h \in Handlers, NEW c \in BOOLEAN, pc[t] = "running",
              PostHandler(t, h, c)
       PROVE  /\ pc' \in [Threads -> Stages]
              /\ private' \in [Threads -> Seq(Handlers \cup Descriptors)]
              /\ rest' \in [Threads -> Seq(Handlers)]
              /\ UNCHANGED current => Placed'
  <2>1. Append(private[t], h) \in Seq(Handlers \cup Descriptors) /\ <<h>> \in Seq(Handlers)
    BY DEF TypeOK
  <2>2. CASE c
    <3>1. private' = [private EXCEPT ![t] = Append(private[t], h)] /\ UNCHANGED <<pc, rest>>
      BY <1>13, <2>2 DEF PostHandler
    <3>2. private' \in [Threads -> Seq(Handlers \cup Descriptors)] BY <2>1, <3>1 DEF TypeOK
    <3>3. \A u \in Threads \ {t} : private'[u] = private[u] BY <3>1 DEF TypeOK
    <3>4. UNCHANGED current => Placed' BY <1>13, <3>1, <3>3 DEF Placed, Idle
    <3> QED BY <3>1, <3>2, <3>4 DEF TypeOK
  <2>3. CASE ~c
    <3>1. /\ rest' = [rest EXCEPT ![t] = <<h>>] /\ pc' = [pc EXCEPT ![t] = "posting"]
          /\ UNCHANGED private
      BY <1>13, <2>3 DEF PostHandler, Goto
    <3>2. rest' \in [Threads -> Seq(Handlers)] BY <2>1, <3>1 DEF TypeOK
    <3>3. pc' \in [Threads -> Stages] BY <3>1 DEF TypeOK, Stages
    <3>4. UNCHANGED current => Placed' BY <1>13, <3>1 DEF TypeOK, Placed, Idle
    <3> QED BY <3>1, <3>2, <3>3, <3>4 DEF TypeOK
  <2> QED BY <2>2, <2>3
<1>14. ASSUME NEW t \in Threads, NEW h \in Handlers, Post(t, h) PROVE TInv'
  <2>1. /\ pc' \in [Threads -> Stages]
        /\ private' \in [Threads -> Seq(Handlers \cup Descriptors)]
        /\ rest' \in [Threads -> Seq(Handlers)] /\ Placed'
    BY <1>13, <1>14 DEF Post, Running
  <2> QED
    BY <1>14, <2>1 DEF Post, TypeOK, InputCounted, schedulerVars, socketVars, peerVars, epollVars
<1>15. ASSUME NEW t \in Threads, NEW d \in Descriptors, NEW h \in Handlers, start_op(t, d, h)
       PROVE  TInv'
  <2>1. <<h>> \in Seq(Handlers) /\ Append(ops[d], h) \in Seq(Handlers) BY DEF TypeOK
  <2>20. Takes(d, <<h>>) \in 0 .. input[d] /\ input[d] \in 0 .. MaxInput
    BY <2>1, CompletedInRange DEF TypeOK
  <2> DEFINE left == input[d] - Takes(d, <<h>>)
  <2>2. left \in 0 .. MaxInput /\ left <= input[d]
    BY <2>20
  <2>21. UNCHANGED input \/ input' = [input EXCEPT ![d] = left] \/ input' = [input EXCEPT ![d] = input[d]]
    BY <1>15 DEF start_op
  <2> HIDE DEF left
  <2>23. input \in [Descriptors -> 0 .. MaxInput] BY DEF TypeOK
  <2>24. PICK k \in 0 .. MaxInput : input' = [input EXCEPT ![d] = k] /\ k <= input[d]
    <3>1. UNCHANGED input => input' = [input EXCEPT ![d] = input[d]] BY <2>23
    <3> QED BY <2>2, <2>20, <2>21, <3>1
  <2>22. /\ input' \in [Descriptors -> 0 .. MaxInput]
         /\ input'[d] <= input[d] /\ \A e \in Descriptors \ {d} : input'[e] = input[e]
         /\ \A e \in Descriptors : input[e] \in 0 .. MaxInput
    BY <2>23, <2>24
  <2>3. /\ input' \in [Descriptors -> 0 .. MaxInput]
        /\ \A e \in Descriptors : input'[e] <= input[e]
    BY <2>22
  <2>4. ops' \in [Descriptors -> Seq(Handlers)] BY <1>15, <2>1 DEF start_op, TypeOK
  <2>5. speculative' \subseteq speculative BY <1>15 DEF start_op
  <2>6. /\ UNCHANGED <<schedulerVars, current, done, closed, peerVars, epollVars>>
        /\ fresh' \subseteq fresh /\ pc[t] = "running"
    BY <1>15 DEF start_op, Running
  <2>7. \/ \E c \in BOOLEAN : PostHandler(t, h, c)
        \/ UNCHANGED <<private, pc, rest>>
    BY <1>15 DEF start_op
  <2>8. /\ pc' \in [Threads -> Stages]
        /\ private' \in [Threads -> Seq(Handlers \cup Descriptors)]
        /\ rest' \in [Threads -> Seq(Handlers)] /\ Placed'
    <3>1. CASE \E c \in BOOLEAN : PostHandler(t, h, c)
      BY <1>13, <2>6, <3>1
    <3>2. CASE UNCHANGED <<private, pc, rest>>
      BY <2>6, <3>2 DEF TypeOK, Placed
    <3> QED BY <2>7, <3>1, <3>2
  <2>9. InputCounted' BY <2>3, <2>6 DEF InputCounted, TypeOK, peerVars
  <2> QED
    BY <2>3, <2>4, <2>5, <2>6, <2>8, <2>9 DEF TypeOK, schedulerVars, peerVars, epollVars
<1>16. ASSUME NEW t \in Threads, NEW d \in Descriptors, deregister_descriptor(t, d) PROVE TInv'
  <2>1. <<>> \in Seq(Handlers) /\ ops[d] \in Seq(Handlers) BY DEF TypeOK
  <2> QED
    BY <1>16, <2>1 DEF deregister_descriptor, Running, TypeOK, Placed, InputCounted,
              schedulerVars, handlerVars, peerVars, Goto, Stages, Idle
<1>17. ASSUME NEW d \in Descriptors, Arrive(d) PROVE TInv'
  BY <1>17 DEF Arrive, TypeOK, Placed, InputCounted, schedulerVars, threadVars, handlerVars
<1>18. ASSUME NEW d \in Descriptors, PeerCloses(d) PROVE TInv'
  BY <1>18 DEF PeerCloses, TypeOK, Placed, InputCounted, schedulerVars, threadVars, handlerVars,
               socketVars
<1>19. CASE UNCHANGED vars
  BY <1>19 DEF vars, TypeOK, Placed, InputCounted, schedulerVars, threadVars, handlerVars,
               socketVars, peerVars, epollVars
<1> QED
  BY <1>1, <1>2, <1>3, <1>4, <1>5, <1>6, <1>7, <1>8, <1>9, <1>10, <1>11, <1>12, <1>14, <1>15,
     <1>16, <1>17, <1>18, <1>19 DEF Next, Step, Handler

-----------------------------------------------------------------------------
(* The Task.                                                               *)

LEMMA TaskAtTail ==
  ASSUME NEW q \in Seq(Operations), q # <<>>
  PROVE  /\ \A i \in TaskAt(Tail(q)) : i + 1 \in TaskAt(q) /\ i \in Nat /\ i >= 1
         /\ Head(q) = Task => 1 \in TaskAt(q)
BY TailOf DEF TaskAt

LEMMA TaskAtConcat ==
  ASSUME NEW q \in Seq(Operations), NEW r \in Seq(Handlers \cup Descriptors)
  PROVE  TaskAt(q \o r) = TaskAt(q)
<1>1. r \in Seq(Operations) /\ \A i \in DOMAIN r : r[i] # Task
  BY SchedulerAssumption DEF Operations
<1> QED BY <1>1, Concat DEF TaskAt

LEMMA TaskAtLast ==
  ASSUME NEW q \in Seq(Operations)
  PROVE  TaskAt(q \o <<Task>>) = TaskAt(q) \cup {Len(q) + 1}
<1>1. <<Task>> \in Seq(Operations) /\ Len(<<Task>>) = 1 /\ <<Task>>[1] = Task
  BY DEF Operations
<1> QED BY <1>1, Concat DEF TaskAt

(* Steps that leave the queue, but for what is not the Task, and do not    *)
(* set task_interrupted_ unless they poke.                                 *)
LEMMA TaskStays ==
  ASSUME TypeOK, OneTask, Poked, TaskAt(queue') \subseteq TaskAt(queue),
         NEW t \in Threads, ~HasTask(t)', \A u \in Threads \ {t} : pc'[u] = pc[u],
         (UNCHANGED interrupted /\ (poked => poked')) \/ poked'
  PROVE  OneTask' /\ Poked'
BY DEF OneTask, Poked, HasTask

LEMMA StepTask == TInv /\ OneTask /\ Poked /\ [Next]_vars => OneTask' /\ Poked'
<1> SUFFICES ASSUME TInv, OneTask, Poked, [Next]_vars PROVE OneTask' /\ Poked'
  OBVIOUS
<1>0. TypeOK BY DEF TInv
<1>1. ASSUME NEW t \in Threads, Signal(t) PROVE OneTask' /\ Poked'
  <2>1. UNCHANGED <<queue, interrupted, poked>> BY <1>1 DEF Signal, epollVars
  <2>2. CASE UNCHANGED pc BY <2>1, <2>2 DEF OneTask, Poked, HasTask, TaskAt
  <2>3. CASE \E u \in Threads : pc[u] = "asleep" /\ Goto(u, "woken")
    BY <1>0, <2>1, <2>3 DEF TypeOK, OneTask, Poked, HasTask, Goto
  <2> QED BY <1>1, <2>2, <2>3 DEF Signal
<1>2. ASSUME NEW t \in Threads, Reacquire(t) \/ Sleep(t) \/ WakeSpuriously(t)
      PROVE OneTask' /\ Poked'
  <2>1. /\ UNCHANGED <<queue, interrupted, poked>>
        /\ \E p \in {"look", "asleep", "woken"} : pc' = [pc EXCEPT ![t] = p]
    BY <1>2 DEF Reacquire, Sleep, WakeSpuriously, Goto, epollVars, schedulerVars
  <2>2. ~HasTask(t)' /\ \A u \in Threads \ {t} : pc'[u] = pc[u]
    BY <1>0, <2>1 DEF TypeOK, HasTask
  <2> QED BY <1>0, <2>1, <2>2, TaskStays
<1>3. ASSUME NEW t \in Threads, TakeTask(t) PROVE OneTask' /\ Poked'
  <2>1. /\ queue # <<>> /\ Head(queue) = Task /\ queue' = Tail(queue)
        /\ \/ pc' = [pc EXCEPT ![t] = "polling"]
           \/ pc' = [pc EXCEPT ![t] = "blocked"] /\ queue' = <<>>
        /\ (interrupted' = (queue' # <<>>)) /\ UNCHANGED poked
    BY <1>3 DEF TakeTask, Goto, epollVars
  <2>2. 1 \in TaskAt(queue) /\ TaskAt(queue') = {}
    <3>1. queue \in Seq(Operations) BY <1>0 DEF TypeOK
    <3>2. /\ \A i \in TaskAt(Tail(queue)) : i + 1 \in TaskAt(queue) /\ i \in Nat /\ i >= 1
          /\ 1 \in TaskAt(queue)
      BY <2>1, <3>1, TaskAtTail
    <3>3. \A i \in TaskAt(Tail(queue)) : i + 1 = 1 BY <3>2 DEF OneTask
    <3> QED BY <2>1, <3>2, <3>3
  <2>3. \A u \in Threads : ~HasTask(u) BY <2>2 DEF OneTask
  <2>4. \A u \in Threads \ {t} : pc'[u] = pc[u] BY <1>0, <2>1 DEF TypeOK
  <2>5. \A u \in Threads \ {t} : ~HasTask(u)' BY <2>3, <2>4 DEF HasTask
  <2>6. OneTask' BY <2>2, <2>5 DEF OneTask
  <2>7. pc'[t] = "polling" \/ ~interrupted' BY <1>0, <2>1 DEF TypeOK
  <2> QED BY <2>5, <2>6, <2>7 DEF Poked, HasTask
<1>4. ASSUME NEW t \in Threads, wake_one_thread_and_unlock(t)
      PROVE  (UNCHANGED interrupted /\ (poked => poked')) \/ poked'
  BY <1>4 DEF wake_one_thread_and_unlock
<1>5. ASSUME NEW t \in Threads, TakeOperation(t) PROVE OneTask' /\ Poked'
  <2>1. /\ queue # <<>> /\ Head(queue) # Task /\ queue' = Tail(queue)
        /\ \E p \in {"performing", "running"} : pc' = [pc EXCEPT ![t] = p]
    BY <1>5 DEF TakeOperation, Goto
  <2>2. ~HasTask(t)' /\ \A u \in Threads \ {t} : pc'[u] = pc[u]
    BY <1>0, <2>1 DEF TypeOK, HasTask
  <2>3. (UNCHANGED interrupted /\ (poked => poked')) \/ poked' BY <1>4, <1>5 DEF TakeOperation
  <2>4. queue \in Seq(Operations) BY <1>0 DEF TypeOK
  <2>5. \A i \in TaskAt(queue') : i + 1 \in TaskAt(queue) /\ i \in Nat
    BY <2>1, <2>4, TaskAtTail
  <2>6. \A i, j \in TaskAt(queue') : i = j BY <2>5 DEF OneTask
  <2>7. TaskAt(queue') # {} => \A u \in Threads : ~HasTask(u) BY <2>5 DEF OneTask
  <2>8. OneTask' BY <2>2, <2>6, <2>7 DEF OneTask, HasTask
  <2> QED BY <2>2, <2>3, <2>8 DEF Poked, HasTask
<1>6. ASSUME NEW t \in Threads, reactor_run(t) PROVE OneTask' /\ Poked'
  <2>1. /\ HasTask(t) /\ pc' = [pc EXCEPT ![t] = "cleanup"] /\ UNCHANGED <<queue, interrupted>>
    BY <1>6 DEF reactor_run, Goto, schedulerVars, HasTask
  <2>2. HasTask(t)' /\ \A u \in Threads \ {t} : pc'[u] = pc[u] /\ ~HasTask(u) /\ ~HasTask(u)'
    BY <1>0, <2>1 DEF TypeOK, HasTask, OneTask
  <2>3. TaskAt(queue') = {} BY <2>1 DEF OneTask
  <2>4. OneTask' BY <2>2, <2>3 DEF OneTask
  <2>5. pc'[t] = "cleanup" BY <1>0, <2>1 DEF TypeOK
  <2> QED BY <2>2, <2>4, <2>5 DEF Poked, HasTask
<1>7. ASSUME NEW t \in Threads, task_cleanup(t) PROVE OneTask' /\ Poked'
  <2>1. /\ HasTask(t) /\ pc' = [pc EXCEPT ![t] = "look"]
        /\ queue' = (queue \o private[t]) \o <<Task>>
    BY <1>7 DEF task_cleanup, Goto, HasTask
  <2>2. \A u \in Threads : ~HasTask(u)'
    BY <1>0, <2>1 DEF TypeOK, HasTask, OneTask
  <2>3. TaskAt(queue) = {} BY <2>1 DEF OneTask
  <2>4. /\ queue \in Seq(Operations) /\ private[t] \in Seq(Handlers \cup Descriptors)
        /\ private[t] \in Seq(Operations)
    BY <1>0 DEF TypeOK, Operations
  <2>5. queue \o private[t] \in Seq(Operations) BY <2>4
  <2>6. \A i, j \in TaskAt(queue') : i = j BY <2>1, <2>3, <2>4, <2>5, TaskAtConcat, TaskAtLast
  <2> QED BY <2>2, <2>6 DEF OneTask, Poked, HasTask
<1>8. ASSUME NEW t \in Threads, PostOps(t) PROVE OneTask' /\ Poked'
  <2>1. queue' = queue \o rest[t] /\ pc' = [pc EXCEPT ![t] = "running"]
    BY <1>8 DEF PostOps, Goto
  <2>2. TaskAt(queue') = TaskAt(queue)
    BY <1>0, <2>1, TaskAtConcat DEF TypeOK
  <2>3. ~HasTask(t)' /\ \A u \in Threads \ {t} : pc'[u] = pc[u]
    BY <1>0, <2>1 DEF TypeOK, HasTask
  <2>4. (UNCHANGED interrupted /\ (poked => poked')) \/ poked' BY <1>4, <1>8 DEF PostOps
  <2> QED BY <1>0, <2>2, <2>3, <2>4, TaskStays
<1>9. ASSUME NEW t \in Threads, Return(t) PROVE OneTask' /\ Poked'
  <2>1. /\ UNCHANGED queue \/ queue' = queue \o private[t]
        /\ pc' = [pc EXCEPT ![t] = "look"] /\ UNCHANGED <<interrupted, poked>>
    BY <1>9 DEF Return, Goto, epollVars
  <2>2. TaskAt(queue') = TaskAt(queue)
    BY <1>0, <2>1, TaskAtConcat DEF TypeOK
  <2>3. ~HasTask(t)' /\ \A u \in Threads \ {t} : pc'[u] = pc[u]
    BY <1>0, <2>1 DEF TypeOK, HasTask
  <2> QED BY <1>0, <2>1, <2>2, <2>3, TaskStays
<1>10. ASSUME NEW t \in Threads, perform_io(t) \/ Upcall(t) \/ Handler(t)
       PROVE  OneTask' /\ Poked'
  <2>1. UNCHANGED <<queue, interrupted, poked>>
    BY <1>10 DEF perform_io, Upcall, Handler, Post, start_op, deregister_descriptor, epollVars,
                 schedulerVars
  <2>2. UNCHANGED pc \/ \E p \in {"look", "returning", "running", "posting"} :
                           pc' = [pc EXCEPT ![t] = p]
    BY <1>10 DEF perform_io, Upcall, Handler, Post, start_op, deregister_descriptor, PostHandler,
                 Goto
  <2>3. pc[t] \in {"performing", "returning", "running"}
    BY <1>10 DEF perform_io, Upcall, Handler, Post, start_op, deregister_descriptor, Running
  <2>4. ~HasTask(t)' /\ \A u \in Threads \ {t} : pc'[u] = pc[u]
    BY <1>0, <2>2, <2>3 DEF TypeOK, HasTask
  <2> QED BY <1>0, <2>1, <2>4, TaskStays
<1>11. ASSUME NEW d \in Descriptors, Arrive(d) \/ PeerCloses(d) PROVE OneTask' /\ Poked'
  <2>1. UNCHANGED <<queue, interrupted, poked, pc>>
    BY <1>11 DEF Arrive, PeerCloses, schedulerVars, threadVars
  <2> QED BY <2>1 DEF OneTask, Poked, HasTask, TaskAt
<1>12. CASE UNCHANGED vars
  BY <1>12 DEF vars, schedulerVars, threadVars, epollVars, OneTask, Poked, HasTask, TaskAt
<1> QED
  BY <1>1, <1>2, <1>3, <1>5, <1>6, <1>7, <1>8, <1>9, <1>10, <1>11, <1>12 DEF Next, Step

-----------------------------------------------------------------------------
(* Wake-ups.                                                               *)

(* Whoever signals under mutex_ and goes on to a handler leaves somebody   *)
(* to look at the queue.                                                   *)
LEMMA WakeFetches ==
  ASSUME TypeOK, Poked, NEW t \in Threads, wake_one_thread_and_unlock(t),
         pc[t] \notin {"asleep", "woken"},
         pc'[t] \in Busy, \A u \in Threads \ {t} : pc'[u] = pc[u]
  PROVE  SomeFetches'
<1>1. CASE Waiters # {}
  <2>1. PICK u \in Threads : pc[u] \in {"asleep", "woken"} BY <1>1 DEF Waiters
  <2>2. signalled' /\ t \in signals' BY <1>1 DEF wake_one_thread_and_unlock, unlock_and_signal_one
  <2>3. pc'[u] \in {"asleep", "woken"} BY <2>1
  <2> QED BY <2>2, <2>3 DEF SomeFetches, Fetches
<1>2. CASE Waiters = {}
  <2>1. \A u \in Threads : pc[u] = "blocked" => poked'
    BY <1>2 DEF wake_one_thread_and_unlock, Poked
  <2>2. SUFFICES ASSUME NEW u \in Threads, pc'[u] \notin Busy PROVE Fetches(u)'
    BY DEF SomeFetches
  <2>3. u # t /\ pc'[u] = pc[u] BY <2>2
  <2>4. pc[u] \in {"look", "polling", "cleanup", "blocked"}
    BY <1>2, <2>2, <2>3 DEF TypeOK, Stages, Busy, Waiters
  <2> QED BY <2>1, <2>3, <2>4 DEF Fetches
<1> QED BY <1>1, <1>2

(* Nothing is queued, and nobody stops being on the way.                   *)
LEMMA FetchKept ==
  ASSUME TypeOK, Fetched, UNCHANGED <<queue, signalled, signals, poked>>,
         \A u \in Threads : pc'[u] = pc[u] \/ (pc[u] \in Busy /\ pc'[u] \in Busy)
  PROVE  Fetched'
BY DEF Fetched, SomeFetches, Fetches, Busy

LEMMA LookFetches ==
  ASSUME NEW t \in Threads, pc'[t] \in {"look", "polling", "cleanup"}
  PROVE  Fetched'
BY DEF Fetched, SomeFetches, Fetches

LEMMA StepFetched == TInv /\ WInv /\ [Next]_vars => Fetched'
<1> SUFFICES ASSUME TInv, WInv, [Next]_vars PROVE Fetched'
  OBVIOUS
<1>0. TypeOK /\ Poked /\ Fetched BY DEF TInv, WInv
<1>1. ASSUME NEW t \in Threads, Signal(t) PROVE Fetched'
  <2>1. UNCHANGED <<queue, signalled, poked>> /\ signals' \subseteq signals
    BY <1>1 DEF Signal, epollVars
  <2>2. CASE \E u \in Threads : pc[u] = "asleep"
    <3>1. PICK u \in Threads : pc[u] = "asleep" /\ pc' = [pc EXCEPT ![u] = "woken"]
      BY <1>1, <2>2 DEF Signal, Goto
    <3>2. pc'[u] = "woken" /\ \A v \in Threads \ {u} : pc'[v] = pc[v] BY <1>0, <3>1 DEF TypeOK
    <3>3. CASE signalled BY <2>1, <3>2, <3>3 DEF Fetched, SomeFetches, Fetches
    <3>4. CASE ~signalled
      <4>1. \A v \in Threads : Fetches(v) => Fetches(v)'
        BY <2>1, <3>1, <3>2, <3>4 DEF Fetches
      <4>2. ~\A v \in Threads : pc[v] \in Busy BY <3>1 DEF Busy
      <4> QED BY <1>0, <2>1, <4>1, <4>2 DEF Fetched, SomeFetches
    <3> QED BY <3>3, <3>4
  <2>3. CASE ~\E u \in Threads : pc[u] = "asleep"
    <3>1. UNCHANGED pc BY <1>1, <2>3 DEF Signal
    <3> QED BY <1>0, <2>1, <2>3, <3>1 DEF Fetched, SomeFetches, Fetches
  <2> QED BY <2>2, <2>3
<1>2. ASSUME NEW t \in Threads, Reacquire(t) PROVE Fetched'
  <2>1. CASE signalled
    <3>1. pc' = [pc EXCEPT ![t] = "look"] BY <1>2, <2>1 DEF Reacquire, Goto
    <3>2. pc'[t] = "look" BY <1>0, <3>1 DEF TypeOK
    <3> QED BY <3>2, LookFetches
  <2>2. CASE ~signalled
    <3>1. /\ pc[t] = "woken" /\ pc' = [pc EXCEPT ![t] = "asleep"]
          /\ UNCHANGED <<queue, signalled, signals, poked>>
      BY <1>2, <2>2 DEF Reacquire, Goto, epollVars
    <3>2. \A u \in Threads : Fetches(u) => Fetches(u)'
      BY <1>0, <2>2, <3>1 DEF Fetches, TypeOK
    <3>3. ~\A v \in Threads : pc[v] \in Busy BY <3>1 DEF Busy
    <3> QED BY <1>0, <3>1, <3>2, <3>3 DEF Fetched, SomeFetches
  <2> QED BY <2>1, <2>2
<1>3. ASSUME NEW t \in Threads, Sleep(t) PROVE Fetched'
  BY <1>3 DEF Sleep, Fetched
<1>4. ASSUME NEW t \in Threads, WakeSpuriously(t) PROVE Fetched'
  <2>1. /\ pc[t] = "asleep" /\ pc' = [pc EXCEPT ![t] = "woken"]
        /\ UNCHANGED <<queue, signalled, signals, poked>>
    BY <1>4 DEF WakeSpuriously, Goto, epollVars, schedulerVars
  <2>2. \A u \in Threads : Fetches(u) => Fetches(u)'
    BY <1>0, <2>1 DEF Fetches, TypeOK
  <2>3. ~\A v \in Threads : pc[v] \in Busy BY <2>1 DEF Busy
  <2> QED BY <1>0, <2>1, <2>2, <2>3 DEF Fetched, SomeFetches
<1>5. ASSUME NEW t \in Threads, TakeTask(t) PROVE Fetched'
  <2>1. queue' = <<>> \/ pc' = [pc EXCEPT ![t] = "polling"] BY <1>5 DEF TakeTask, Goto
  <2>2. queue' = <<>> \/ pc'[t] = "polling" BY <1>0, <2>1 DEF TypeOK
  <2> QED BY <2>2, LookFetches DEF Fetched
<1>6. ASSUME NEW t \in Threads, TakeOperation(t) PROVE Fetched'
  <2>1. /\ queue' = <<>> \/ wake_one_thread_and_unlock(t)
        /\ pc[t] = "look" /\ \E p \in {"performing", "running"} : pc' = [pc EXCEPT ![t] = p]
    BY <1>6 DEF TakeOperation, Goto
  <2>2. pc'[t] \in Busy /\ \A u \in Threads \ {t} : pc'[u] = pc[u]
    BY <1>0, <2>1 DEF TypeOK, Busy
  <2> QED BY <1>0, <2>1, <2>2, WakeFetches DEF Fetched
<1>7. ASSUME NEW t \in Threads, NEW p \in {"look", "cleanup"}, pc' = [pc EXCEPT ![t] = p]
      PROVE  Fetched'
  <2>1. pc'[t] = p BY <1>0, <1>7 DEF TypeOK
  <2> QED BY <2>1, LookFetches
<1>8. ASSUME NEW t \in Threads, reactor_run(t) \/ task_cleanup(t) \/ Return(t) PROVE Fetched'
  BY <1>7, <1>8 DEF reactor_run, task_cleanup, Return, Goto
<1>9. ASSUME NEW t \in Threads, PostOps(t) PROVE Fetched'
  <2>1. /\ wake_one_thread_and_unlock(t)
        /\ pc[t] \in {"posting", "returning"} /\ pc' = [pc EXCEPT ![t] = "running"]
    BY <1>9 DEF PostOps, Goto
  <2>2. pc'[t] \in Busy /\ \A u \in Threads \ {t} : pc'[u] = pc[u]
    BY <1>0, <2>1 DEF TypeOK, Busy
  <2> QED BY <1>0, <2>1, <2>2, WakeFetches DEF Fetched
<1>10. ASSUME NEW t \in Threads, perform_io(t) \/ Upcall(t) \/ Handler(t) PROVE Fetched'
  <2>1. UNCHANGED <<queue, signalled, signals, poked>>
    BY <1>10 DEF perform_io, Upcall, Handler, Post, start_op, deregister_descriptor, epollVars,
                 schedulerVars
  <2>2. UNCHANGED pc \/ \E p \in {"look", "returning", "running", "posting"} :
                           pc' = [pc EXCEPT ![t] = p]
    BY <1>10 DEF perform_io, Upcall, Handler, Post, start_op, deregister_descriptor, PostHandler,
                 Goto
  <2>3. pc[t] \in Busy
    BY <1>10 DEF perform_io, Upcall, Handler, Post, start_op, deregister_descriptor, Running, Busy
  <2>4. CASE pc' = [pc EXCEPT ![t] = "look"] BY <1>7, <2>4
  <2>5. CASE pc' # [pc EXCEPT ![t] = "look"]
    <3>1. \A u \in Threads : pc'[u] = pc[u] \/ (pc[u] \in Busy /\ pc'[u] \in Busy)
      BY <1>0, <2>2, <2>3, <2>5 DEF TypeOK, Busy
    <3> QED BY <1>0, <2>1, <3>1, FetchKept
  <2> QED BY <2>4, <2>5
<1>11. ASSUME NEW d \in Descriptors, Arrive(d) \/ PeerCloses(d) PROVE Fetched'
  <2>1. UNCHANGED <<queue, signalled, signals, poked, pc>>
    BY <1>11 DEF Arrive, PeerCloses, schedulerVars, threadVars
  <2> QED BY <1>0, <2>1, FetchKept
<1>12. CASE UNCHANGED vars
  <2>1. UNCHANGED <<queue, signalled, signals, poked, pc>>
    BY <1>12 DEF vars, schedulerVars, threadVars, epollVars
  <2> QED BY <1>0, <2>1, FetchKept
<1> QED
  BY <1>1, <1>2, <1>3, <1>4, <1>5, <1>6, <1>8, <1>9, <1>10, <1>11, <1>12 DEF Next, Step

-----------------------------------------------------------------------------
(* Input.                                                                  *)

LEMMA StepSpent ==
  TInv /\ Spent /\ ClosedIsEmpty /\ [Next]_vars => Spent' /\ ClosedIsEmpty'
<1> SUFFICES ASSUME TInv, Spent, ClosedIsEmpty, [Next]_vars PROVE Spent' /\ ClosedIsEmpty'
  OBVIOUS
<1>0. TypeOK /\ Placed BY DEF TInv
<1>1. ASSUME UNCHANGED <<speculative, input, ended, closed, ops>> PROVE Spent' /\ ClosedIsEmpty'
  BY <1>1 DEF Spent, ClosedIsEmpty
<1>2. ASSUME NEW t \in Threads, perform_io(t) PROVE Spent' /\ ClosedIsEmpty'
  <2> DEFINE d == current[t]
             q == ops[d]
             n == Completed(d, q)
             left == input[d] - Takes(d, q)
  <2>1. d \in Descriptors BY <1>0, <1>2 DEF perform_io, Placed
  <2>2. q \in Seq(Handlers) BY <1>0, <2>1 DEF TypeOK
  <2>3. /\ n \in 0 .. Len(q)
        /\ ReadsEnd(d, q) => left = 0 /\ d \in ended
        /\ left \in 0 .. input[d] /\ input[d] \in 0 .. MaxInput
    <3>1. input[d] \in 0 .. MaxInput BY <1>0, <2>1 DEF TypeOK
    <3>2. /\ n \in 0 .. Len(q) /\ Takes(d, q) \in 0 .. input[d]
          /\ ReadsEnd(d, q) => Takes(d, q) = input[d]
      BY <1>0, <2>1, <2>2, CompletedInRange
    <3>3. ReadsEnd(d, q) => d \in ended BY DEF ReadsEnd
    <3> QED BY <3>1, <3>2, <3>3, SchedulerAssumption
  <2>4. q = <<>> => SubSeq(q, n + 1, Len(q)) = <<>> BY <2>3
  <2>5. /\ ops' = [ops EXCEPT ![d] = SubSeq(q, n + 1, Len(q))]
        /\ input' = [input EXCEPT ![d] = left]
        /\ \/ speculative' = speculative \cup {d}
           \/ ReadsEnd(d, q) /\ speculative' = speculative \ {d}
        /\ UNCHANGED <<closed, ended>>
    BY <1>2 DEF perform_io, peerVars
  <2> HIDE DEF n, left
  <2>6. ClosedIsEmpty' BY <1>0, <2>1, <2>4, <2>5 DEF TypeOK, ClosedIsEmpty
  <2>7. input'[d] = left /\ \A e \in Descriptors \ {d} : input'[e] = input[e]
    BY <1>0, <2>1, <2>5 DEF TypeOK
  <2>8. ASSUME NEW e \in Descriptors, e \notin speculative' PROVE input'[e] = 0 /\ e \in ended'
    <3>1. CASE e = d BY <2>3, <2>5, <2>7, <2>8, <3>1
    <3>2. CASE e # d BY <2>5, <2>7, <2>8, <3>2 DEF Spent
    <3> QED BY <3>1, <3>2
  <2> QED BY <2>6, <2>8 DEF Spent
<1>3. ASSUME NEW t \in Threads, NEW d \in Descriptors, NEW h \in Handlers, start_op(t, d, h)
      PROVE  Spent' /\ ClosedIsEmpty'
  <2> DEFINE once == ops[d] = <<>> /\ d \in speculative /\ d \notin closed
             left == input[d] - Takes(d, <<h>>)
  <2>1. /\ \/ ops' = [ops EXCEPT ![d] = Append(ops[d], h)] /\ d \notin closed
           \/ UNCHANGED ops
        /\ UNCHANGED <<closed, ended>>
    BY <1>3 DEF start_op, peerVars
  <2>2. ClosedIsEmpty' BY <1>0, <2>1 DEF TypeOK, ClosedIsEmpty
  <2>3. CASE ~once
    <3>1. (input' = [input EXCEPT ![d] = input[d]] \/ UNCHANGED input) /\ UNCHANGED speculative
      BY <1>3, <2>3 DEF start_op
    <3>2. UNCHANGED input BY <1>0, <3>1 DEF TypeOK
    <3> QED BY <2>1, <2>2, <3>1, <3>2 DEF Spent
  <2>4. CASE once
    <3>1. <<h>> \in Seq(Handlers) OBVIOUS
    <3>2. ReadsEnd(d, <<h>>) => left = 0 /\ d \in ended
      <4>1. input[d] \in 0 .. MaxInput BY <1>0 DEF TypeOK
      <4>2. ReadsEnd(d, <<h>>) => Takes(d, <<h>>) = input[d] BY <1>0, <3>1, CompletedInRange
      <4>3. ReadsEnd(d, <<h>>) => d \in ended BY DEF ReadsEnd
      <4> QED BY <4>1, <4>2, <4>3, SchedulerAssumption
    <3>3. \/ UNCHANGED <<input, speculative>>
          \/ /\ input' = [input EXCEPT ![d] = left]
             /\ \/ UNCHANGED speculative
                \/ ReadsEnd(d, <<h>>) /\ speculative' = speculative \ {d}
      BY <1>3, <2>4 DEF start_op
    <3> HIDE DEF left
    <3>4. \A e \in Descriptors \ {d} : input'[e] = input[e] BY <1>0, <3>3 DEF TypeOK
    <3>5. ReadsEnd(d, <<h>>) /\ speculative' = speculative \ {d} /\ ~UNCHANGED <<input, speculative>>
            => input'[d] = 0
      BY <1>0, <2>4, <3>2, <3>3 DEF TypeOK
    <3>6. ASSUME NEW e \in Descriptors, e \notin speculative' PROVE input'[e] = 0 /\ e \in ended'
      <4>1. CASE e = d BY <2>1, <2>4, <3>2, <3>3, <3>5, <3>6, <4>1
      <4>2. CASE e # d BY <2>1, <3>3, <3>4, <3>6, <4>2 DEF Spent
      <4> QED BY <4>1, <4>2
    <3> QED BY <2>2, <3>6 DEF Spent
  <2> QED BY <2>3, <2>4
<1>4. ASSUME NEW t \in Threads, NEW d \in Descriptors, deregister_descriptor(t, d)
      PROVE  Spent' /\ ClosedIsEmpty'
  <2>1. /\ closed' = closed \cup {d} /\ ops' = [ops EXCEPT ![d] = <<>>]
        /\ UNCHANGED <<speculative, input, ended>>
    BY <1>4 DEF deregister_descriptor, peerVars
  <2> QED BY <1>0, <2>1 DEF TypeOK, Spent, ClosedIsEmpty
<1>5. ASSUME NEW d \in Descriptors, Arrive(d) PROVE Spent' /\ ClosedIsEmpty'
  <2>1. /\ d \notin ended /\ input' = [input EXCEPT ![d] = input[d] + 1]
        /\ UNCHANGED <<speculative, ended, closed, ops>>
    BY <1>5 DEF Arrive
  <2> QED BY <1>0, <2>1 DEF TypeOK, Spent, ClosedIsEmpty
<1>6. ASSUME NEW d \in Descriptors, PeerCloses(d) PROVE Spent' /\ ClosedIsEmpty'
  BY <1>6 DEF PeerCloses, socketVars, Spent, ClosedIsEmpty
<1>7. ASSUME NEW t \in Threads, Step(t) \/ Handler(t) \/ WakeSpuriously(t)
      PROVE  Spent' /\ ClosedIsEmpty'
  <2>1. CASE Signal(t) \/ Reacquire(t) \/ Sleep(t) \/ TakeTask(t) \/ TakeOperation(t)
               \/ reactor_run(t) \/ task_cleanup(t) \/ PostOps(t) \/ Upcall(t)
               \/ Return(t) \/ WakeSpuriously(t) \/ (\E h \in Handlers : Post(t, h))
    BY <1>1, <2>1 DEF Signal, Reacquire, Sleep, TakeTask, TakeOperation, reactor_run, task_cleanup,
                 PostOps, Upcall, Return, WakeSpuriously, Post, socketVars, peerVars
  <2> QED BY <1>2, <1>3, <1>4, <1>7, <2>1 DEF Step, Handler
<1>8. CASE UNCHANGED vars
  BY <1>1, <1>8 DEF vars, socketVars, peerVars
<1> QED
  BY <1>5, <1>6, <1>7, <1>8 DEF Next

(* What is queued, and the sockets that threads are busy with.             *)
Tried(d) ==
  d \in ready \/ Queued(d) \/ \E t \in Threads : pc[t] = "performing" /\ current[t] = d

(* Steps that leave the sockets alone. *)
LEMMA SeenKept ==
  ASSUME InputIsSeen, UNCHANGED <<ops, input, ended, speculative>>,
         \A d \in Descriptors : Tried(d) => Tried(d)'
  PROVE  InputIsSeen'
BY DEF InputIsSeen, Readable, Tried

LEMMA RangeEmpty == Range(<<>>) = {}
BY DEF Range

LEMMA RangeAppend ==
  ASSUME NEW S, NEW q \in Seq(S), NEW x \in S
  PROVE  Range(q) \subseteq Range(Append(q, x))
<1> SUFFICES ASSUME NEW i \in DOMAIN q PROVE q[i] \in Range(Append(q, x))
  BY DEF Range
<1>1. i \in DOMAIN Append(q, x) /\ Append(q, x)[i] = q[i] BY AppendProperties
<1> QED BY <1>1 DEF Range

LEMMA StepSeen == TInv /\ SInv /\ [Next]_vars => InputIsSeen'
<1> SUFFICES ASSUME TInv, SInv, [Next]_vars PROVE InputIsSeen'
  OBVIOUS
<1>0. TypeOK /\ Placed /\ Spent /\ InputIsSeen BY DEF TInv, SInv
<1>1. ASSUME UNCHANGED <<ops, input, ended, speculative, ready, queue, private, current>>,
             \A t \in Threads : pc[t] = "performing" => pc'[t] = "performing"
      PROVE  InputIsSeen'
  BY <1>0, <1>1 DEF InputIsSeen, Readable, Queued
<1>2. ASSUME NEW t \in Threads,
             Signal(t) \/ Reacquire(t) \/ Sleep(t) \/ WakeSpuriously(t) \/ Upcall(t)
      PROVE  InputIsSeen'
  <2>1. UNCHANGED <<ops, input, ended, speculative, ready, queue, private, current>>
    BY <1>2 DEF Signal, Reacquire, Sleep, WakeSpuriously, Upcall, socketVars, peerVars, epollVars,
                schedulerVars
  <2>2. \/ UNCHANGED pc
        \/ \E u \in Threads, p \in Stages :
             pc[u] \in {"asleep", "woken", "look", "returning"} /\ pc' = [pc EXCEPT ![u] = p]
    BY <1>2 DEF Signal, Reacquire, Sleep, WakeSpuriously, Upcall, Goto, Stages
  <2>3. \A u \in Threads : pc[u] = "performing" => pc'[u] = "performing"
    BY <1>0, <2>2 DEF TypeOK
  <2> QED BY <1>1, <2>1, <2>3
<1>3. ASSUME NEW t \in Threads, TakeTask(t) PROVE InputIsSeen'
  <2>1. /\ queue # <<>> /\ Head(queue) = Task /\ queue' = Tail(queue) /\ pc[t] = "look"
        /\ \E p \in Stages : pc' = [pc EXCEPT ![t] = p]
        /\ UNCHANGED <<ops, input, ended, speculative, ready, private, current>>
    BY <1>3 DEF TakeTask, Goto, Stages, socketVars, peerVars, epollVars
  <2>2. \A d \in Descriptors : d \in Range(queue) => d \in Range(queue')
    BY <1>0, <2>1, RangeTail, SchedulerAssumption DEF TypeOK
  <2>3. \A u \in Threads : pc[u] = "performing" => pc'[u] = "performing"
    BY <1>0, <2>1 DEF TypeOK
  <2>4. \A d \in Descriptors : Tried(d) => Tried(d)' BY <2>1, <2>2, <2>3 DEF Tried, Queued
  <2> QED BY <1>0, <2>1, <2>4, SeenKept
<1>4. ASSUME NEW t \in Threads, TakeOperation(t) PROVE InputIsSeen'
  <2>1. /\ queue # <<>> /\ queue' = Tail(queue) /\ pc[t] = "look"
        /\ pc' = [pc EXCEPT ![t] = IF Head(queue) \in Descriptors THEN "performing" ELSE "running"]
        /\ current' = [current EXCEPT ![t] = Head(queue)]
        /\ UNCHANGED <<ops, input, ended, speculative, ready, private>>
    BY <1>4 DEF TakeOperation, Goto, socketVars, peerVars
  <2>2. \A d \in Descriptors : d \in Range(queue) => d = Head(queue) \/ d \in Range(queue')
    BY <1>0, <2>1, RangeTail DEF TypeOK
  <2>3. \A u \in Threads : pc[u] = "performing" => pc'[u] = "performing" /\ current'[u] = current[u]
    BY <1>0, <2>1 DEF TypeOK
  <2>4. Head(queue) \in Descriptors => pc'[t] = "performing" /\ current'[t] = Head(queue)
    BY <1>0, <2>1 DEF TypeOK
  <2>5. \A d \in Descriptors : Tried(d) => Tried(d)'
    BY <2>1, <2>2, <2>3, <2>4 DEF Tried, Queued
  <2> QED BY <1>0, <2>1, <2>5, SeenKept
<1>5. ASSUME NEW t \in Threads, reactor_run(t) PROVE InputIsSeen'
  <2>1. PICK e \in [1 .. Cardinality(ready) -> ready] :
          Range(e) = ready /\ private' = [private EXCEPT ![t] = e]
    BY <1>5 DEF reactor_run
  <2>2. /\ pc[t] \in {"polling", "blocked"} /\ pc' = [pc EXCEPT ![t] = "cleanup"]
        /\ UNCHANGED <<ops, input, ended, speculative, queue, current>>
    BY <1>5 DEF reactor_run, Goto, socketVars, peerVars, schedulerVars
  <2>3. Range(private[t]) = {} BY <1>0, <2>2, RangeEmpty DEF Placed, Idle
  <2>4. Range(private'[t]) = ready /\ \A u \in Threads \ {t} : private'[u] = private[u]
    BY <1>0, <2>1 DEF TypeOK
  <2>5. \A u \in Threads : pc[u] = "performing" => pc'[u] = "performing"
    BY <1>0, <2>2 DEF TypeOK
  <2>6. ASSUME NEW d \in Descriptors, Tried(d) PROVE Tried(d)'
    <3>1. CASE d \in ready BY <2>4, <3>1 DEF Tried, Queued
    <3>2. CASE Queued(d) BY <2>2, <2>3, <2>4, <3>2 DEF Tried, Queued
    <3>3. CASE \E u \in Threads : pc[u] = "performing" /\ current[u] = d
      BY <2>2, <2>5, <3>3 DEF Tried
    <3> QED BY <2>6, <3>1, <3>2, <3>3 DEF Tried
  <2> QED BY <1>0, <2>2, <2>6, SeenKept
<1>6. ASSUME NEW t \in Threads, private' = [private EXCEPT ![t] = <<>>],
             pc' = [pc EXCEPT ![t] = "look"], pc[t] # "performing",
             Range(queue) \cup Range(private[t]) \subseteq Range(queue'),
             UNCHANGED <<ops, input, ended, speculative, ready, current>>
      PROVE  InputIsSeen'
  <2>1. /\ \A u \in Threads \ {t} : private'[u] = private[u]
        /\ \A u \in Threads : pc[u] = "performing" => pc'[u] = "performing"
    BY <1>0, <1>6 DEF TypeOK
  <2>2. ASSUME NEW d \in Descriptors, Tried(d) PROVE Tried(d)'
    <3>1. CASE d \in ready BY <1>6, <3>1 DEF Tried
    <3>2. CASE Queued(d) BY <1>6, <2>1, <3>2 DEF Tried, Queued
    <3>3. CASE \E u \in Threads : pc[u] = "performing" /\ current[u] = d
      BY <1>6, <2>1, <3>3 DEF Tried
    <3> QED BY <2>2, <3>1, <3>2, <3>3 DEF Tried
  <2> QED BY <1>0, <1>6, <2>2, SeenKept
<1>7. ASSUME NEW t \in Threads, task_cleanup(t) PROVE InputIsSeen'
  <2>1. /\ queue' = (queue \o private[t]) \o <<Task>>
        /\ private' = [private EXCEPT ![t] = <<>>]
        /\ pc' = [pc EXCEPT ![t] = "look"] /\ pc[t] # "performing"
        /\ UNCHANGED <<ops, input, ended, speculative, ready, current>>
    BY <1>7 DEF task_cleanup, Goto, socketVars, peerVars, epollVars
  <2>2. /\ queue \in Seq(Operations) /\ private[t] \in Seq(Operations)
        /\ <<Task>> \in Seq(Operations)
    BY <1>0 DEF TypeOK, Operations
  <2>4. Range(queue') = (Range(queue) \cup Range(private[t])) \cup Range(<<Task>>)
    <3>1. PICK q, p, r : q = queue /\ p = private[t] /\ r = <<Task>> OBVIOUS
    <3>2. q \in Seq(Operations) /\ p \in Seq(Operations) /\ r \in Seq(Operations)
      BY <2>2, <3>1
    <3>3. Range((q \o p) \o r) = (Range(q) \cup Range(p)) \cup Range(r)
      BY <3>2, RangeConcat3
    <3> QED BY <2>1, <3>1, <3>3
  <2>5. Range(queue) \cup Range(private[t]) \subseteq Range(queue') BY <2>4
  <2> QED BY <1>6, <2>1, <2>5
<1>8. ASSUME NEW t \in Threads, Return(t) PROVE InputIsSeen'
  <2>1. /\ \/ queue' = queue \o private[t]
           \/ UNCHANGED queue /\ private[t] = <<>>
        /\ private' = [private EXCEPT ![t] = <<>>]
        /\ pc' = [pc EXCEPT ![t] = "look"] /\ pc[t] # "performing"
        /\ UNCHANGED <<ops, input, ended, speculative, ready, current>>
    BY <1>8 DEF Return, Running, Goto, socketVars, peerVars, epollVars
  <2>2. queue \in Seq(Operations) /\ private[t] \in Seq(Operations)
    BY <1>0 DEF TypeOK, Operations
  <2>3. Range(queue) \cup Range(private[t]) \subseteq Range(queue')
    <3>1. Range(queue \o private[t]) = Range(queue) \cup Range(private[t]) BY <2>2, RangeConcat
    <3>2. private[t] = <<>> => Range(private[t]) = {} BY RangeEmpty
    <3> QED BY <2>1, <3>1, <3>2
  <2> QED BY <1>6, <2>1, <2>3
<1>9. ASSUME NEW t \in Threads, PostOps(t) PROVE InputIsSeen'
  <2>1. /\ queue' = queue \o rest[t] /\ pc[t] \in {"posting", "returning"}
        /\ pc' = [pc EXCEPT ![t] = "running"]
        /\ UNCHANGED <<ops, input, ended, speculative, ready, current, private>>
    BY <1>9 DEF PostOps, Goto, socketVars, peerVars
  <2>2. queue \in Seq(Operations) /\ rest[t] \in Seq(Operations)
    BY <1>0 DEF TypeOK, Operations
  <2>3. Range(queue) \subseteq Range(queue') BY <2>1, <2>2, RangeConcat
  <2>4. \A u \in Threads : pc[u] = "performing" => pc'[u] = "performing"
    BY <1>0, <2>1 DEF TypeOK
  <2>5. \A d \in Descriptors : Tried(d) => Tried(d)' BY <2>1, <2>3, <2>4 DEF Tried, Queued
  <2> QED BY <1>0, <2>1, <2>5, SeenKept
(* What a handler posts takes nothing out of any queue. *)
<1>10. ASSUME NEW t \in Threads, NEW h \in Handlers, NEW c \in BOOLEAN, pc[t] = "running",
              PostHandler(t, h, c), UNCHANGED <<ready, queue, current>>
       PROVE  \A d \in Descriptors : Tried(d) => Tried(d)'
  <2>1. \A u \in Threads : Range(private[u]) \subseteq Range(private'[u])
    <3>1. CASE c
      <4>1. private' = [private EXCEPT ![t] = Append(private[t], h)] BY <1>10, <3>1 DEF PostHandler
      <4>2. /\ private'[t] = Append(private[t], h) /\ private[t] \in Seq(Handlers \cup Descriptors)
            /\ \A u \in Threads \ {t} : private'[u] = private[u]
        BY <1>0, <4>1 DEF TypeOK
      <4>3. Range(private[t]) \subseteq Range(Append(private[t], h))
        <5>1. h \in Handlers \cup Descriptors OBVIOUS
        <5> QED BY <4>2, <5>1, RangeAppend
      <4> QED BY <4>2, <4>3
    <3>2. CASE ~c BY <1>10, <3>2 DEF PostHandler
    <3> QED BY <3>1, <3>2
  <2>2. \A u \in Threads : pc[u] = "performing" => pc'[u] = "performing"
    BY <1>0, <1>10 DEF TypeOK, PostHandler, Goto
  <2>3. ASSUME NEW d \in Descriptors, Tried(d) PROVE Tried(d)'
    <3>1. CASE d \in ready BY <1>10, <3>1 DEF Tried
    <3>2. CASE Queued(d) BY <1>10, <2>1, <3>2 DEF Tried, Queued
    <3>3. CASE \E u \in Threads : pc[u] = "performing" /\ current[u] = d
      BY <1>10, <2>2, <3>3 DEF Tried
    <3> QED BY <2>3, <3>1, <3>2, <3>3 DEF Tried
  <2> QED BY <2>3
<1>11. ASSUME NEW t \in Threads, NEW h \in Handlers, Post(t, h) PROVE InputIsSeen'
  <2>1. PICK c \in BOOLEAN : PostHandler(t, h, c) BY <1>11 DEF Post
  <2>2. /\ pc[t] = "running" /\ UNCHANGED <<ready, queue, current>>
        /\ UNCHANGED <<ops, input, ended, speculative>>
    BY <1>11 DEF Post, Running, schedulerVars, socketVars, peerVars, epollVars
  <2>3. \A d \in Descriptors : Tried(d) => Tried(d)' BY <1>10, <2>1, <2>2
  <2> QED BY <1>0, <2>2, <2>3, SeenKept
<1>12. ASSUME NEW t \in Threads, perform_io(t) PROVE InputIsSeen'
  <2>1. PICK d \in Descriptors : d = current[t] /\ pc[t] = "performing"
    BY <1>0, <1>12 DEF perform_io, Placed
  <2> DEFINE q == ops[d]
             n == Completed(d, q)
             left == input[d] - Takes(d, q)
  <2>2. q \in Seq(Handlers) BY <1>0, <2>1 DEF TypeOK
  <2>3. /\ ops' = [ops EXCEPT ![d] = SubSeq(q, n + 1, Len(q))]
        /\ input' = [input EXCEPT ![d] = left]
        /\ IF ReadsEnd(d, q) THEN speculative' = speculative \ {d}
                             ELSE speculative' = speculative \cup {d}
        /\ UNCHANGED <<queue, private, ready, ended>>
        /\ \/ UNCHANGED current /\ pc' = [pc EXCEPT ![t] = "look"]
           \/ /\ current' = [current EXCEPT ![t] = Head(q)]
              /\ pc' = [pc EXCEPT ![t] = "returning"]
    BY <1>12, <2>1 DEF perform_io, Goto, schedulerVars, peerVars, epollVars
  <2>4. n = Len(q) \/ (left = 0 /\ (ReadsEnd(d, q) \/ d \notin ended))
    <3>1. input[d] \in Nat /\ Len(q) \in Nat
      BY <1>0, <2>1, <2>2, SchedulerAssumption DEF TypeOK
    <3> QED BY <3>1 DEF Takes, Completed, ReadsEnd
  <2>5. n = Len(q) => SubSeq(q, n + 1, Len(q)) = <<>> BY <2>2
  <2> HIDE DEF n, left
  <2>6. /\ ops'[d] = SubSeq(q, n + 1, Len(q)) /\ input'[d] = left
        /\ \A e \in Descriptors \ {d} : ops'[e] = ops[e] /\ input'[e] = input[e]
    BY <1>0, <2>1, <2>3 DEF TypeOK
  <2>7. ~Readable(d)'
    <3>1. CASE n = Len(q) BY <2>5, <2>6, <3>1 DEF Readable
    <3>2. CASE left = 0 /\ (ReadsEnd(d, q) \/ d \notin ended)
      BY <2>3, <2>6, <3>2 DEF Readable
    <3> QED BY <2>4, <3>1, <3>2
  <2>8. \A u \in Threads \ {t} : pc'[u] = pc[u] /\ current'[u] = current[u]
    BY <1>0, <2>3 DEF TypeOK
  <2>9. SUFFICES ASSUME NEW e \in Descriptors, e # d, Readable(e)' PROVE Tried(e)'
    BY <2>7 DEF InputIsSeen, Tried
  <2>10. Readable(e) BY <2>3, <2>6, <2>9 DEF Readable
  <2>11. Tried(e) BY <1>0, <2>10 DEF InputIsSeen, Tried
  <2>12. CASE e \in ready \/ Queued(e) BY <2>3, <2>12 DEF Tried, Queued
  <2>13. CASE \E u \in Threads : pc[u] = "performing" /\ current[u] = e
    <3>1. PICK u \in Threads : pc[u] = "performing" /\ current[u] = e BY <2>13
    <3>2. u # t BY <2>1, <2>9, <3>1
    <3> QED BY <2>8, <3>1, <3>2 DEF Tried
  <2> QED BY <2>11, <2>12, <2>13 DEF Tried
<1>13. ASSUME NEW t \in Threads, NEW d \in Descriptors, NEW h \in Handlers, start_op(t, d, h)
       PROVE  InputIsSeen'
  <2> DEFINE once == ops[d] = <<>> /\ d \in speculative /\ d \notin closed
             n == IF once THEN Completed(d, <<h>>) ELSE 0
             left == input[d] - Takes(d, <<h>>)
  <2>1. /\ pc[t] = "running" /\ UNCHANGED <<ready, queue, current, ended>>
    BY <1>13 DEF start_op, Running, schedulerVars, peerVars, epollVars
  <2>0. <<h>> \in Seq(Handlers) /\ Len(<<h>>) = 1 OBVIOUS
  <2>2. CASE n = 1 \/ d \in closed
    <3>1. PICK c \in BOOLEAN : PostHandler(t, h, c) BY <1>13, <2>2 DEF start_op
    <3>2. \A e \in Descriptors : Tried(e) => Tried(e)' BY <1>10, <2>1, <3>1
    <3>3. UNCHANGED ops /\ (input' = [input EXCEPT ![d] = left] \/ input' = [input EXCEPT ![d] = input[d]])
          /\ (UNCHANGED speculative \/ speculative' = speculative \ {d})
      BY <1>13, <2>2 DEF start_op
    <3>4. input'[d] = left \/ input'[d] = input[d] BY <1>0, <3>3 DEF TypeOK
    <3>5. \A e \in Descriptors \ {d} : input'[e] = input[e] BY <1>0, <3>3 DEF TypeOK
    <3>6. input'[d] > 0 => input[d] > 0
      <4>1. Takes(d, <<h>>) \in 0 .. input[d] /\ input[d] \in 0 .. MaxInput
        BY <1>0, <2>0, CompletedInRange DEF TypeOK
      <4>2. left <= input[d] /\ left \in Nat BY <4>1, SchedulerAssumption
      <4> QED BY <3>4, <4>1, <4>2, SchedulerAssumption
    <3>7. \A e \in Descriptors : Readable(e)' => Readable(e)
      BY <2>1, <3>3, <3>5, <3>6 DEF Readable
    <3> QED BY <1>0, <3>2, <3>7 DEF InputIsSeen, Tried
  <2>3. CASE ~(n = 1 \/ d \in closed)
    <3>1. ops' = [ops EXCEPT ![d] = Append(ops[d], h)]
          /\ UNCHANGED <<private, pc, input, speculative>>
      BY <1>13, <2>3 DEF start_op
    <3>2. \A e \in Descriptors \ {d} : ops'[e] = ops[e] BY <1>0, <3>1 DEF TypeOK
    <3>3. \A e \in Descriptors : Tried(e) => Tried(e)' BY <2>1, <3>1 DEF Tried, Queued
    <3>4. input[d] \in Nat BY <1>0, SchedulerAssumption DEF TypeOK
    <3>5. Readable(d)' => Readable(d)
      <4>1. CASE ops[d] # <<>> BY <2>1, <3>1, <4>1 DEF Readable
      <4>2. CASE ops[d] = <<>> /\ d \in speculative
        <5>1. Completed(d, <<h>>) # 1 BY <2>3, <4>2
        <5>2. input[d] = 0 /\ d \notin ended BY <2>0, <3>4, <5>1 DEF Completed, Takes, ReadsEnd
        <5> QED BY <2>1, <3>1, <5>2 DEF Readable
      <4>3. CASE d \notin speculative
        <5>1. input[d] = 0 BY <1>0, <4>3 DEF Spent
        <5> QED BY <3>1, <4>3, <5>1 DEF Readable
      <4> QED BY <4>1, <4>2, <4>3
    <3>6. \A e \in Descriptors : Readable(e)' => Readable(e)
      BY <2>1, <3>1, <3>2, <3>5 DEF Readable
    <3> QED BY <1>0, <3>3, <3>6 DEF InputIsSeen, Tried
  <2> QED BY <2>2, <2>3
<1>14. ASSUME NEW t \in Threads, NEW d \in Descriptors, deregister_descriptor(t, d)
       PROVE  InputIsSeen'
  <2>1. /\ ops' = [ops EXCEPT ![d] = <<>>] /\ ready' = ready \ {d} /\ pc[t] = "running"
        /\ UNCHANGED pc \/ pc' = [pc EXCEPT ![t] = "posting"]
        /\ UNCHANGED <<queue, private, current, input, ended, speculative>>
    BY <1>14 DEF deregister_descriptor, Running, Goto, schedulerVars, peerVars
  <2>2. ops'[d] = <<>> /\ \A e \in Descriptors \ {d} : ops'[e] = ops[e]
    BY <1>0, <2>1 DEF TypeOK
  <2>3. \A u \in Threads : pc[u] = "performing" => pc'[u] = "performing"
    BY <1>0, <2>1 DEF TypeOK
  <2>4. SUFFICES ASSUME NEW e \in Descriptors, e # d, Readable(e)' PROVE Tried(e)'
    BY <2>2 DEF InputIsSeen, Readable, Tried
  <2>5. Readable(e) BY <2>1, <2>2, <2>4 DEF Readable
  <2>6. Tried(e) BY <1>0, <2>5 DEF InputIsSeen, Tried
  <2> QED BY <2>1, <2>3, <2>4, <2>6 DEF Tried, Queued
<1>15. ASSUME NEW d \in Descriptors, Arrive(d) \/ PeerCloses(d) PROVE InputIsSeen'
  <2>1. /\ ready' = ready \cup {d} /\ UNCHANGED <<ops, speculative, queue, private, pc, current>>
        /\ UNCHANGED input \/ input' = [input EXCEPT ![d] = input[d] + 1]
        /\ UNCHANGED ended \/ ended' = ended \cup {d}
    BY <1>15 DEF Arrive, PeerCloses, schedulerVars, threadVars, socketVars
  <2>2. \A e \in Descriptors \ {d} : input'[e] = input[e] BY <1>0, <2>1 DEF TypeOK
  <2>3. \A e \in Descriptors \ {d} : Readable(e)' => Readable(e) BY <2>1, <2>2 DEF Readable
  <2>4. \A e \in Descriptors : Tried(e) => Tried(e)' BY <2>1 DEF Tried, Queued
  <2>5. Tried(d)' BY <2>1 DEF Tried
  <2> QED BY <1>0, <2>3, <2>4, <2>5 DEF InputIsSeen, Tried
<1>16. CASE UNCHANGED vars
  BY <1>1, <1>16 DEF vars, schedulerVars, threadVars, socketVars, peerVars, epollVars
<1> QED
  BY <1>2, <1>3, <1>4, <1>5, <1>7, <1>8, <1>9, <1>11, <1>12, <1>13, <1>14, <1>15, <1>16
     DEF Next, Step, Handler

-----------------------------------------------------------------------------
(* Where the operations are linked.                                        *)

(* The stages of a handler, and who has it there. *)
Kinds == {"fresh", "ops", "queue", "private", "rest", "returning", "running", "done"}
Owners == Threads \cup Descriptors \cup {Nobody}

At(h, k, x) ==
  \/ k = "fresh" /\ x = Nobody /\ h \in fresh
  \/ k = "ops" /\ x \in Descriptors /\ h \in Range(ops[x])
  \/ k = "queue" /\ x = Nobody /\ h \in Range(queue)
  \/ k = "private" /\ x \in Threads /\ h \in Range(private[x])
  \/ k = "rest" /\ x \in Threads /\ h \in Range(rest[x])
  \/ k = "returning" /\ x \in Threads /\ pc[x] = "returning" /\ h = current[x]
  \/ k = "running" /\ x \in Threads /\ pc[x] \in {"running", "posting"} /\ h = current[x]
  \/ k = "done" /\ x = Nobody /\ h \in done

OnePlace ==
  \A h \in Handlers, k, l \in Kinds, x, y \in Owners :
    At(h, k, x) /\ At(h, l, y) => k = l /\ x = y

NoRepeats ==
  /\ IsInjective(queue)
  /\ \A t \in Threads : IsInjective(private[t]) /\ IsInjective(rest[t])
  /\ \A d \in Descriptors : IsInjective(ops[d])

(* The descriptors in the queue are before the Task: whoever takes it     *)
(* leaves none behind, so that the reactor may link them anew.            *)
BeforeTask ==
  /\ \A t \in Threads : HasTask(t) => Range(queue) \subseteq Handlers
  /\ \A i \in TaskAt(queue), j \in DOMAIN queue : j > i => queue[j] \in Handlers

PrivateKinds ==
  \A t \in Threads :
    /\ pc[t] = "cleanup" => Range(private[t]) \subseteq Descriptors
    /\ pc[t] # "cleanup" => Range(private[t]) \subseteq Handlers

RestPlaced == \A t \in Threads : pc[t] \notin {"returning", "posting"} => rest[t] = <<>>

TaskKept == TaskAt(queue) # {} \/ \E t \in Threads : HasTask(t)

LInv == OnePlace /\ NoRepeats /\ BeforeTask /\ PrivateKinds /\ RestPlaced /\ TaskKept

(* Sequences without repetition. *)
LEMMA InjTail ==
  ASSUME NEW S, NEW q \in Seq(S), q # <<>>, IsInjective(q)
  PROVE  /\ IsInjective(Tail(q)) /\ Head(q) \notin Range(Tail(q))
         /\ Range(q) = {Head(q)} \cup Range(Tail(q))
<1>1. IsInjective(Tail(q)) BY TailOf DEF IsInjective
<1>2. Head(q) \notin Range(Tail(q)) BY TailOf DEF IsInjective, Range
<1>3. ASSUME NEW i \in DOMAIN Tail(q) PROVE Tail(q)[i] \in Range(q)
  <2>1. i + 1 \in DOMAIN q /\ Tail(q)[i] = q[i + 1] BY TailOf
  <2> QED BY <2>1 DEF Range
<1>4. 1 \in DOMAIN q /\ Head(q) = q[1] BY TailOf
<1>5. Range(Tail(q)) \subseteq Range(q) BY <1>3 DEF Range
<1>6. Head(q) \in Range(q) BY <1>4 DEF Range
<1> QED BY <1>1, <1>2, <1>5, <1>6, RangeTail

LEMMA InjConcat ==
  ASSUME NEW S, NEW p \in Seq(S), NEW q \in Seq(S), IsInjective(p), IsInjective(q),
         Range(p) \cap Range(q) = {}
  PROVE  IsInjective(p \o q)
<1>1. Len(p) \in Nat /\ Len(q) \in Nat /\ DOMAIN (p \o q) = 1 .. (Len(p) + Len(q))
  BY Concat
<1>2. ASSUME NEW i \in DOMAIN (p \o q), NEW j \in DOMAIN (p \o q),
             (p \o q)[i] = (p \o q)[j], i < j
      PROVE  FALSE
  <2>1. i \in 1 .. (Len(p) + Len(q)) /\ j \in 1 .. (Len(p) + Len(q)) BY <1>1, <1>2
  <2>2. CASE j <= Len(p)
    <3>1. i \in DOMAIN p /\ j \in DOMAIN p /\ p[i] = p[j] BY <1>1, <1>2, <2>1, <2>2, Concat
    <3>2. i = j BY <3>1 DEF IsInjective
    <3> QED BY <1>2, <2>1, <3>2
  <2>3. CASE i > Len(p)
    <3>1. i - Len(p) \in DOMAIN q /\ j - Len(p) \in DOMAIN q /\ q[i - Len(p)] = q[j - Len(p)]
      BY <1>1, <1>2, <2>1, <2>3, Concat
    <3>2. i - Len(p) = j - Len(p) BY <3>1 DEF IsInjective
    <3> QED BY <1>1, <1>2, <2>1, <3>2
  <2>4. CASE i <= Len(p) /\ j > Len(p)
    <3>1. i \in DOMAIN p /\ j - Len(p) \in DOMAIN q /\ p[i] = q[j - Len(p)]
      BY <1>1, <1>2, <2>1, <2>4, Concat
    <3>2. p[i] \in Range(p) /\ p[i] \in Range(q) BY <3>1 DEF Range
    <3> QED BY <3>2
  <2> QED BY <1>1, <2>1, <2>2, <2>3, <2>4
<1>3. ASSUME NEW i \in DOMAIN (p \o q), NEW j \in DOMAIN (p \o q),
             (p \o q)[i] = (p \o q)[j]
      PROVE  i = j
  <2>1. ~(i < j) /\ ~(j < i) BY <1>2, <1>3
  <2> QED BY <1>1, <2>1
<1> QED BY <1>3 DEF IsInjective

LEMMA One == ASSUME NEW x PROVE IsInjective(<<x>>) /\ Range(<<x>>) = {x}
BY DEF IsInjective, Range

LEMMA Empty == IsInjective(<<>>) /\ Range(<<>>) = {}
BY DEF IsInjective, Range

LEMMA InjAppend ==
  ASSUME NEW S, NEW q \in Seq(S), NEW x \in S
  PROVE  /\ Range(Append(q, x)) = Range(q) \cup {x}
         /\ IsInjective(q) /\ x \notin Range(q) => IsInjective(Append(q, x))
<1>1. <<x>> \in Seq(S) /\ Append(q, x) = q \o <<x>> OBVIOUS
<1>2. Range(q \o <<x>>) = Range(q) \cup Range(<<x>>)
  <2>1. PICK r : r = <<x>> OBVIOUS
  <2>2. r \in Seq(S) BY <1>1, <2>1
  <2>3. Range(q \o r) = Range(q) \cup Range(r) BY <2>2, RangeConcat
  <2> QED BY <2>1, <2>3
<1>3. IsInjective(<<x>>) /\ Range(<<x>>) = {x} BY One
<1>4. ASSUME IsInjective(q), x \notin Range(q) PROVE IsInjective(q \o <<x>>)
  <2>1. Range(q) \cap Range(<<x>>) = {} BY <1>3, <1>4
  <2> QED BY <1>1, <1>3, <1>4, <2>1, InjConcat
<1> QED BY <1>1, <1>2, <1>3, <1>4

(* A queue cut after its first n elements. *)
LEMMA Cut ==
  ASSUME NEW S, NEW q \in Seq(S), IsInjective(q), NEW n \in 1 .. Len(q)
  PROVE  /\ IsInjective(SubSeq(q, 2, n)) /\ IsInjective(SubSeq(q, n + 1, Len(q)))
         /\ Range(q) = {Head(q)} \cup Range(SubSeq(q, 2, n)) \cup Range(SubSeq(q, n + 1, Len(q)))
         /\ Head(q) \notin Range(SubSeq(q, 2, n)) \cup Range(SubSeq(q, n + 1, Len(q)))
         /\ Range(SubSeq(q, 2, n)) \cap Range(SubSeq(q, n + 1, Len(q))) = {}
<1>1. PICK a, b : a = SubSeq(q, 2, n) /\ b = SubSeq(q, n + 1, Len(q)) OBVIOUS
<1>2. Len(q) \in Nat /\ DOMAIN q = 1 .. Len(q) /\ Head(q) = q[1] OBVIOUS
<1>3. /\ DOMAIN a = 1 .. (n - 1) /\ \A i \in 1 .. (n - 1) : a[i] = q[i + 1]
  BY <1>1, <1>2
<1>4. DOMAIN b = 1 .. (Len(q) - n) /\ \A i \in 1 .. (Len(q) - n) : b[i] = q[i + n]
  BY <1>1, <1>2
<1>0. n \in Nat /\ n >= 1 /\ n <= Len(q) BY <1>2
<1>12. ASSUME NEW i \in 1 .. Len(q), NEW j \in 1 .. Len(q), q[i] = q[j] PROVE i = j
  BY <1>2, <1>12 DEF IsInjective
<1>5. IsInjective(a)
  <2>1. ASSUME NEW i \in 1 .. (n - 1), NEW j \in 1 .. (n - 1), a[i] = a[j] PROVE i = j
    <3>1. i + 1 \in 1 .. Len(q) /\ j + 1 \in 1 .. Len(q) BY <1>0, <1>2
    <3>2. q[i + 1] = q[j + 1] BY <1>3, <2>1
    <3>3. i + 1 = j + 1 BY <1>12, <3>1, <3>2
    <3> QED BY <3>3
  <2> QED BY <1>3, <2>1 DEF IsInjective
<1>6. IsInjective(b) BY <1>0, <1>2, <1>4, <1>12 DEF IsInjective
<1>13. ASSUME NEW i \in DOMAIN a PROVE a[i] \in Range(q)
  <2>1. i + 1 \in DOMAIN q /\ a[i] = q[i + 1] BY <1>0, <1>2, <1>3
  <2> QED BY <2>1 DEF Range
<1>14. ASSUME NEW i \in DOMAIN b PROVE b[i] \in Range(q)
  <2>1. i + n \in DOMAIN q /\ b[i] = q[i + n] BY <1>0, <1>2, <1>4
  <2> QED BY <2>1 DEF Range
<1>7. Range(a) \cup Range(b) \subseteq Range(q) /\ Head(q) \in Range(q)
  <2>1. 1 \in DOMAIN q BY <1>0, <1>2
  <2>2. Head(q) \in Range(q) BY <1>2, <2>1 DEF Range
  <2> QED BY <1>13, <1>14, <2>2 DEF Range
<1>8. ASSUME NEW i \in DOMAIN q, q[i] # Head(q) PROVE q[i] \in Range(a) \cup Range(b)
  <2>1. CASE i <= n
    <3>1. i - 1 \in DOMAIN a /\ a[i - 1] = q[i] BY <1>2, <1>3, <1>8, <2>1
    <3> QED BY <3>1 DEF Range
  <2>2. CASE i > n
    <3>1. i - n \in DOMAIN b /\ b[i - n] = q[i] BY <1>2, <1>4, <1>8, <2>2
    <3> QED BY <3>1 DEF Range
  <2> QED BY <1>2, <2>1, <2>2
<1>15. ASSUME NEW i \in DOMAIN a PROVE a[i] # q[1] /\ \A j \in DOMAIN b : a[i] # b[j]
  <2>1. i + 1 \in 1 .. Len(q) /\ a[i] = q[i + 1] /\ 1 \in 1 .. Len(q) /\ i + 1 <= n /\ i + 1 # 1
    BY <1>0, <1>2, <1>3
  <2>2. ASSUME NEW j \in DOMAIN b PROVE a[i] # b[j]
    <3>1. j + n \in 1 .. Len(q) /\ b[j] = q[j + n] /\ j + n # i + 1 BY <1>0, <1>2, <1>4, <2>1
    <3> QED BY <1>12, <2>1, <3>1
  <2> QED BY <1>12, <2>1, <2>2
<1>16. ASSUME NEW j \in DOMAIN b PROVE b[j] # q[1]
  <2>1. j + n \in 1 .. Len(q) /\ b[j] = q[j + n] /\ j + n # 1 /\ 1 \in 1 .. Len(q)
    BY <1>0, <1>2, <1>4
  <2> QED BY <1>12, <2>1
<1>9. Head(q) \notin Range(a) \cup Range(b) BY <1>2, <1>15, <1>16 DEF Range
<1>10. Range(a) \cap Range(b) = {} BY <1>15 DEF Range
<1>11. Range(q) \subseteq {Head(q)} \cup Range(a) \cup Range(b) BY <1>8 DEF Range
<1> QED BY <1>1, <1>5, <1>6, <1>7, <1>9, <1>10, <1>11

(* What epoll_wait returns names no descriptor twice. *)
LEMMA EventsOnce ==
  ASSUME TypeOK, NEW e \in [1 .. Cardinality(ready) -> ready], Range(e) = ready
  PROVE  IsInjective(e)
<1>1. IsFiniteSet(ready) BY SchedulerAssumption, FS_Subset DEF TypeOK
<1>2. Cardinality(ready) \in Nat BY <1>1, FS_CardinalityType
<1>3. /\ IsFiniteSet(1 .. Cardinality(ready))
      /\ Cardinality(1 .. Cardinality(ready)) = Cardinality(ready)
  BY <1>2, FS_Interval
<1>4. e \in Surjection(1 .. Cardinality(ready), ready) BY DEF Surjection, Range
<1>5. e \in Injection(1 .. Cardinality(ready), ready)
  BY <1>3, <1>4, FS_SurjSameCardinalityImpliesInj
<1> QED BY <1>5 DEF Injection

-----------------------------------------------------------------------------
(* What a step does to each handler.                                       *)

DueKinds == {"queue", "private", "rest", "returning"}

Stays(h) == \A k \in Kinds, x \in Owners : At(h, k, x)' <=> At(h, k, x)

Goes(h, k, l) ==
  /\ \E x \in Owners : At(h, k, x)
  /\ \E y \in Owners : /\ At(h, l, y)'
                       /\ \A m \in Kinds, x \in Owners : At(h, m, x)' => m = l /\ x = y

(* Some handlers become due, if any. *)
Adds ==
  \A h \in Handlers :
    \/ Stays(h)
    \/ Goes(h, "fresh", "ops")
    \/ \E k \in DueKinds \cup {"fresh", "ops"}, l \in DueKinds : Goes(h, k, l)

Begins ==
  \E h \in Handlers :
    /\ \E k \in DueKinds : Goes(h, k, "running")
    /\ \A g \in Handlers \ {h} : Stays(g) \/ \E k, l \in DueKinds : Goes(g, k, l)

Ends ==
  \E h \in Handlers :
    /\ Goes(h, "running", "done")
    /\ \A g \in Handlers \ {h} : Stays(g) \/ \E k, l \in DueKinds : Goes(g, k, l)

LEMMA OnePlaceKept == ASSUME OnePlace, Adds \/ Begins \/ Ends PROVE OnePlace'
<1>1. SUFFICES ASSUME NEW h \in Handlers
               PROVE  (\A k, l \in Kinds, x, y \in Owners :
                         At(h, k, x) /\ At(h, l, y) => k = l /\ x = y)'
  BY DEF OnePlace
<1>2. Stays(h) \/ \E k, l \in Kinds : Goes(h, k, l) BY DEF Adds, Begins, Ends, DueKinds, Kinds
<1>3. CASE Stays(h)
  <2>1. \A k, l \in Kinds, x, y \in Owners : At(h, k, x) /\ At(h, l, y) => k = l /\ x = y
    BY DEF OnePlace
  <2> QED BY <1>3, <2>1 DEF Stays
<1>4. ASSUME NEW k \in Kinds, NEW l \in Kinds, Goes(h, k, l)
      PROVE  (\A m, n \in Kinds, x, y \in Owners :
                At(h, m, x) /\ At(h, n, y) => m = n /\ x = y)'
  BY <1>4 DEF Goes
<1> QED BY <1>2, <1>3, <1>4

(* A step that leaves all the queues with the handlers they had. *)
LEMMA StaysIf ==
  ASSUME NEW h \in Handlers,
         h \in fresh' <=> h \in fresh, h \in done' <=> h \in done,
         h \in Range(queue') <=> h \in Range(queue),
         \A d \in Descriptors : h \in Range(ops'[d]) <=> h \in Range(ops[d]),
         \A t \in Threads :
           /\ h \in Range(private'[t]) <=> h \in Range(private[t])
           /\ h \in Range(rest'[t]) <=> h \in Range(rest[t])
           /\ (pc'[t] = "returning" /\ h = current'[t]) <=> (pc[t] = "returning" /\ h = current[t])
           /\ (pc'[t] \in {"running", "posting"} /\ h = current'[t])
                <=> (pc[t] \in {"running", "posting"} /\ h = current[t])
  PROVE  Stays(h)
BY DEF Stays, At

(* Where a handler is, it is nowhere else. *)
LEMMA Alone ==
  ASSUME OnePlace, NEW h \in Handlers, NEW k \in Kinds, NEW x \in Owners, At(h, k, x)
  PROVE  \A l \in Kinds, y \in Owners : (l # k \/ y # x) => ~At(h, l, y)
BY DEF OnePlace

(* A handler that h says is only there. *)
LEMMA GoesIf ==
  ASSUME OnePlace, NEW h \in Handlers, NEW k \in Kinds, NEW x \in Owners, At(h, k, x),
         NEW l \in Kinds, NEW y \in Owners, At(h, l, y)', ~At(h, k, x)',
         \A m \in Kinds, z \in Owners :
            (m # l \/ z # y) /\ (m # k \/ z # x) => (At(h, m, z)' => At(h, m, z))
  PROVE  Goes(h, k, l)
<1>1. ASSUME NEW m \in Kinds, NEW z \in Owners, At(h, m, z)', ~(m = l /\ z = y) PROVE FALSE
  <2>1. ~(m = k /\ z = x) BY <1>1
  <2>2. At(h, m, z) BY <1>1, <2>1
  <2> QED BY <2>1, <2>2, Alone
<1> QED BY <1>1 DEF Goes

LEMMA StepPlaces == TInv /\ LInv /\ [Next]_vars => Adds \/ Begins \/ Ends
<1> SUFFICES ASSUME TInv, LInv, [Next]_vars PROVE Adds \/ Begins \/ Ends
  OBVIOUS
<1>0. TypeOK /\ Placed /\ OnePlace /\ NoRepeats /\ PrivateKinds /\ RestPlaced
  BY DEF TInv, LInv
<1> USE SchedulerAssumption
(* Steps that do not move a handler. *)
<1>1. ASSUME UNCHANGED <<queue, private, rest, fresh, done, ops, current>>,
             \A t \in Threads :
               \/ pc'[t] = pc[t]
               \/ /\ pc[t] \notin {"returning", "running", "posting"}
                  /\ pc'[t] \notin {"returning", "running", "posting"}
      PROVE  Adds
  <2>1. ASSUME NEW h \in Handlers PROVE Stays(h) BY <1>1, StaysIf
  <2> QED BY <2>1 DEF Adds
<1>2. ASSUME NEW t \in Threads, Signal(t) PROVE Adds
  BY <1>0, <1>1, <1>2 DEF Signal, Goto, TypeOK, handlerVars, socketVars
<1>3. ASSUME NEW t \in Threads, Reacquire(t) PROVE Adds
  BY <1>0, <1>1, <1>3 DEF Reacquire, Goto, TypeOK, handlerVars, socketVars
<1>4. ASSUME NEW t \in Threads, Sleep(t) PROVE Adds
  BY <1>0, <1>1, <1>4 DEF Sleep, Goto, TypeOK, handlerVars, socketVars
<1>5. ASSUME NEW t \in Threads, WakeSpuriously(t) PROVE Adds
  BY <1>0, <1>1, <1>5 DEF WakeSpuriously, Goto, TypeOK, schedulerVars, handlerVars, socketVars
<1>6. ASSUME NEW t \in Threads, TakeTask(t) PROVE Adds
  <2>1. /\ Range(queue) = {Task} \cup Range(queue') /\ pc[t] = "look"
        /\ \A u \in Threads \ {t} : pc'[u] = pc[u]
        /\ pc'[t] \in {"polling", "blocked"}
        /\ UNCHANGED <<private, rest, fresh, done, ops, current>>
    <3>1. queue \in Seq(Operations) /\ queue # <<>> /\ Head(queue) = Task /\ queue' = Tail(queue)
      BY <1>0, <1>6 DEF TakeTask, TypeOK
    <3>2. Range(queue) = {Task} \cup Range(queue') BY <1>0, <3>1, InjTail DEF NoRepeats
    <3> QED BY <1>0, <1>6, <3>2 DEF TakeTask, Goto, TypeOK, handlerVars, socketVars
  <2>2. ASSUME NEW h \in Handlers PROVE Stays(h)
    <3>1. h \in Range(queue') <=> h \in Range(queue) BY <2>1
    <3> QED BY <2>1, <3>1, StaysIf
  <2> QED BY <2>2 DEF Adds
<1>7. ASSUME NEW t \in Threads, TakeOperation(t) PROVE Adds \/ Begins
  <2>1. queue \in Seq(Operations) /\ queue # <<>> /\ queue' = Tail(queue) /\ Head(queue) # Task
    BY <1>0, <1>7 DEF TakeOperation, TypeOK
  <2>2. PICK o : o = Head(queue) OBVIOUS
  <2>3. /\ o \in Handlers \cup Descriptors /\ o \notin Range(queue')
        /\ Range(queue) = {o} \cup Range(queue')
    BY <1>0, <2>1, <2>2, InjTail, TailOf DEF NoRepeats, Operations
  <2>4. /\ pc[t] = "look" /\ current'[t] = o
        /\ pc'[t] = IF o \in Descriptors THEN "performing" ELSE "running"
        /\ \A u \in Threads \ {t} : pc'[u] = pc[u] /\ current'[u] = current[u]
        /\ UNCHANGED <<private, rest, fresh, done, ops>>
    BY <1>0, <1>7, <2>2 DEF TakeOperation, Goto, TypeOK, handlerVars, socketVars
  <2>5. ASSUME NEW h \in Handlers, h # o PROVE Stays(h)
    <3>1. h \in Range(queue') <=> h \in Range(queue) BY <2>3, <2>5
    <3> QED BY <2>4, <2>5, <3>1, StaysIf
  <2>6. CASE o \in Descriptors
    <3>1. \A h \in Handlers : h # o BY <2>6
    <3> QED BY <2>5, <3>1 DEF Adds
  <2>7. CASE o \in Handlers
    <3>1. At(o, "queue", Nobody) /\ ~At(o, "queue", Nobody)' BY <2>3 DEF At
    <3>2. At(o, "running", t)' BY <2>4, <2>7 DEF At
    <3>3. ASSUME NEW m \in Kinds, NEW z \in Owners, m # "running" \/ z # t,
                 m # "queue" \/ z # Nobody, At(o, m, z)'
          PROVE  At(o, m, z)
      BY <2>4, <2>7, <3>3 DEF At
    <3>4. Goes(o, "queue", "running")
      <4>1. "queue" \in Kinds /\ "running" \in Kinds /\ Nobody \in Owners /\ t \in Owners
        BY DEF Kinds, Owners
      <4> QED BY <1>0, <2>7, <3>1, <3>2, <3>3, <4>1, GoesIf
    <3>5. "queue" \in DueKinds BY DEF DueKinds
    <3> QED BY <2>5, <2>7, <3>4, <3>5 DEF Begins
  <2> QED BY <2>3, <2>6, <2>7
<1>8. ASSUME NEW t \in Threads, reactor_run(t) PROVE Adds
  <2>1. PICK e \in [1 .. Cardinality(ready) -> ready] :
          Range(e) = ready /\ private' = [private EXCEPT ![t] = e]
    BY <1>8 DEF reactor_run
  <2>2. /\ pc[t] \in {"polling", "blocked"} /\ pc'[t] = "cleanup"
        /\ \A u \in Threads \ {t} : pc'[u] = pc[u] /\ private'[u] = private[u]
        /\ Range(private'[t]) \subseteq Descriptors
        /\ UNCHANGED <<queue, current, rest, fresh, done, ops>>
    BY <1>0, <1>8, <2>1 DEF reactor_run, Goto, TypeOK, schedulerVars, handlerVars, socketVars
  <2>3. Range(private[t]) = {}
    <3>1. private[t] = <<>> BY <1>0, <2>2 DEF Placed, Idle
    <3> QED BY <3>1, Empty
  <2>4. ASSUME NEW h \in Handlers PROVE Stays(h)
    <3>1. \A u \in Threads : h \in Range(private'[u]) <=> h \in Range(private[u])
      BY <2>2, <2>3
    <3> QED BY <2>2, <3>1, StaysIf
  <2> QED BY <2>4 DEF Adds
<1>9. ASSUME NEW t \in Threads, task_cleanup(t) PROVE Adds
  <2>1. /\ queue' = (queue \o private[t]) \o <<Task>> /\ private'[t] = <<>>
        /\ pc[t] = "cleanup" /\ pc'[t] = "look"
        /\ \A u \in Threads \ {t} : pc'[u] = pc[u] /\ private'[u] = private[u]
        /\ UNCHANGED <<current, rest, fresh, done, ops>>
    BY <1>0, <1>9 DEF task_cleanup, Goto, TypeOK, handlerVars, socketVars
  <2>2. Range(private[t]) \subseteq Descriptors BY <1>0, <2>1 DEF PrivateKinds
  <2>3. Range(queue') = Range(queue) \cup Range(private[t]) \cup {Task}
    <3>1. PICK q, p, r : q = queue /\ p = private[t] /\ r = <<Task>> OBVIOUS
    <3>2. q \in Seq(Operations) /\ p \in Seq(Operations) /\ r \in Seq(Operations)
      BY <1>0, <3>1 DEF TypeOK, Operations
    <3>3. Range((q \o p) \o r) = (Range(q) \cup Range(p)) \cup Range(r)
      BY <3>2, RangeConcat3
    <3>4. Range(r) = {Task} BY <3>1, One
    <3> QED BY <2>1, <3>1, <3>3, <3>4
  <2>4. Range(private'[t]) = {} BY <2>1, Empty
  <2>5. ASSUME NEW h \in Handlers PROVE Stays(h)
    <3>1. h \in Range(queue') <=> h \in Range(queue) BY <2>2, <2>3
    <3>2. \A u \in Threads : h \in Range(private'[u]) <=> h \in Range(private[u])
      BY <2>1, <2>2, <2>4
    <3> QED BY <2>1, <3>1, <3>2, StaysIf
  <2> QED BY <2>5 DEF Adds
<1>10. ASSUME NEW t \in Threads, perform_io(t) PROVE Adds
  <2>1. PICK d \in Descriptors : d = current[t] /\ pc[t] = "performing"
    BY <1>0, <1>10 DEF perform_io, Placed
  <2>2. PICK q, n : q = ops[d] /\ n = Completed(d, q) OBVIOUS
  <2>3. q \in Seq(Handlers) /\ n \in 0 .. Len(q) /\ Len(q) \in Nat /\ IsInjective(q)
    BY <1>0, <2>2, CompletedInRange DEF TypeOK, NoRepeats
  <2>4. /\ ops' = [ops EXCEPT ![d] = SubSeq(q, n + 1, Len(q))]
        /\ UNCHANGED <<queue, private, fresh, done>>
        /\ IF n = 0
           THEN pc' = [pc EXCEPT ![t] = "look"] /\ UNCHANGED <<current, rest>>
           ELSE /\ pc' = [pc EXCEPT ![t] = "returning"]
                /\ current' = [current EXCEPT ![t] = Head(q)]
                /\ rest' = [rest EXCEPT ![t] = SubSeq(q, 2, n)]
    BY <1>10, <2>1, <2>2 DEF perform_io, Goto, schedulerVars, handlerVars
  <2>5. /\ ops'[d] = SubSeq(q, n + 1, Len(q)) /\ \A e \in Descriptors \ {d} : ops'[e] = ops[e]
        /\ \A u \in Threads \ {t} :
             pc'[u] = pc[u] /\ current'[u] = current[u] /\ rest'[u] = rest[u]
    BY <1>0, <2>4 DEF TypeOK
  <2>6. CASE n = 0
    <3>1. ops'[d] = ops[d] BY <2>2, <2>3, <2>5, <2>6
    <3>2. UNCHANGED <<queue, private, fresh, done, current, rest>> /\ pc'[t] = "look"
      BY <1>0, <2>4, <2>6 DEF TypeOK
    <3>3. ASSUME NEW h \in Handlers PROVE Stays(h)
      BY <2>1, <2>5, <3>1, <3>2, StaysIf
    <3> QED BY <3>3 DEF Adds
  <2>7. CASE n # 0
    <3>1. PICK x, a, b : x = Head(q) /\ a = SubSeq(q, 2, n) /\ b = SubSeq(q, n + 1, Len(q))
      OBVIOUS
    <3>2. /\ Range(q) = {x} \cup Range(a) \cup Range(b)
          /\ x \notin Range(a) \cup Range(b) /\ Range(a) \cap Range(b) = {}
      <4>1. n \in 1 .. Len(q) BY <2>3, <2>7
      <4> QED BY <2>3, <3>1, <4>1, Cut
    <3>3. /\ pc'[t] = "returning" /\ current'[t] = x /\ rest'[t] = a /\ ops'[d] = b
          /\ UNCHANGED <<queue, private, fresh, done>>
      BY <1>0, <2>4, <2>5, <2>7, <3>1 DEF TypeOK
    <3>4. Range(rest[t]) = {}
      <4>1. rest[t] = <<>> BY <1>0, <2>1 DEF RestPlaced
      <4> QED BY <4>1, Empty
    <3>5. /\ "ops" \in Kinds /\ "rest" \in Kinds /\ "returning" \in Kinds /\ d \in Owners
          /\ t \in Owners /\ "rest" \in DueKinds /\ "returning" \in DueKinds
      BY DEF Kinds, Owners, DueKinds
    <3>6. ASSUME NEW h \in Handlers, h \notin {x} \cup Range(a) PROVE Stays(h)
      <4>1. \A e \in Descriptors : h \in Range(ops'[e]) <=> h \in Range(ops[e])
        BY <2>2, <2>5, <3>2, <3>3, <3>6
      <4>2. \A u \in Threads : h \in Range(rest'[u]) <=> h \in Range(rest[u])
        BY <2>5, <3>3, <3>4, <3>6
      <4> QED BY <2>1, <2>5, <3>3, <3>6, <4>1, <4>2, StaysIf
    <3>7. ASSUME NEW h \in Handlers, h = x PROVE Goes(h, "ops", "returning")
      <4>1. At(h, "ops", d) /\ ~At(h, "ops", d)' BY <2>2, <3>2, <3>3, <3>7 DEF At
      <4>2. At(h, "returning", t)' BY <3>3, <3>7 DEF At
      <4>3. ASSUME NEW m \in Kinds, NEW z \in Owners, m # "returning" \/ z # t,
                   m # "ops" \/ z # d, At(h, m, z)'
            PROVE  At(h, m, z)
        BY <2>5, <3>2, <3>3, <3>7, <4>3 DEF At
      <4> QED BY <1>0, <3>5, <4>1, <4>2, <4>3, GoesIf
    <3>8. ASSUME NEW h \in Handlers, h \in Range(a) PROVE Goes(h, "ops", "rest")
      <4>1. At(h, "ops", d) /\ ~At(h, "ops", d)' BY <2>2, <3>2, <3>3, <3>8 DEF At
      <4>2. At(h, "rest", t)' BY <3>3, <3>8 DEF At
      <4>3. ASSUME NEW m \in Kinds, NEW z \in Owners, m # "rest" \/ z # t,
                   m # "ops" \/ z # d, At(h, m, z)'
            PROVE  At(h, m, z)
        BY <2>5, <3>2, <3>3, <3>8, <4>3 DEF At
      <4> QED BY <1>0, <3>5, <4>1, <4>2, <4>3, GoesIf
    <3> QED BY <3>5, <3>6, <3>7, <3>8 DEF Adds
  <2> QED BY <2>6, <2>7
<1>11. ASSUME NEW t \in Threads, PostOps(t) PROVE Adds \/ Begins
  <2>1. /\ queue' = queue \o rest[t] /\ rest'[t] = <<>> /\ pc'[t] = "running"
        /\ pc[t] \in {"posting", "returning"}
        /\ \A u \in Threads \ {t} : pc'[u] = pc[u] /\ rest'[u] = rest[u]
        /\ UNCHANGED <<current, private, fresh, done, ops>>
    BY <1>0, <1>11 DEF PostOps, Goto, TypeOK, handlerVars, socketVars
  <2>2. Range(queue') = Range(queue) \cup Range(rest[t]) /\ Range(rest'[t]) = {}
    <3>1. queue \in Seq(Operations) /\ rest[t] \in Seq(Operations)
      BY <1>0 DEF TypeOK, Operations
    <3>2. Range(queue \o rest[t]) = Range(queue) \cup Range(rest[t]) BY <3>1, RangeConcat
    <3> QED BY <2>1, <3>2, Empty
  <2>3. /\ "queue" \in Kinds /\ "rest" \in Kinds /\ "returning" \in Kinds /\ "running" \in Kinds
        /\ Nobody \in Owners /\ t \in Owners
        /\ "rest" \in DueKinds /\ "queue" \in DueKinds /\ "returning" \in DueKinds
    BY DEF Kinds, Owners, DueKinds
  <2>4. ASSUME NEW h \in Handlers, h \in Range(rest[t]) PROVE Goes(h, "rest", "queue")
    <3>1. At(h, "rest", t) /\ ~At(h, "rest", t)' /\ At(h, "queue", Nobody)'
      BY <2>2, <2>4 DEF At
    <3>2. ~At(h, "returning", t) /\ ~At(h, "running", t) BY <1>0, <2>3, <2>4, <3>1, Alone
    <3>3. current[t] # h BY <2>1, <3>2 DEF At
    <3>4. ASSUME NEW m \in Kinds, NEW z \in Owners, m # "queue" \/ z # Nobody,
                 m # "rest" \/ z # t, At(h, m, z)'
          PROVE  At(h, m, z)
      BY <2>1, <2>2, <2>4, <3>3, <3>4 DEF At
    <3> QED BY <1>0, <2>3, <3>1, <3>4, GoesIf
  <2>5. ASSUME NEW h \in Handlers, h \notin Range(rest[t]),
               pc[t] = "posting" \/ h # current[t]
        PROVE  Stays(h)
    <3>1. h \in Range(queue') <=> h \in Range(queue) BY <2>2, <2>5
    <3>2. \A u \in Threads : h \in Range(rest'[u]) <=> h \in Range(rest[u])
      BY <2>1, <2>2, <2>5
    <3>3. \A u \in Threads :
            /\ (pc'[u] = "returning" /\ h = current'[u])
                 <=> (pc[u] = "returning" /\ h = current[u])
            /\ (pc'[u] \in {"running", "posting"} /\ h = current'[u])
                 <=> (pc[u] \in {"running", "posting"} /\ h = current[u])
      BY <2>1, <2>5
    <3> QED BY <2>1, <3>1, <3>2, <3>3, StaysIf
  <2>6. CASE pc[t] = "posting" BY <2>3, <2>4, <2>5, <2>6 DEF Adds
  <2>7. CASE pc[t] = "returning"
    <3>1. PICK h \in Handlers : h = current[t] BY <1>0, <2>7 DEF Placed
    <3>2. At(h, "returning", t) /\ ~At(h, "returning", t)' /\ At(h, "running", t)'
      BY <2>1, <2>7, <3>1 DEF At
    <3>3. ~At(h, "rest", t) BY <1>0, <2>3, <3>2, Alone
    <3>4. h \notin Range(rest[t]) BY <3>3 DEF At
    <3>5. ASSUME NEW m \in Kinds, NEW z \in Owners, m # "running" \/ z # t,
                 m # "returning" \/ z # t, At(h, m, z)'
          PROVE  At(h, m, z)
      BY <2>1, <2>2, <3>4, <3>5 DEF At
    <3>6. Goes(h, "returning", "running") BY <1>0, <2>3, <3>2, <3>5, GoesIf
    <3> QED BY <2>3, <2>4, <2>5, <3>1, <3>6 DEF Begins
  <2> QED BY <2>1, <2>6, <2>7
<1>12. ASSUME NEW t \in Threads, Upcall(t) PROVE Begins
  <2>1. /\ pc[t] = "returning" /\ pc'[t] = "running"
        /\ \A u \in Threads \ {t} : pc'[u] = pc[u]
        /\ UNCHANGED <<queue, rest, current, private, fresh, done, ops>>
    BY <1>0, <1>12 DEF Upcall, Goto, TypeOK, schedulerVars, handlerVars, socketVars
  <2>2. PICK h \in Handlers : h = current[t] BY <1>0, <2>1 DEF Placed
  <2>3. At(h, "returning", t) /\ ~At(h, "returning", t)' /\ At(h, "running", t)'
    BY <2>1, <2>2 DEF At
  <2>4. ASSUME NEW m \in Kinds, NEW z \in Owners, m # "running" \/ z # t,
               m # "returning" \/ z # t, At(h, m, z)'
        PROVE  At(h, m, z)
    BY <2>1, <2>4 DEF At
  <2>5. "returning" \in Kinds /\ "running" \in Kinds /\ t \in Owners /\ "returning" \in DueKinds
    BY DEF Kinds, Owners, DueKinds
  <2>6. Goes(h, "returning", "running") BY <1>0, <2>3, <2>4, <2>5, GoesIf
  <2>7. ASSUME NEW g \in Handlers \ {h} PROVE Stays(g)
    <3>1. g \in Handlers /\ g # current[t] BY <2>2, <2>7
    <3> QED BY <2>1, <3>1, StaysIf
  <2> QED BY <2>5, <2>6, <2>7 DEF Begins
<1>13. ASSUME NEW t \in Threads, Return(t) PROVE Ends
  <2>1. /\ queue' = queue \o private[t] \/ (UNCHANGED queue /\ private[t] = <<>>)
        /\ private'[t] = <<>> /\ pc[t] = "running" /\ pc'[t] = "look"
        /\ \A u \in Threads \ {t} : pc'[u] = pc[u] /\ private'[u] = private[u]
        /\ done' = done \cup {current[t]}
        /\ UNCHANGED <<current, rest, fresh, ops>>
    BY <1>0, <1>13 DEF Return, Running, Goto, TypeOK, socketVars
  <2>2. Range(queue') = Range(queue) \cup Range(private[t]) /\ Range(private'[t]) = {}
    <3>1. queue \in Seq(Operations) /\ private[t] \in Seq(Operations)
      BY <1>0 DEF TypeOK, Operations
    <3>2. Range(queue \o private[t]) = Range(queue) \cup Range(private[t]) BY <3>1, RangeConcat
    <3> QED BY <2>1, <3>2, Empty
  <2>3. /\ "queue" \in Kinds /\ "private" \in Kinds /\ "running" \in Kinds /\ "done" \in Kinds
        /\ Nobody \in Owners /\ t \in Owners /\ "private" \in DueKinds /\ "queue" \in DueKinds
    BY DEF Kinds, Owners, DueKinds
  <2>4. PICK h \in Handlers : h = current[t] BY <1>0, <2>1 DEF Placed
  <2>5. At(h, "running", t) /\ ~At(h, "running", t)' /\ At(h, "done", Nobody)'
    BY <2>1, <2>4 DEF At
  <2>6. h \notin Range(private[t])
    <3>1. ~At(h, "private", t) BY <1>0, <2>3, <2>5, Alone
    <3> QED BY <3>1 DEF At
  <2>7. Goes(h, "running", "done")
    <3>1. ASSUME NEW m \in Kinds, NEW z \in Owners, m # "done" \/ z # Nobody,
                 m # "running" \/ z # t, At(h, m, z)'
          PROVE  At(h, m, z)
      BY <2>1, <2>2, <2>4, <2>6, <3>1 DEF At
    <3> QED BY <1>0, <2>3, <2>5, <3>1, GoesIf
  <2>8. ASSUME NEW g \in Handlers, g # h, g \in Range(private[t]) PROVE Goes(g, "private", "queue")
    <3>1. At(g, "private", t) /\ ~At(g, "private", t)' /\ At(g, "queue", Nobody)'
      BY <2>2, <2>8 DEF At
    <3>2. ASSUME NEW m \in Kinds, NEW z \in Owners, m # "queue" \/ z # Nobody,
                 m # "private" \/ z # t, At(g, m, z)'
          PROVE  At(g, m, z)
      BY <2>1, <2>2, <2>4, <2>8, <3>2 DEF At
    <3> QED BY <1>0, <2>3, <3>1, <3>2, GoesIf
  <2>9. ASSUME NEW g \in Handlers, g # h, g \notin Range(private[t]) PROVE Stays(g)
    <3>1. (g \in Range(queue') <=> g \in Range(queue)) /\ (g \in done' <=> g \in done)
      BY <2>1, <2>2, <2>4, <2>9
    <3>2. \A u \in Threads : g \in Range(private'[u]) <=> g \in Range(private[u])
      BY <2>1, <2>2, <2>9
    <3> QED BY <2>1, <2>4, <2>9, <3>1, <3>2, StaysIf
  <2> QED BY <2>3, <2>7, <2>8, <2>9 DEF Ends
(* A handler that is posted, or that is to wait for input. *)
<1>14. ASSUME NEW t \in Threads, NEW h \in Handlers, pc[t] = "running", h \in fresh,
              fresh' = fresh \ {h}, UNCHANGED <<queue, current, done>>,
              \/ /\ UNCHANGED ops
                 /\ \E c \in BOOLEAN : PostHandler(t, h, c)
              \/ /\ UNCHANGED <<private, pc, rest>>
                 /\ \E d \in Descriptors : ops' = [ops EXCEPT ![d] = Append(ops[d], h)]
       PROVE  Adds
  <2>1. /\ "fresh" \in Kinds /\ "private" \in Kinds /\ "rest" \in Kinds /\ "ops" \in Kinds
        /\ Nobody \in Owners /\ t \in Owners /\ "private" \in DueKinds /\ "rest" \in DueKinds
    BY DEF Kinds, Owners, DueKinds
  <2>2. At(h, "fresh", Nobody) /\ ~At(h, "fresh", Nobody)' BY <1>14 DEF At
  <2>3. CASE UNCHANGED ops /\ PostHandler(t, h, TRUE)
    <3>1. /\ Range(private'[t]) = Range(private[t]) \cup {h}
          /\ \A u \in Threads \ {t} : private'[u] = private[u]
          /\ UNCHANGED <<pc, rest>>
      <4>1. private' = [private EXCEPT ![t] = Append(private[t], h)] /\ UNCHANGED <<pc, rest>>
        BY <2>3 DEF PostHandler
      <4>2. private[t] \in Seq(Handlers \cup Descriptors) /\ h \in Handlers \cup Descriptors
        BY <1>0 DEF TypeOK
      <4>3. Range(Append(private[t], h)) = Range(private[t]) \cup {h} BY <4>2, InjAppend
      <4> QED BY <1>0, <4>1, <4>3 DEF TypeOK
    <3>2. Goes(h, "fresh", "private")
      <4>1. At(h, "private", t)' BY <3>1 DEF At
      <4>2. ASSUME NEW m \in Kinds, NEW z \in Owners, m # "private" \/ z # t,
                   m # "fresh" \/ z # Nobody, At(h, m, z)'
            PROVE  At(h, m, z)
        BY <1>14, <2>3, <3>1, <4>2 DEF At
      <4> QED BY <1>0, <2>1, <2>2, <4>1, <4>2, GoesIf
    <3>3. ASSUME NEW g \in Handlers, g # h PROVE Stays(g)
      <4>1. \A u \in Threads : g \in Range(private'[u]) <=> g \in Range(private[u])
        BY <3>1, <3>3
      <4> QED BY <1>14, <2>3, <3>1, <3>3, <4>1, StaysIf
    <3> QED BY <2>1, <3>2, <3>3 DEF Adds
  <2>4. CASE UNCHANGED ops /\ PostHandler(t, h, FALSE)
    <3>1. /\ Range(rest'[t]) = {h} /\ Range(rest[t]) = {}
          /\ \A u \in Threads \ {t} : rest'[u] = rest[u] /\ pc'[u] = pc[u]
          /\ pc'[t] = "posting" /\ UNCHANGED private
      <4>1. rest' = [rest EXCEPT ![t] = <<h>>] /\ pc' = [pc EXCEPT ![t] = "posting"]
            /\ UNCHANGED private
        BY <2>4 DEF PostHandler, Goto
      <4>2. rest[t] = <<>> BY <1>0, <1>14 DEF RestPlaced
      <4> QED BY <1>0, <4>1, <4>2, One, Empty DEF TypeOK
    <3>2. Goes(h, "fresh", "rest")
      <4>1. At(h, "rest", t)' BY <3>1 DEF At
      <4>2. ASSUME NEW m \in Kinds, NEW z \in Owners, m # "rest" \/ z # t,
                   m # "fresh" \/ z # Nobody, At(h, m, z)'
            PROVE  At(h, m, z)
        BY <1>14, <2>4, <3>1, <4>2 DEF At
      <4> QED BY <1>0, <2>1, <2>2, <4>1, <4>2, GoesIf
    <3>3. ASSUME NEW g \in Handlers, g # h PROVE Stays(g)
      <4>1. \A u \in Threads : g \in Range(rest'[u]) <=> g \in Range(rest[u])
        BY <3>1, <3>3
      <4> QED BY <1>14, <2>4, <3>1, <3>3, <4>1, StaysIf
    <3> QED BY <2>1, <3>2, <3>3 DEF Adds
  <2>5. CASE UNCHANGED <<private, pc, rest>>
               /\ \E d \in Descriptors : ops' = [ops EXCEPT ![d] = Append(ops[d], h)]
    <3>1. PICK d \in Descriptors : ops' = [ops EXCEPT ![d] = Append(ops[d], h)] BY <2>5
    <3>2. /\ Range(ops'[d]) = Range(ops[d]) \cup {h}
          /\ \A e \in Descriptors \ {d} : ops'[e] = ops[e]
      <4>1. ops[d] \in Seq(Handlers) BY <1>0 DEF TypeOK
      <4>2. Range(Append(ops[d], h)) = Range(ops[d]) \cup {h} BY <4>1, InjAppend
      <4> QED BY <1>0, <3>1, <4>2 DEF TypeOK
    <3>3. Goes(h, "fresh", "ops")
      <4>1. At(h, "ops", d)' /\ d \in Owners BY <3>2 DEF At, Owners
      <4>2. ASSUME NEW m \in Kinds, NEW z \in Owners, m # "ops" \/ z # d,
                   m # "fresh" \/ z # Nobody, At(h, m, z)'
            PROVE  At(h, m, z)
        BY <1>14, <2>5, <3>2, <4>2 DEF At
      <4> QED BY <1>0, <2>1, <2>2, <4>1, <4>2, GoesIf
    <3>4. ASSUME NEW g \in Handlers, g # h PROVE Stays(g)
      <4>1. \A e \in Descriptors : g \in Range(ops'[e]) <=> g \in Range(ops[e])
        BY <3>2, <3>4
      <4> QED BY <1>14, <2>5, <3>4, <4>1, StaysIf
    <3> QED BY <3>3, <3>4 DEF Adds
  <2> QED BY <1>14, <2>3, <2>4, <2>5
<1>15. ASSUME NEW t \in Threads, NEW h \in Handlers, Post(t, h) PROVE Adds
  BY <1>14, <1>15 DEF Post, Running, schedulerVars, socketVars
<1>16. ASSUME NEW t \in Threads, NEW d \in Descriptors, NEW h \in Handlers, start_op(t, d, h)
       PROVE  Adds
  <2>1. /\ pc[t] = "running" /\ h \in fresh /\ fresh' = fresh \ {h}
        /\ UNCHANGED <<queue, current, done>>
        /\ \/ UNCHANGED ops /\ \E c \in BOOLEAN : PostHandler(t, h, c)
           \/ /\ UNCHANGED <<private, pc, rest>>
              /\ ops' = [ops EXCEPT ![d] = Append(ops[d], h)]
    BY <1>16 DEF start_op, Running, schedulerVars
  <2> QED BY <1>14, <2>1
<1>17. ASSUME NEW t \in Threads, NEW d \in Descriptors, deregister_descriptor(t, d) PROVE Adds
  <2>1. /\ ops' = [ops EXCEPT ![d] = <<>>] /\ pc[t] = "running"
        /\ IF ops[d] = <<>> THEN UNCHANGED <<rest, pc>>
           ELSE rest' = [rest EXCEPT ![t] = ops[d]] /\ pc' = [pc EXCEPT ![t] = "posting"]
        /\ UNCHANGED <<queue, current, private, fresh, done>>
    BY <1>17 DEF deregister_descriptor, Running, Goto, schedulerVars, handlerVars
  <2>2. Range(rest[t]) = {}
    <3>1. rest[t] = <<>> BY <1>0, <2>1 DEF RestPlaced
    <3> QED BY <3>1, Empty
  <2>3. /\ Range(ops'[d]) = {} /\ \A e \in Descriptors \ {d} : ops'[e] = ops[e]
        /\ Range(rest'[t]) = Range(ops[d])
        /\ \A u \in Threads \ {t} : rest'[u] = rest[u] /\ pc'[u] = pc[u]
        /\ pc'[t] \in {"running", "posting"}
    <3>1. /\ ops'[d] = <<>> /\ \A e \in Descriptors \ {d} : ops'[e] = ops[e]
          /\ \A u \in Threads \ {t} : rest'[u] = rest[u] /\ pc'[u] = pc[u]
          /\ pc'[t] \in {"running", "posting"}
      BY <1>0, <2>1 DEF TypeOK
    <3>2. rest'[t] = ops[d] \/ (ops[d] = <<>> /\ rest'[t] = rest[t])
      BY <1>0, <2>1 DEF TypeOK
    <3> QED BY <2>2, <3>1, <3>2, Empty
  <2>4. ASSUME NEW h \in Handlers, h \in Range(ops[d]) PROVE Goes(h, "ops", "rest")
    <3>1. At(h, "ops", d) /\ ~At(h, "ops", d)' /\ At(h, "rest", t)' BY <2>3, <2>4 DEF At
    <3>2. ASSUME NEW m \in Kinds, NEW z \in Owners, m # "rest" \/ z # t,
                 m # "ops" \/ z # d, At(h, m, z)'
          PROVE  At(h, m, z)
      BY <2>1, <2>3, <3>2 DEF At
    <3>3. "ops" \in Kinds /\ "rest" \in Kinds /\ d \in Owners /\ t \in Owners
      BY DEF Kinds, Owners
    <3> QED BY <1>0, <3>1, <3>2, <3>3, GoesIf
  <2>5. ASSUME NEW h \in Handlers, h \notin Range(ops[d]) PROVE Stays(h)
    <3>1. /\ \A e \in Descriptors : h \in Range(ops'[e]) <=> h \in Range(ops[e])
          /\ \A u \in Threads : h \in Range(rest'[u]) <=> h \in Range(rest[u])
      BY <2>2, <2>3, <2>5
    <3> QED BY <2>1, <2>3, <3>1, StaysIf
  <2>6. "rest" \in DueKinds BY DEF DueKinds
  <2> QED BY <2>4, <2>5, <2>6 DEF Adds
<1>18. ASSUME NEW d \in Descriptors, Arrive(d) \/ PeerCloses(d) PROVE Adds
  BY <1>1, <1>18 DEF Arrive, PeerCloses, schedulerVars, threadVars, handlerVars, socketVars
<1>19. CASE UNCHANGED vars
  BY <1>1, <1>19 DEF vars, schedulerVars, threadVars, handlerVars, socketVars
<1> QED
  BY <1>2, <1>3, <1>4, <1>5, <1>6, <1>7, <1>8, <1>9, <1>10, <1>11, <1>12, <1>13, <1>15, <1>16,
     <1>17, <1>18, <1>19 DEF Next, Step, Handler

LEMMA StepRepeats == TInv /\ LInv /\ [Next]_vars => NoRepeats'
<1> SUFFICES ASSUME TInv, LInv, [Next]_vars PROVE NoRepeats'
  OBVIOUS
<1>0. TypeOK /\ Placed /\ OnePlace /\ NoRepeats /\ BeforeTask /\ PrivateKinds
  BY DEF TInv, LInv
<1> USE SchedulerAssumption
<1>1. ASSUME UNCHANGED <<queue, private, rest, ops>> PROVE NoRepeats'
  BY <1>0, <1>1 DEF NoRepeats
<1>2. ASSUME NEW t \in Threads,
             Signal(t) \/ Reacquire(t) \/ Sleep(t) \/ WakeSpuriously(t) \/ Upcall(t)
      PROVE  NoRepeats'
  BY <1>1, <1>2 DEF Signal, Reacquire, Sleep, WakeSpuriously, Upcall, schedulerVars, socketVars
<1>3. ASSUME NEW t \in Threads, TakeTask(t) \/ TakeOperation(t) PROVE NoRepeats'
  <2>1. /\ queue \in Seq(Operations) /\ queue # <<>> /\ queue' = Tail(queue)
        /\ UNCHANGED <<private, rest, ops>>
    BY <1>0, <1>3 DEF TakeTask, TakeOperation, TypeOK, socketVars
  <2>2. IsInjective(queue') BY <1>0, <2>1, InjTail DEF NoRepeats
  <2> QED BY <1>0, <2>1, <2>2 DEF NoRepeats
<1>4. ASSUME NEW t \in Threads, reactor_run(t) PROVE NoRepeats'
  <2>1. PICK e \in [1 .. Cardinality(ready) -> ready] :
          Range(e) = ready /\ private' = [private EXCEPT ![t] = e]
    BY <1>4 DEF reactor_run
  <2>2. IsInjective(e) BY <1>0, <2>1, EventsOnce
  <2>3. private'[t] = e /\ \A u \in Threads \ {t} : private'[u] = private[u]
    BY <1>0, <2>1 DEF TypeOK
  <2>4. UNCHANGED <<queue, rest, ops>> BY <1>4 DEF reactor_run, schedulerVars, socketVars
  <2> QED BY <1>0, <2>2, <2>3, <2>4 DEF NoRepeats
<1>5. ASSUME NEW t \in Threads, task_cleanup(t) PROVE NoRepeats'
  <2>1. PICK q, p, r : q = queue /\ p = private[t] /\ r = <<Task>> OBVIOUS
  <2>2. /\ queue' = (q \o p) \o r /\ private'[t] = <<>> /\ pc[t] = "cleanup"
        /\ \A u \in Threads \ {t} : private'[u] = private[u]
        /\ UNCHANGED <<rest, ops>>
    BY <1>0, <1>5, <2>1 DEF task_cleanup, TypeOK, socketVars
  <2>3. q \in Seq(Operations) /\ p \in Seq(Operations) /\ r \in Seq(Operations)
    BY <1>0, <2>1 DEF TypeOK, Operations
  <2>4. IsInjective(q) /\ IsInjective(p) /\ IsInjective(r) /\ Range(r) = {Task}
    BY <1>0, <2>1, One DEF NoRepeats
  <2>5. Range(q) \subseteq Handlers /\ Range(p) \subseteq Descriptors
    BY <1>0, <2>1, <2>2 DEF BeforeTask, PrivateKinds, HasTask
  <2>6. PICK qp : qp = q \o p OBVIOUS
  <2>7. qp \in Seq(Operations) BY <2>3, <2>6
  <2>8. Range(qp) = Range(q) \cup Range(p) BY <2>3, <2>6, RangeConcat
  <2>9. IsInjective(qp)
    <3>1. Range(q) \cap Range(p) = {} BY <2>5
    <3> QED BY <2>3, <2>4, <2>6, <3>1, InjConcat
  <2>10. IsInjective(queue')
    <3>1. Range(qp) \cap Range(r) = {} BY <2>4, <2>5, <2>8
    <3>2. IsInjective(qp \o r) BY <2>3, <2>4, <2>7, <2>9, <3>1, InjConcat
    <3> QED BY <2>2, <2>6, <3>2
  <2> QED BY <1>0, <2>2, <2>10, Empty DEF NoRepeats
<1>6. ASSUME NEW t \in Threads, perform_io(t) PROVE NoRepeats'
  <2>1. PICK d \in Descriptors : d = current[t]
    BY <1>0, <1>6 DEF perform_io, Placed
  <2>2. PICK q, n : q = ops[d] /\ n = Completed(d, q) OBVIOUS
  <2>3. q \in Seq(Handlers) /\ n \in 0 .. Len(q) /\ Len(q) \in Nat /\ IsInjective(q)
    BY <1>0, <2>2, CompletedInRange DEF TypeOK, NoRepeats
  <2>4. /\ ops'[d] = SubSeq(q, n + 1, Len(q)) /\ \A e \in Descriptors \ {d} : ops'[e] = ops[e]
        /\ UNCHANGED <<queue, private>>
        /\ \A u \in Threads \ {t} : rest'[u] = rest[u]
        /\ IF n = 0 THEN UNCHANGED rest ELSE rest'[t] = SubSeq(q, 2, n)
    BY <1>0, <1>6, <2>1, <2>2 DEF perform_io, schedulerVars, TypeOK
  <2>5. CASE n = 0
    <3>1. ops'[d] = ops[d] BY <2>2, <2>3, <2>4, <2>5
    <3> QED BY <1>0, <2>4, <2>5, <3>1 DEF NoRepeats
  <2>6. CASE n # 0
    <3>1. n \in 1 .. Len(q) BY <2>3, <2>6
    <3>2. IsInjective(SubSeq(q, 2, n)) /\ IsInjective(SubSeq(q, n + 1, Len(q)))
      BY <2>3, <3>1, Cut
    <3> QED BY <1>0, <2>4, <2>6, <3>2 DEF NoRepeats
  <2> QED BY <2>5, <2>6
(* A thread leaves what it has to the queue. *)
<1>7. ASSUME NEW p \in Seq(Operations), IsInjective(p), Range(p) \cap Range(queue) = {},
             queue' = queue \o p
      PROVE  IsInjective(queue')
  <2>1. queue \in Seq(Operations) /\ IsInjective(queue) BY <1>0 DEF TypeOK, NoRepeats
  <2> QED BY <1>7, <2>1, InjConcat
<1>8. ASSUME NEW t \in Threads, PostOps(t) PROVE NoRepeats'
  <2>1. /\ queue' = queue \o rest[t] /\ rest'[t] = <<>>
        /\ \A u \in Threads \ {t} : rest'[u] = rest[u]
        /\ UNCHANGED <<private, ops>>
    BY <1>0, <1>8 DEF PostOps, TypeOK, socketVars
  <2>2. rest[t] \in Seq(Operations) /\ IsInjective(rest[t]) /\ Range(rest[t]) \subseteq Handlers
    BY <1>0 DEF TypeOK, NoRepeats, Operations, Range
  <2>3. Range(rest[t]) \cap Range(queue) = {}
    <3>1. "rest" \in Kinds /\ "queue" \in Kinds /\ t \in Owners /\ Nobody \in Owners
      BY DEF Kinds, Owners
    <3>2. \A h \in Handlers : ~(At(h, "rest", t) /\ At(h, "queue", Nobody))
      BY <1>0, <3>1 DEF OnePlace
    <3> QED BY <2>2, <3>2 DEF At
  <2>4. IsInjective(queue') BY <1>7, <2>1, <2>2, <2>3
  <2> QED BY <1>0, <2>1, <2>4, Empty DEF NoRepeats
<1>9. ASSUME NEW t \in Threads, Return(t) PROVE NoRepeats'
  <2>1. /\ queue' = queue \o private[t] \/ UNCHANGED queue
        /\ private'[t] = <<>> /\ pc[t] = "running"
        /\ \A u \in Threads \ {t} : private'[u] = private[u]
        /\ UNCHANGED <<rest, ops>>
    BY <1>0, <1>9 DEF Return, Running, TypeOK, socketVars
  <2>2. private[t] \in Seq(Operations) /\ IsInjective(private[t])
    BY <1>0 DEF TypeOK, NoRepeats, Operations
  <2>3. Range(private[t]) \cap Range(queue) = {}
    <3>1. "private" \in Kinds /\ "queue" \in Kinds /\ t \in Owners /\ Nobody \in Owners
      BY DEF Kinds, Owners
    <3>2. \A h \in Handlers : ~(At(h, "private", t) /\ At(h, "queue", Nobody))
      BY <1>0, <3>1 DEF OnePlace
    <3>3. Range(private[t]) \subseteq Handlers BY <1>0, <2>1 DEF PrivateKinds
    <3> QED BY <3>2, <3>3 DEF At
  <2>4. queue' = queue \o private[t] => IsInjective(queue') BY <1>7, <2>2, <2>3
  <2> QED BY <1>0, <2>1, <2>4, Empty DEF NoRepeats
<1>10. ASSUME NEW t \in Threads, NEW h \in Handlers, h \in fresh, NEW c \in BOOLEAN,
              PostHandler(t, h, c)
       PROVE  \A u \in Threads : IsInjective(private'[u]) /\ IsInjective(rest'[u])
  <2>1. CASE c
    <3>1. private' = [private EXCEPT ![t] = Append(private[t], h)] /\ UNCHANGED rest
      BY <1>10, <2>1 DEF PostHandler
    <3>2. private[t] \in Seq(Handlers \cup Descriptors) /\ h \in Handlers \cup Descriptors
          /\ IsInjective(private[t])
      BY <1>0 DEF TypeOK, NoRepeats
    <3>3. h \notin Range(private[t])
      <4>1. "private" \in Kinds /\ "fresh" \in Kinds /\ t \in Owners /\ Nobody \in Owners
        BY DEF Kinds, Owners
      <4>2. At(h, "fresh", Nobody) BY <1>10 DEF At
      <4>3. ~At(h, "private", t) BY <1>0, <4>1, <4>2, Alone
      <4> QED BY <4>3 DEF At
    <3>4. IsInjective(Append(private[t], h)) BY <3>2, <3>3, InjAppend
    <3> QED BY <1>0, <3>1, <3>4 DEF NoRepeats, TypeOK
  <2>2. CASE ~c
    <3>1. rest' = [rest EXCEPT ![t] = <<h>>] /\ UNCHANGED private
      BY <1>10, <2>2 DEF PostHandler
    <3> QED BY <1>0, <3>1, One DEF NoRepeats, TypeOK
  <2> QED BY <2>1, <2>2
<1>11. ASSUME NEW t \in Threads, NEW h \in Handlers, Post(t, h) PROVE NoRepeats'
  <2>1. h \in fresh /\ UNCHANGED <<queue, ops>> /\ \E c \in BOOLEAN : PostHandler(t, h, c)
    BY <1>11 DEF Post, schedulerVars, socketVars
  <2> QED BY <1>0, <1>10, <2>1 DEF NoRepeats
<1>12. ASSUME NEW t \in Threads, NEW d \in Descriptors, NEW h \in Handlers, start_op(t, d, h)
       PROVE  NoRepeats'
  <2>1. /\ h \in fresh /\ UNCHANGED queue
        /\ \/ UNCHANGED ops /\ \E c \in BOOLEAN : PostHandler(t, h, c)
           \/ /\ UNCHANGED <<private, pc, rest>>
              /\ ops' = [ops EXCEPT ![d] = Append(ops[d], h)]
    BY <1>12 DEF start_op, schedulerVars
  <2>2. CASE UNCHANGED ops /\ \E c \in BOOLEAN : PostHandler(t, h, c)
    BY <1>0, <1>10, <2>1, <2>2 DEF NoRepeats
  <2>3. CASE UNCHANGED <<private, rest>> /\ ops' = [ops EXCEPT ![d] = Append(ops[d], h)]
    <3>1. ops[d] \in Seq(Handlers) /\ IsInjective(ops[d]) BY <1>0 DEF TypeOK, NoRepeats
    <3>2. h \notin Range(ops[d])
      <4>1. "ops" \in Kinds /\ "fresh" \in Kinds /\ d \in Owners /\ Nobody \in Owners
        BY DEF Kinds, Owners
      <4>2. At(h, "fresh", Nobody) BY <2>1 DEF At
      <4>3. ~At(h, "ops", d) BY <1>0, <4>1, <4>2, Alone
      <4> QED BY <4>3 DEF At
    <3>3. IsInjective(Append(ops[d], h)) BY <3>1, <3>2, InjAppend
    <3> QED BY <1>0, <2>1, <2>3, <3>3 DEF NoRepeats, TypeOK
  <2> QED BY <2>1, <2>2, <2>3
<1>13. ASSUME NEW t \in Threads, NEW d \in Descriptors, deregister_descriptor(t, d)
       PROVE  NoRepeats'
  <2>1. /\ ops' = [ops EXCEPT ![d] = <<>>]
        /\ UNCHANGED rest \/ rest' = [rest EXCEPT ![t] = ops[d]]
        /\ UNCHANGED <<queue, private>>
    BY <1>13 DEF deregister_descriptor, schedulerVars
  <2> QED BY <1>0, <2>1, Empty DEF NoRepeats, TypeOK
<1>14. ASSUME NEW d \in Descriptors, Arrive(d) \/ PeerCloses(d) PROVE NoRepeats'
  BY <1>1, <1>14 DEF Arrive, PeerCloses, schedulerVars, threadVars, socketVars
<1>15. CASE UNCHANGED vars
  BY <1>1, <1>15 DEF vars, schedulerVars, threadVars, socketVars
<1> QED
  BY <1>2, <1>3, <1>4, <1>5, <1>6, <1>8, <1>9, <1>11, <1>12, <1>13, <1>14, <1>15
     DEF Next, Step, Handler

LEMMA StepRest == TInv /\ LInv /\ [Next]_vars => RestPlaced' /\ PrivateKinds'
<1> SUFFICES ASSUME TInv, LInv, [Next]_vars PROVE RestPlaced' /\ PrivateKinds'
  OBVIOUS
<1>0. TypeOK /\ Placed /\ PrivateKinds /\ RestPlaced BY DEF TInv, LInv
<1>1. ASSUME NEW t \in Threads, UNCHANGED <<private, rest>>,
             \A u \in Threads \ {t} : pc'[u] = pc[u],
             pc[t] # "cleanup", pc'[t] # "cleanup",
             pc'[t] \in {"returning", "posting"} \/ rest[t] = <<>>
      PROVE  RestPlaced' /\ PrivateKinds'
  BY <1>0, <1>1 DEF RestPlaced, PrivateKinds
<1>2. ASSUME NEW t \in Threads, Signal(t) PROVE RestPlaced' /\ PrivateKinds'
  BY <1>0, <1>2 DEF Signal, Goto, TypeOK, RestPlaced, PrivateKinds
<1>3. ASSUME NEW t \in Threads, Reacquire(t) \/ Sleep(t) \/ WakeSpuriously(t) \/ TakeTask(t)
                                  \/ TakeOperation(t)
      PROVE  RestPlaced' /\ PrivateKinds'
  <2>1. /\ UNCHANGED <<private, rest>> /\ pc[t] \in {"woken", "look", "asleep"}
        /\ \E p \in {"look", "asleep", "woken", "polling", "blocked", "performing", "running"} :
             pc' = [pc EXCEPT ![t] = p]
    BY <1>3 DEF Reacquire, Sleep, WakeSpuriously, TakeTask, TakeOperation, Goto
  <2>2. rest[t] = <<>> BY <1>0, <2>1 DEF RestPlaced
  <2>3. /\ \A u \in Threads \ {t} : pc'[u] = pc[u]
        /\ pc[t] # "cleanup" /\ pc'[t] # "cleanup"
    BY <1>0, <2>1 DEF TypeOK
  <2> QED BY <1>1, <2>1, <2>2, <2>3
<1>4. ASSUME NEW t \in Threads, Upcall(t) PROVE RestPlaced' /\ PrivateKinds'
  <2>1. /\ UNCHANGED <<private, rest>> /\ rest[t] = <<>> /\ pc[t] # "cleanup"
        /\ pc' = [pc EXCEPT ![t] = "running"]
    BY <1>4 DEF Upcall, Goto
  <2>2. \A u \in Threads \ {t} : pc'[u] = pc[u]
    BY <1>0, <2>1 DEF TypeOK
  <2>3. pc'[t] # "cleanup" BY <1>0, <2>1 DEF TypeOK
  <2> QED BY <1>1, <2>1, <2>2, <2>3
<1>5. ASSUME NEW t \in Threads, reactor_run(t) PROVE RestPlaced' /\ PrivateKinds'
  <2>1. PICK e \in [1 .. Cardinality(ready) -> ready] :
          Range(e) = ready /\ private' = [private EXCEPT ![t] = e]
    BY <1>5 DEF reactor_run
  <2>2. /\ pc[t] \in {"polling", "blocked"} /\ pc'[t] = "cleanup" /\ UNCHANGED rest
        /\ \A u \in Threads \ {t} : pc'[u] = pc[u] /\ private'[u] = private[u]
        /\ Range(private'[t]) \subseteq Descriptors
    BY <1>0, <1>5, <2>1 DEF reactor_run, Goto, TypeOK
  <2> QED BY <1>0, <2>2 DEF RestPlaced, PrivateKinds
<1>6. ASSUME NEW t \in Threads, task_cleanup(t) \/ Return(t) PROVE RestPlaced' /\ PrivateKinds'
  <2>1. /\ pc[t] \in {"cleanup", "running"} /\ pc'[t] = "look" /\ UNCHANGED rest
        /\ \A u \in Threads \ {t} : pc'[u] = pc[u] /\ private'[u] = private[u]
        /\ private'[t] = <<>>
    BY <1>0, <1>6 DEF task_cleanup, Return, Running, Goto, TypeOK
  <2> QED BY <1>0, <2>1, Empty DEF RestPlaced, PrivateKinds
<1>7. ASSUME NEW t \in Threads, perform_io(t) PROVE RestPlaced' /\ PrivateKinds'
  <2>1. /\ UNCHANGED private /\ pc[t] = "performing"
        /\ \/ UNCHANGED rest /\ pc' = [pc EXCEPT ![t] = "look"]
           \/ /\ pc' = [pc EXCEPT ![t] = "returning"]
              /\ \E r : rest' = [rest EXCEPT ![t] = r]
    BY <1>7 DEF perform_io, Goto
  <2> QED BY <1>0, <2>1 DEF RestPlaced, PrivateKinds, TypeOK
<1>8. ASSUME NEW t \in Threads, PostOps(t) PROVE RestPlaced' /\ PrivateKinds'
  <2>1. /\ UNCHANGED private /\ pc[t] \in {"posting", "returning"}
        /\ rest' = [rest EXCEPT ![t] = <<>>] /\ pc' = [pc EXCEPT ![t] = "running"]
    BY <1>8 DEF PostOps, Goto
  <2> QED BY <1>0, <2>1 DEF RestPlaced, PrivateKinds, TypeOK
<1>9. ASSUME NEW t \in Threads, NEW h \in Handlers, NEW c \in BOOLEAN, pc[t] = "running",
             PostHandler(t, h, c)
      PROVE  RestPlaced' /\ PrivateKinds'
  <2>1. CASE c
    <3>1. private' = [private EXCEPT ![t] = Append(private[t], h)] /\ UNCHANGED <<pc, rest>>
      BY <1>9, <2>1 DEF PostHandler
    <3>2. private[t] \in Seq(Handlers \cup Descriptors) /\ h \in Handlers \cup Descriptors
      BY <1>0 DEF TypeOK
    <3>3. Range(Append(private[t], h)) = Range(private[t]) \cup {h} BY <3>2, InjAppend
    <3>4. Range(private'[t]) \subseteq Handlers
      BY <1>0, <1>9, <3>1, <3>3 DEF TypeOK, PrivateKinds
    <3>5. \A u \in Threads \ {t} : private'[u] = private[u] BY <1>0, <3>1 DEF TypeOK
    <3> QED BY <1>0, <1>9, <3>1, <3>4, <3>5 DEF RestPlaced, PrivateKinds
  <2>2. CASE ~c
    <3>1. /\ rest' = [rest EXCEPT ![t] = <<h>>] /\ UNCHANGED private
          /\ pc' = [pc EXCEPT ![t] = "posting"]
      BY <1>9, <2>2 DEF PostHandler, Goto
    <3> QED BY <1>0, <1>9, <3>1 DEF RestPlaced, PrivateKinds, TypeOK
  <2> QED BY <2>1, <2>2
<1>10. ASSUME NEW t \in Threads, NEW h \in Handlers, Post(t, h) PROVE RestPlaced' /\ PrivateKinds'
  BY <1>9, <1>10 DEF Post, Running
<1>11. ASSUME UNCHANGED <<pc, private, rest>> PROVE RestPlaced' /\ PrivateKinds'
  BY <1>0, <1>11 DEF RestPlaced, PrivateKinds
<1>12. ASSUME NEW t \in Threads, NEW d \in Descriptors, NEW h \in Handlers, start_op(t, d, h)
       PROVE  RestPlaced' /\ PrivateKinds'
  <2>1. /\ pc[t] = "running"
        /\ (\E c \in BOOLEAN : PostHandler(t, h, c)) \/ UNCHANGED <<private, pc, rest>>
    BY <1>12 DEF start_op, Running
  <2> QED BY <1>9, <1>11, <2>1
<1>13. ASSUME NEW t \in Threads, NEW d \in Descriptors, deregister_descriptor(t, d)
       PROVE  RestPlaced' /\ PrivateKinds'
  <2>1. /\ UNCHANGED private /\ pc[t] = "running"
        /\ \/ UNCHANGED <<rest, pc>>
           \/ rest' = [rest EXCEPT ![t] = ops[d]] /\ pc' = [pc EXCEPT ![t] = "posting"]
    BY <1>13 DEF deregister_descriptor, Running, Goto
  <2> QED BY <1>0, <2>1 DEF RestPlaced, PrivateKinds, TypeOK
<1>14. ASSUME NEW d \in Descriptors, Arrive(d) \/ PeerCloses(d) PROVE RestPlaced' /\ PrivateKinds'
  BY <1>11, <1>14 DEF Arrive, PeerCloses, threadVars
<1>15. CASE UNCHANGED vars BY <1>11, <1>15 DEF vars, threadVars
<1> QED
  BY <1>2, <1>3, <1>4, <1>5, <1>6, <1>7, <1>8, <1>10, <1>12, <1>13, <1>14, <1>15
     DEF Next, Step, Handler

(* What is put behind the queue by a handler is handlers. *)
LEMMA BeforeKept ==
  ASSUME TypeOK, BeforeTask, TaskKept, NEW p \in Seq(Handlers \cup Descriptors),
         Range(p) \subseteq Handlers, queue' = queue \o p,
         \A t \in Threads : HasTask(t)' <=> HasTask(t)
  PROVE  BeforeTask' /\ TaskKept'
<1>1. queue \in Seq(Operations) BY DEF TypeOK
<1>2. p \in Seq(Operations) BY DEF Operations
<1>3. TaskAt(queue') = TaskAt(queue) BY <1>1, TaskAtConcat
<1>4. Range(queue') = Range(queue) \cup Range(p) BY <1>1, <1>2, RangeConcat
<1>5. ASSUME NEW i \in TaskAt(queue), NEW j \in DOMAIN queue', j > i PROVE queue'[j] \in Handlers
  <2>1. CASE j <= Len(queue)
    <3>1. j \in DOMAIN queue /\ queue'[j] = queue[j] BY <1>1, <1>2, <1>5, <2>1, Concat
    <3> QED BY <1>5, <3>1 DEF BeforeTask
  <2>2. CASE ~(j <= Len(queue))
    <3>1. j - Len(queue) \in DOMAIN p /\ queue'[j] = p[j - Len(queue)]
      BY <1>1, <1>2, <1>5, <2>2, Concat
    <3> QED BY <3>1 DEF Range
  <2> QED BY <2>1, <2>2
<1>6. BeforeTask' BY <1>3, <1>4, <1>5 DEF BeforeTask
<1> QED BY <1>3, <1>6 DEF TaskKept

LEMMA StepBefore == TInv /\ OneTask /\ LInv /\ [Next]_vars => BeforeTask' /\ TaskKept'
<1> SUFFICES ASSUME TInv, OneTask, LInv, [Next]_vars PROVE BeforeTask' /\ TaskKept'
  OBVIOUS
<1>0. TypeOK /\ BeforeTask /\ PrivateKinds /\ TaskKept BY DEF TInv, LInv
<1>1. ASSUME UNCHANGED queue, \A t \in Threads : HasTask(t)' <=> HasTask(t)
      PROVE  BeforeTask' /\ TaskKept'
  BY <1>0, <1>1 DEF BeforeTask, TaskKept, TaskAt
<1>2. ASSUME NEW t \in Threads, NEW p \in Stages, Goto(t, p), UNCHANGED queue,
             HasTask(t) <=> p \in {"polling", "blocked", "cleanup"}
      PROVE  BeforeTask' /\ TaskKept'
  BY <1>0, <1>1, <1>2 DEF Goto, HasTask, TypeOK
<1> USE SchedulerAssumption
<1>3. ASSUME NEW t \in Threads, Signal(t) PROVE BeforeTask' /\ TaskKept'
  <2>1. UNCHANGED pc \/ \E u \in Threads : pc[u] = "asleep" /\ Goto(u, "woken")
    BY <1>3 DEF Signal
  <2>2. UNCHANGED pc => \A u \in Threads : HasTask(u)' <=> HasTask(u) BY DEF HasTask
  <2>3. UNCHANGED queue BY <1>3 DEF Signal
  <2>4. "woken" \in Stages BY DEF Stages
  <2> QED BY <1>1, <1>2, <2>1, <2>2, <2>3, <2>4 DEF HasTask
<1>4. ASSUME NEW t \in Threads, Reacquire(t) \/ Sleep(t) \/ WakeSpuriously(t) \/ Upcall(t)
      PROVE  BeforeTask' /\ TaskKept'
  <2>1. /\ UNCHANGED queue /\ ~HasTask(t)
        /\ Goto(t, "look") \/ Goto(t, "asleep") \/ Goto(t, "woken") \/ Goto(t, "running")
    BY <1>4 DEF Reacquire, Sleep, WakeSpuriously, Upcall, HasTask, schedulerVars
  <2>2. {"look", "asleep", "woken", "running"} \subseteq Stages BY DEF Stages
  <2> QED BY <1>2, <2>1, <2>2
<1>5. ASSUME NEW t \in Threads, TakeTask(t) PROVE BeforeTask' /\ TaskKept'
  <2>1. /\ queue \in Seq(Operations) /\ queue # <<>> /\ Head(queue) = Task
        /\ queue' = Tail(queue) /\ HasTask(t)'
    BY <1>0, <1>5 DEF TakeTask, Goto, HasTask, TypeOK
  <2>2. 1 \in TaskAt(queue) BY <2>1, TaskAtTail
  <2>3. ASSUME NEW i \in DOMAIN queue' PROVE queue'[i] \in Handlers
    <3>1. i + 1 \in DOMAIN queue /\ i + 1 > 1 /\ queue'[i] = queue[i + 1] BY <2>1, <2>3, TailOf
    <3> QED BY <1>0, <2>2, <3>1 DEF BeforeTask
  <2>4. Range(queue') \subseteq Handlers BY <2>3 DEF Range
  <2> QED BY <2>1, <2>3, <2>4 DEF BeforeTask, TaskKept
<1>6. ASSUME NEW t \in Threads, TakeOperation(t) PROVE BeforeTask' /\ TaskKept'
  <2>1. /\ queue \in Seq(Operations) /\ queue # <<>> /\ Head(queue) # Task
        /\ queue' = Tail(queue)
    BY <1>0, <1>6 DEF TakeOperation, TypeOK
  <2>2. \A u \in Threads : HasTask(u)' <=> HasTask(u)
    BY <1>0, <1>6 DEF TakeOperation, Goto, HasTask, TypeOK
  <2>3. Range(queue') \subseteq Range(queue) BY <1>0, <2>1, InjTail DEF LInv, NoRepeats
  <2>4. \A i \in TaskAt(queue') : i + 1 \in TaskAt(queue) /\ i \in Nat BY <2>1, TaskAtTail
  <2>5. ASSUME NEW i \in TaskAt(queue'), NEW j \in DOMAIN queue', j > i
        PROVE  queue'[j] \in Handlers
    <3>1. j + 1 \in DOMAIN queue /\ j \in Nat /\ queue'[j] = queue[j + 1] BY <2>1, <2>5, TailOf
    <3>2. j + 1 > i + 1 BY <2>4, <2>5, <3>1
    <3> QED BY <1>0, <2>4, <2>5, <3>1, <3>2 DEF BeforeTask
  <2>6. ASSUME NEW i \in TaskAt(queue) PROVE TaskAt(queue') # {}
    <3>1. i \in 1 .. Len(queue) /\ queue[i] = Task /\ i # 1 BY <2>1, TailOf DEF TaskAt
    <3>2. i - 1 \in DOMAIN queue' /\ queue'[i - 1] = Task BY <2>1, <3>1, TailOf
    <3> QED BY <3>2 DEF TaskAt
  <2> QED BY <1>0, <2>2, <2>3, <2>5, <2>6 DEF BeforeTask, TaskKept
<1>7. ASSUME NEW t \in Threads, reactor_run(t) PROVE BeforeTask' /\ TaskKept'
  <2>1. UNCHANGED queue /\ HasTask(t) /\ Goto(t, "cleanup")
    BY <1>7 DEF reactor_run, HasTask, schedulerVars
  <2>2. "cleanup" \in Stages BY DEF Stages
  <2> QED BY <1>2, <2>1, <2>2
<1>8. ASSUME NEW t \in Threads, task_cleanup(t) PROVE BeforeTask' /\ TaskKept'
  <2>1. /\ queue' = (queue \o private[t]) \o <<Task>> /\ HasTask(t)
        /\ \A u \in Threads : ~HasTask(u)'
    BY <1>0, <1>8 DEF task_cleanup, Goto, HasTask, TypeOK, OneTask
  <2>2. PICK q, p : q = queue /\ p = private[t] OBVIOUS
  <2>3. q \in Seq(Operations) /\ p \in Seq(Handlers \cup Descriptors) /\ p \in Seq(Operations)
    BY <1>0, <2>2 DEF TypeOK, Operations
  <2>4. TaskAt(q) = {} BY <2>1, <2>2 DEF OneTask
  <2>5. PICK qp : qp = q \o p OBVIOUS
  <2>6. qp \in Seq(Operations) /\ TaskAt(qp) = {} BY <2>3, <2>4, <2>5, TaskAtConcat
  <2>7. queue' = qp \o <<Task>> BY <2>1, <2>2, <2>5
  <2>8. TaskAt(queue') = {Len(qp) + 1} BY <2>6, <2>7, TaskAtLast
  <2>9. DOMAIN queue' = 1 .. (Len(qp) + 1) /\ Len(qp) \in Nat
    <3>1. PICK r : r = <<Task>> OBVIOUS
    <3>2. r \in Seq(Operations) /\ Len(r) = 1 BY <3>1 DEF Operations
    <3> QED BY <2>6, <2>7, <3>1, <3>2, Concat
  <2>10. ASSUME NEW i \in TaskAt(queue'), NEW j \in DOMAIN queue', j > i PROVE FALSE
    BY <2>8, <2>9, <2>10
  <2>11. BeforeTask' BY <2>1, <2>10 DEF BeforeTask
  <2>12. TaskKept' BY <2>8 DEF TaskKept
  <2> QED BY <2>11, <2>12
<1>9. ASSUME NEW t \in Threads, perform_io(t) PROVE BeforeTask' /\ TaskKept'
  <2>1. /\ UNCHANGED queue /\ ~HasTask(t) /\ (Goto(t, "look") \/ Goto(t, "returning"))
    BY <1>9 DEF perform_io, HasTask, schedulerVars
  <2>2. {"look", "returning"} \subseteq Stages BY DEF Stages
  <2> QED BY <1>2, <2>1, <2>2
<1>10. ASSUME NEW t \in Threads, PostOps(t) PROVE BeforeTask' /\ TaskKept'
  <2>1. /\ queue' = queue \o rest[t]
        /\ \A u \in Threads : HasTask(u)' <=> HasTask(u)
    BY <1>0, <1>10 DEF PostOps, Goto, HasTask, TypeOK
  <2>2. rest[t] \in Seq(Handlers \cup Descriptors) /\ Range(rest[t]) \subseteq Handlers
    BY <1>0 DEF TypeOK, Range
  <2> QED BY <1>0, <2>1, <2>2, BeforeKept
<1>11. ASSUME NEW t \in Threads, Return(t) PROVE BeforeTask' /\ TaskKept'
  <2>1. /\ queue' = queue \o private[t] \/ UNCHANGED queue
        /\ pc[t] = "running" /\ \A u \in Threads : HasTask(u)' <=> HasTask(u)
    BY <1>0, <1>11 DEF Return, Running, Goto, HasTask, TypeOK
  <2>2. private[t] \in Seq(Handlers \cup Descriptors) /\ Range(private[t]) \subseteq Handlers
    BY <1>0, <2>1 DEF TypeOK, PrivateKinds
  <2> QED BY <1>0, <1>1, <2>1, <2>2, BeforeKept
<1>12. ASSUME NEW t \in Threads, pc[t] = "running", UNCHANGED queue,
              UNCHANGED pc \/ Goto(t, "posting")
       PROVE  BeforeTask' /\ TaskKept'
  <2>1. "posting" \in Stages /\ ~HasTask(t) BY <1>12 DEF Stages, HasTask
  <2>2. UNCHANGED pc => \A u \in Threads : HasTask(u)' <=> HasTask(u) BY DEF HasTask
  <2> QED BY <1>1, <1>2, <1>12, <2>1, <2>2
<1>13. ASSUME NEW t \in Threads, NEW d \in Descriptors, NEW h \in Handlers,
              Post(t, h) \/ start_op(t, d, h) \/ deregister_descriptor(t, d)
       PROVE  BeforeTask' /\ TaskKept'
  <2>1. pc[t] = "running" /\ UNCHANGED queue /\ (UNCHANGED pc \/ Goto(t, "posting"))
    BY <1>13 DEF Post, start_op, deregister_descriptor, PostHandler, Running, schedulerVars
  <2> QED BY <1>12, <2>1
<1>14. ASSUME UNCHANGED <<queue, pc>> PROVE BeforeTask' /\ TaskKept'
  BY <1>1, <1>14 DEF HasTask
<1>15. ASSUME NEW d \in Descriptors, Arrive(d) \/ PeerCloses(d) PROVE BeforeTask' /\ TaskKept'
  BY <1>14, <1>15 DEF Arrive, PeerCloses, schedulerVars, threadVars
<1>16. CASE UNCHANGED vars BY <1>14, <1>16 DEF vars, schedulerVars, threadVars
<1> QED
  BY <1>3, <1>4, <1>5, <1>6, <1>7, <1>8, <1>9, <1>10, <1>11, <1>13, <1>15, <1>16
     DEF Next, Step, Handler

LEMMA InitLinked == Init => LInv
<1> SUFFICES ASSUME Init PROVE LInv
  OBVIOUS
<1> USE SchedulerAssumption
<1>1. PICK h \in Handlers, d \in Descriptors :
        /\ fresh = Handlers \ {h}
        /\ ops = [e \in Descriptors |-> IF e = d THEN <<h>> ELSE <<>>]
  BY DEF Init
<1>2. /\ Range(queue) = {Task} /\ IsInjective(queue) BY One DEF Init
<1>3. \A t \in Threads : private[t] = <<>> /\ rest[t] = <<>> /\ pc[t] = "look" BY DEF Init
<1>4. \A t \in Threads : Range(private[t]) = {} /\ Range(rest[t]) = {} BY <1>3, Empty
<1>5. \A e \in Descriptors : Range(ops[e]) = (IF e = d THEN {h} ELSE {})
  BY <1>1, One, Empty
<1>6. OnePlace
  <2>1. ASSUME NEW g \in Handlers, NEW k \in Kinds, NEW x \in Owners, At(g, k, x)
        PROVE  IF g = h THEN k = "ops" /\ x = d ELSE k = "fresh" /\ x = Nobody
    BY <1>1, <1>2, <1>3, <1>4, <1>5, <2>1 DEF At, Init
  <2> QED BY <2>1 DEF OnePlace
<1>7. NoRepeats BY <1>1, <1>2, <1>3, One, Empty DEF NoRepeats
<1>8. \A t \in Threads : ~HasTask(t) BY <1>3 DEF HasTask
<1>9. DOMAIN queue = {1} /\ TaskAt(queue) = {1} BY DEF Init, TaskAt
<1>10. BeforeTask BY <1>8, <1>9 DEF BeforeTask
<1>11. PrivateKinds /\ RestPlaced BY <1>3, <1>4 DEF PrivateKinds, RestPlaced
<1>12. TaskKept BY <1>9 DEF TaskKept
<1> QED BY <1>6, <1>7, <1>10, <1>11, <1>12 DEF LInv

-----------------------------------------------------------------------------
(* The theorems.                                                           *)

LEMMA InitInv == Init => IInv
<1> SUFFICES ASSUME Init PROVE IInv
  OBVIOUS
<1>1. TInv BY InitTyped
<1>2. OneTask
  <2>1. DOMAIN queue = {1} BY DEF Init
  <2>2. \A t \in Threads : ~HasTask(t) BY DEF Init, HasTask
  <2> QED BY <2>1, <2>2 DEF OneTask, TaskAt
<1>3. Poked BY DEF Init, Poked
<1>4. Fetched BY DEF Init, Fetched, SomeFetches, Fetches
<1>5. Spent BY DEF Init, Spent
<1>6. ClosedIsEmpty BY DEF Init, ClosedIsEmpty
<1>7. InputIsSeen BY DEF Init, InputIsSeen, Readable
<1> QED BY <1>1, <1>2, <1>3, <1>4, <1>5, <1>6, <1>7 DEF IInv, WInv, SInv

(* The variables of the scheduler and its reactor keep their types: in     *)
(* particular, no read takes input that is not there.                      *)
THEOREM TypeCorrect == Spec => []TypeOK
<1>1. Init => TInv BY InitTyped
<1>2. TInv /\ [Next]_vars => TInv' BY StepTyped
<1>3. TInv => TypeOK BY DEF TInv
<1> QED BY <1>1, <1>2, <1>3, PTL DEF Spec

LEMMA Inductive == Spec => []IInv
<1>1. IInv /\ [Next]_vars => IInv'
  <2> SUFFICES ASSUME IInv, [Next]_vars PROVE IInv'
    OBVIOUS
  <2>1. TInv /\ WInv /\ SInv BY DEF IInv
  <2>2. TInv' BY <2>1, StepTyped
  <2>3. OneTask' /\ Poked' BY <2>1, StepTask DEF WInv
  <2>4. Fetched' BY <2>1, StepFetched
  <2>5. Spent' /\ ClosedIsEmpty' BY <2>1, StepSpent DEF SInv
  <2>6. InputIsSeen' BY <2>1, StepSeen
  <2> QED BY <2>2, <2>3, <2>4, <2>5, <2>6 DEF IInv, WInv, SInv
<1> QED BY <1>1, InitInv, PTL DEF Spec

(* While anything is queued, either every thread is in a handler or one is *)
(* on its way to the queue, whatever signals were sent to whom.            *)
THEOREM NoLostWakeup == Spec => []WorkIsFetched
<1>1. IInv => WorkIsFetched
  <2> SUFFICES ASSUME IInv, queue # <<>>, ~\A t \in Threads : pc[t] \in Busy
               PROVE  \E t \in Threads : Comes(t)
    BY DEF WorkIsFetched
  <2>1. PICK t \in Threads : Fetches(t) BY DEF IInv, WInv, Fetched, SomeFetches
  <2>2. CASE signals # {}
    <3>1. signals \subseteq Threads BY DEF IInv, TInv, TypeOK
    <3> QED BY <2>2, <3>1 DEF Comes
  <2>3. CASE signals = {} BY <2>1, <2>3 DEF Fetches, Comes
  <2> QED BY <2>2, <2>3
<1> QED BY <1>1, Inductive, PTL

(* No edge that the kernel reports is lost between the reactor's queue,    *)
(* the scheduler's and the thread that tries the read again.               *)
THEOREM NoLostInput == Spec => []InputIsSeen
<1>1. IInv => InputIsSeen BY DEF IInv, SInv
<1> QED BY <1>1, Inductive, PTL

LEMMA LinkedInductive == Spec => [](IInv /\ LInv)
<1>1. Init => IInv /\ LInv BY InitInv, InitLinked
<1>2. IInv /\ LInv /\ [Next]_vars => LInv'
  <2> SUFFICES ASSUME IInv, LInv, [Next]_vars PROVE LInv'
    OBVIOUS
  <2>1. TInv /\ OneTask BY DEF IInv, WInv
  <2>2. OnePlace' BY <2>1, StepPlaces, OnePlaceKept DEF LInv
  <2>3. NoRepeats' BY <2>1, StepRepeats
  <2>4. RestPlaced' /\ PrivateKinds' BY <2>1, StepRest
  <2>5. BeforeTask' /\ TaskKept' BY <2>1, StepBefore
  <2> QED BY <2>2, <2>3, <2>4, <2>5 DEF LInv
<1> QED BY <1>1, <1>2, Inductive, PTL DEF Spec

(* No operation is linked twice, and the Task is in one place: what the    *)
(* reactor finds is linked only while nothing of it is in the queue, as    *)
(* the Task stands behind all that was found before.                       *)
THEOREM NeverLinkedTwice == Spec => []LinkedOnce
<1>1. IInv /\ LInv => LinkedOnce
  <2> SUFFICES ASSUME IInv, LInv PROVE LinkedOnce
    OBVIOUS
  <2>1. /\ TypeOK /\ OneTask /\ OnePlace /\ NoRepeats /\ BeforeTask /\ PrivateKinds /\ TaskKept
    BY DEF IInv, TInv, WInv, LInv
  <2>2. ASSUME NEW t \in Threads PROVE Range(private[t]) \cap Range(queue) = {}
    <3>1. CASE pc[t] = "cleanup"
      <4>1. Range(private[t]) \subseteq Descriptors /\ Range(queue) \subseteq Handlers
        BY <2>1, <3>1 DEF PrivateKinds, BeforeTask, HasTask
      <4> QED BY <4>1, SchedulerAssumption
    <3>2. CASE pc[t] # "cleanup"
      <4>1. Range(private[t]) \subseteq Handlers BY <2>1, <3>2 DEF PrivateKinds
      <4>2. "private" \in Kinds /\ "queue" \in Kinds /\ t \in Owners /\ Nobody \in Owners
        BY DEF Kinds, Owners
      <4>3. \A h \in Handlers : ~(At(h, "private", t) /\ At(h, "queue", Nobody))
        BY <2>1, <4>2 DEF OnePlace
      <4> QED BY <4>1, <4>3 DEF At
    <3> QED BY <3>1, <3>2
  <2>3. ASSUME NEW t \in Threads, NEW u \in Threads, t # u
        PROVE  Range(private[t]) \cap Range(private[u]) = {}
    <3>1. ~(pc[t] = "cleanup" /\ pc[u] = "cleanup") BY <2>1, <2>3 DEF OneTask, HasTask
    <3>2. CASE pc[t] # "cleanup" /\ pc[u] # "cleanup"
      <4>1. Range(private[t]) \subseteq Handlers /\ Range(private[u]) \subseteq Handlers
        BY <2>1, <3>2 DEF PrivateKinds
      <4>2. "private" \in Kinds /\ t \in Owners /\ u \in Owners BY DEF Kinds, Owners
      <4>3. \A h \in Handlers : ~(At(h, "private", t) /\ At(h, "private", u))
        BY <2>1, <2>3, <4>2 DEF OnePlace
      <4> QED BY <4>1, <4>3 DEF At
    <3>3. CASE (pc[t] = "cleanup") # (pc[u] = "cleanup")
      BY <2>1, <3>3, SchedulerAssumption DEF PrivateKinds
    <3> QED BY <3>1, <3>2, <3>3
  <2>4. \A t, u \in WithTask : t = u BY <2>1 DEF OneTask, WithTask, HasTask
  <2>5. Task \in Range(queue) <=> TaskAt(queue) # {} BY DEF Range, TaskAt
  <2>6. Task \in Range(queue) <=> WithTask = {}
    BY <2>1, <2>5 DEF OneTask, TaskKept, WithTask, HasTask
  <2> QED BY <2>1, <2>2, <2>3, <2>4, <2>6 DEF LinkedOnce, NoRepeats
<1> QED BY <1>1, LinkedInductive, PTL

(* The refinement. *)
StagesOf ==
  /\ Due = {h \in Handlers : \E k \in DueKinds, x \in Owners : At(h, k, x)}
  /\ InHand = {h \in Handlers : \E x \in Owners : At(h, "running", x)}
  /\ done = {h \in Handlers : \E x \in Owners : At(h, "done", x)}

LEMMA StagesAgree == TypeOK /\ Placed => StagesOf
<1> SUFFICES ASSUME TypeOK, Placed PROVE StagesOf
  OBVIOUS
<1>1. ASSUME NEW h \in Due PROVE h \in Handlers /\ \E k \in DueKinds, x \in Owners : At(h, k, x)
  BY <1>1 DEF Due, InQueues, Placed, DueKinds, Owners, At
<1>2. ASSUME NEW h \in Handlers, NEW k \in DueKinds, NEW x \in Owners, At(h, k, x)
      PROVE  h \in Due
  BY <1>2 DEF Due, InQueues, DueKinds, At
<1>3. InHand = {h \in Handlers : \E x \in Owners : At(h, "running", x)}
  BY DEF InHand, Placed, Owners, At
<1>4. done = {h \in Handlers : \E x \in Owners : At(h, "done", x)}
  BY DEF TypeOK, Owners, At
<1>5. Due = {h \in Handlers : \E k \in DueKinds, x \in Owners : At(h, k, x)} BY <1>1, <1>2
<1> QED BY <1>3, <1>4, <1>5 DEF StagesOf

(* What it means for a handler to stay or to go. *)
LEMMA Shifts ==
  ASSUME TypeOK, Placed, TypeOK', Placed', OnePlace, NEW h \in Handlers
  PROVE  /\ Stays(h) => /\ h \in Due' <=> h \in Due
                        /\ h \in InHand' <=> h \in InHand
                        /\ h \in done' <=> h \in done
         /\ \A k \in Kinds, l \in Kinds : Goes(h, k, l) =>
              /\ h \in Due <=> k \in DueKinds
              /\ h \in InHand <=> k = "running"
              /\ h \in done <=> k = "done"
              /\ h \in Due' <=> l \in DueKinds
              /\ h \in InHand' <=> l = "running"
              /\ h \in done' <=> l = "done"
<1>0. DueKinds \subseteq Kinds /\ "running" \in Kinds /\ "done" \in Kinds BY DEF DueKinds, Kinds
<1>1. StagesOf BY StagesAgree
<1>2. StagesOf'
  <2>1. (TypeOK /\ Placed => StagesOf)' BY StagesAgree, PTL
  <2> QED BY <2>1
<1>3. ASSUME Stays(h)
      PROVE  /\ h \in Due' <=> h \in Due
             /\ h \in InHand' <=> h \in InHand
             /\ h \in done' <=> h \in done
  BY <1>0, <1>1, <1>2, <1>3 DEF Stays, StagesOf
<1>4. ASSUME NEW k \in Kinds, NEW l \in Kinds, Goes(h, k, l)
      PROVE  /\ h \in Due <=> k \in DueKinds
             /\ h \in InHand <=> k = "running"
             /\ h \in done <=> k = "done"
  BY <1>0, <1>1, <1>4 DEF Goes, OnePlace, StagesOf
<1>5. ASSUME NEW k \in Kinds, NEW l \in Kinds, Goes(h, k, l)
      PROVE  /\ h \in Due' <=> l \in DueKinds
             /\ h \in InHand' <=> l = "running"
             /\ h \in done' <=> l = "done"
  BY <1>0, <1>2, <1>5 DEF Goes, StagesOf
<1> QED BY <1>3, <1>4, <1>5

LEMMA StepPromised ==
  ASSUME TInv, LInv, TInv', [Next]_vars
  PROVE  [Promise!Next]_(Promise!vars)
<1>0. TypeOK /\ Placed /\ TypeOK' /\ Placed' /\ OnePlace BY DEF TInv, LInv
<1>1. Adds \/ Begins \/ Ends BY StepPlaces
<1>2. /\ Due \subseteq Handlers /\ InHand \subseteq Handlers /\ done \subseteq Handlers
      /\ Due' \subseteq Handlers /\ InHand' \subseteq Handlers /\ done' \subseteq Handlers
  BY <1>0 DEF Due, InHand, Placed, TypeOK
<1>3. DueKinds \subseteq Kinds \ {"running", "done", "fresh", "ops"}
      /\ {"running", "done", "fresh", "ops"} \subseteq Kinds
  BY DEF DueKinds, Kinds
<1>4. CASE Adds
  <2>1. ASSUME NEW h \in Handlers
        PROVE  /\ h \in Due => h \in Due'
               /\ h \in Due' /\ h \notin Due => h \notin InHand /\ h \notin done
               /\ h \in InHand' <=> h \in InHand
               /\ h \in done' <=> h \in done
    <3>1. CASE Stays(h) BY <1>0, <3>1, Shifts
    <3>2. CASE Goes(h, "fresh", "ops") BY <1>0, <1>3, <3>2, Shifts
    <3>3. ASSUME NEW k \in DueKinds \cup {"fresh", "ops"}, NEW l \in DueKinds, Goes(h, k, l)
          PROVE  /\ h \in Due'
                 /\ h \notin Due => h \notin InHand /\ h \notin done
                 /\ h \in InHand' <=> h \in InHand
                 /\ h \in done' <=> h \in done
      BY <1>0, <1>3, <3>3, Shifts
    <3> QED BY <1>4, <3>1, <3>2, <3>3 DEF Adds
  <2>2. InHand' = InHand /\ done' = done BY <1>2, <2>1
  <2>3. Due' \ Due \in SUBSET (Handlers \ (Due \cup InHand \cup done)) BY <1>2, <2>1
  <2>4. Due' = Due \cup (Due' \ Due) BY <1>2, <2>1
  <2>5. Promise!Complete BY <2>2, <2>3, <2>4 DEF Promise!Complete
  <2> QED BY <2>5 DEF Promise!Next
<1>5. CASE Begins
  <2>1. PICK h \in Handlers :
          /\ \E k \in DueKinds : Goes(h, k, "running")
          /\ \A g \in Handlers \ {h} : Stays(g) \/ \E k, l \in DueKinds : Goes(g, k, l)
    BY <1>5 DEF Begins
  <2>2. /\ h \in Due /\ h \notin Due' /\ h \in InHand'
        /\ h \notin done /\ h \notin done'
    BY <1>0, <1>3, <2>1, Shifts
  <2>3. ASSUME NEW g \in Handlers \ {h}
        PROVE  (g \in Due' <=> g \in Due) /\ (g \in InHand' <=> g \in InHand)
               /\ (g \in done' <=> g \in done)
    <3>1. CASE Stays(g) BY <1>0, <3>1, Shifts
    <3>2. CASE \E k, l \in DueKinds : Goes(g, k, l) BY <1>0, <1>3, <3>2, Shifts
    <3> QED BY <2>1, <3>1, <3>2
  <2>4. Due' = Due \ {h} /\ InHand' = InHand \cup {h} /\ done' = done BY <1>2, <2>2, <2>3
  <2>5. Promise!Begin BY <2>2, <2>4 DEF Promise!Begin
  <2> QED BY <2>5 DEF Promise!Next
<1>6. CASE Ends
  <2>1. PICK h \in Handlers :
          /\ Goes(h, "running", "done")
          /\ \A g \in Handlers \ {h} : Stays(g) \/ \E k, l \in DueKinds : Goes(g, k, l)
    BY <1>6 DEF Ends
  <2>2. /\ h \in InHand /\ h \notin InHand' /\ h \in done' /\ h \notin Due /\ h \notin Due'
    BY <1>0, <1>3, <2>1, Shifts
  <2>3. ASSUME NEW g \in Handlers \ {h}
        PROVE  (g \in Due' <=> g \in Due) /\ (g \in InHand' <=> g \in InHand)
               /\ (g \in done' <=> g \in done)
    <3>1. CASE Stays(g) BY <1>0, <3>1, Shifts
    <3>2. CASE \E k, l \in DueKinds : Goes(g, k, l) BY <1>0, <1>3, <3>2, Shifts
    <3> QED BY <2>1, <3>1, <3>2
  <2>4. Due' = Due /\ InHand' = InHand \ {h} /\ done' = done \cup {h} BY <1>2, <2>2, <2>3
  <2>5. Promise!End BY <2>2, <2>4 DEF Promise!End
  <2> QED BY <2>5 DEF Promise!Next
<1> QED BY <1>1, <1>4, <1>5, <1>6

(* Every handler that is posted, or whose read completes, is run at most   *)
(* once and by one thread, and is due until then: the scheduler and its    *)
(* reactor do nothing that the Executor does not allow.                    *)
THEOREM ImplementsExecutor == Spec => Promise!Safety
<1>1. Init => Promise!Init
  <2> SUFFICES ASSUME Init PROVE Promise!Init
    OBVIOUS
  <2>1. TypeOK /\ Placed BY InitTyped DEF TInv
  <2>2. InHand = {} BY DEF InHand, Init
  <2>3. done = {} BY DEF Init
  <2>4. Due \subseteq Handlers BY <2>1 DEF Due, Placed
  <2> QED BY <2>2, <2>3, <2>4 DEF Promise!Init
<1>2. TInv /\ LInv /\ TInv' /\ [Next]_vars => [Promise!Next]_(Promise!vars)
  BY StepPromised
<1>3. IInv /\ LInv => TInv /\ LInv BY DEF IInv
<1> QED BY <1>1, <1>2, <1>3, LinkedInductive, PTL DEF Spec, Promise!Safety

=============================================================================
