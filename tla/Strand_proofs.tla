---------------------------- MODULE Strand_proofs ----------------------------
(***************************************************************************)
(* No two threads run handlers of one strand at the same time, for any     *)
(* number of strands, handlers and threads.                                *)
(*                                                                         *)
(* The argument: a strand has at most one invoker, be it queued in the     *)
(* io_context, about to be scheduled, or called by a thread; while it has  *)
(* one it is locked; and a handler that dispatch has called inside another *)
(* has the invoker of its strand below it on the same thread.              *)
(***************************************************************************)
EXTENDS Strand, SequenceTheorems, TLAPS

(* Frame i of thread t is an invoker of s, or is about to schedule one. *)
Holds(t, i, s) ==
  /\ i \in DOMAIN stack[t]
  /\ stack[t][i].strand = s
  /\ stack[t][i].at # "inside"

Shape ==
  \A t \in Threads : \A i \in DOMAIN stack[t] :
    i < Len(stack[t]) => stack[t][i].at \in {"run", "inside"}

InsideAnother ==
  \A t \in Threads : \A i \in DOMAIN stack[t] :
    stack[t][i].at = "inside" =>
      \E j \in DOMAIN stack[t] : j < i /\ Holds(t, j, stack[t][i].strand)

OneInvoker ==
  \A s \in Strands : \A t, u \in Threads :
    \A i \in DOMAIN stack[t], j \in DOMAIN stack[u] :
      Holds(t, i, s) /\ Holds(u, j, s) => t = u /\ i = j

Held(s) == \E t \in Threads : \E i \in DOMAIN stack[t] : Holds(t, i, s)

QueuedAlone ==
  \A s \in Strands : posted[s] \in {0, 1} /\ (posted[s] = 1 => ~Held(s))

LockedWhileHeld == \A s \in Strands : posted[s] = 1 \/ Held(s) => locked[s]

StackInv == Shape /\ InsideAnother /\ OneInvoker

IInv == TypeOK /\ StackInv /\ QueuedAlone /\ LockedWhileHeld

-----------------------------------------------------------------------------
(* What the three ways to change a stack do to its frames.                 *)

LEMMA Entered ==
  ASSUME TypeOK, NEW t \in Threads, NEW f \in Frames, Enter(t, f)
  PROVE  /\ stack' \in [Threads -> Seq(Frames)]
         /\ Len(stack'[t]) = Len(stack[t]) + 1
         /\ DOMAIN stack'[t] = 1 .. (Len(stack[t]) + 1)
         /\ stack'[t][Len(stack[t]) + 1] = f
         /\ \A i \in 1 .. Len(stack[t]) : stack'[t][i] = stack[t][i]
         /\ \A u \in Threads : u # t => stack'[u] = stack[u]
<1> DEFINE n == Len(stack[t])
<1>1. stack[t] \in Seq(Frames) BY DEF TypeOK
<1>2. stack' = [stack EXCEPT ![t] = Append(stack[t], f)] BY DEF Enter
<1>3. stack'[t] = Append(stack[t], f) /\ \A u \in Threads : u # t => stack'[u] = stack[u]
  BY <1>2 DEF TypeOK
<1>4. Append(stack[t], f) \in Seq(Frames) BY <1>1
<1>5. stack' \in [Threads -> Seq(Frames)] BY <1>2, <1>4 DEF TypeOK
<1> QED BY <1>1, <1>3, <1>4, <1>5

LEMMA Became ==
  ASSUME TypeOK, NEW t \in Threads, NEW f \in Frames, stack[t] # <<>>, Become(t, f)
  PROVE  /\ stack' \in [Threads -> Seq(Frames)]
         /\ Len(stack'[t]) = Len(stack[t])
         /\ DOMAIN stack'[t] = 1 .. Len(stack[t])
         /\ Len(stack[t]) \in 1 .. Len(stack[t])
         /\ stack'[t][Len(stack[t])] = f
         /\ \A i \in 1 .. Len(stack[t]) : i < Len(stack[t]) => stack'[t][i] = stack[t][i]
         /\ \A u \in Threads : u # t => stack'[u] = stack[u]
<1> DEFINE n == Len(stack[t])
           new == [stack[t] EXCEPT ![n] = f]
<1>1. stack[t] \in Seq(Frames) BY DEF TypeOK
<1>2. stack' = [stack EXCEPT ![t] = new] BY DEF Become
<1>3. stack'[t] = new /\ \A u \in Threads : u # t => stack'[u] = stack[u]
  BY <1>2 DEF TypeOK
<1>4. n \in Nat /\ n >= 1 /\ DOMAIN stack[t] = 1 .. n BY <1>1
<1>5. n \in 1 .. Len(stack[t]) BY <1>4
<1>6. new \in Seq(Frames) /\ Len(new) = n BY <1>1, <1>5, ExceptSeq
<1>7. stack' \in [Threads -> Seq(Frames)] BY <1>2, <1>6 DEF TypeOK
<1>8. new[n] = f /\ \A i \in 1 .. n : i < n => new[i] = stack[t][i] BY <1>4
<1> QED BY <1>3, <1>4, <1>6, <1>7, <1>8

LEMMA Left ==
  ASSUME TypeOK, NEW t \in Threads, stack[t] # <<>>, Leave(t)
  PROVE  /\ stack' \in [Threads -> Seq(Frames)]
         /\ Len(stack'[t]) = Len(stack[t]) - 1
         /\ DOMAIN stack'[t] = 1 .. (Len(stack[t]) - 1)
         /\ \A i \in 1 .. (Len(stack[t]) - 1) : stack'[t][i] = stack[t][i]
         /\ \A u \in Threads : u # t => stack'[u] = stack[u]
<1> DEFINE n == Len(stack[t])
           new == SubSeq(stack[t], 1, n - 1)
<1>1. stack[t] \in Seq(Frames) BY DEF TypeOK
<1>2. stack' = [stack EXCEPT ![t] = new] BY DEF Leave
<1>3. stack'[t] = new /\ \A u \in Threads : u # t => stack'[u] = stack[u]
  BY <1>2 DEF TypeOK
<1>4. n \in Nat /\ n >= 1 /\ DOMAIN stack[t] = 1 .. n BY <1>1
<1>5. /\ new \in Seq(Frames) /\ Len(new) = n - 1
      /\ \A i \in 1 .. (n - 1) : new[i] = stack[t][i]
  BY <1>1, <1>4
<1>6. stack' \in [Threads -> Seq(Frames)] BY <1>2, <1>5 DEF TypeOK
<1> QED BY <1>3, <1>5, <1>6

(* The top of a stack is a frame of it. *)
LEMMA TopIsFrame ==
  ASSUME TypeOK, NEW t \in Threads, stack[t] # <<>>
  PROVE  /\ Len(stack[t]) \in DOMAIN stack[t]
         /\ DOMAIN stack[t] = 1 .. Len(stack[t])
         /\ Len(stack[t]) \in Nat
         /\ Top(t) \in Frames
         /\ Top(t) = stack[t][Len(stack[t])]
<1>1. stack[t] \in Seq(Frames) BY DEF TypeOK
<1> QED BY <1>1 DEF Top
-----------------------------------------------------------------------------
(* Types.                                                                  *)

LEMMA FrameTyped ==
  ASSUME NEW s \in Strands, NEW d \in BOOLEAN
  PROVE  /\ \A p \in Called, h \in Handlers : Frame(s, p, h, d) \in Frames
         /\ \A p \in {"schedule", "loop"} : Frame(s, p, NoHandler, d) \in Frames
BY DEF Frame, Frames, Places, Called

LEMMA FrameFields ==
  ASSUME NEW f \in Frames
  PROVE  /\ f.strand \in Strands /\ f.at \in Places /\ f.dispatch \in BOOLEAN
         /\ f.at \in Called => f.handler \in Handlers
BY DEF Frames, Places, Called

LEMMA InitTyped == Init => TypeOK
BY DEF Init, TypeOK

LEMMA StepTyped == TypeOK /\ [Next]_vars => TypeOK'
<1> SUFFICES ASSUME TypeOK, [Next]_vars PROVE TypeOK'
  OBVIOUS
<1> USE StrandAssumption
<1>1. ASSUME NEW t \in Threads, NEW h \in Handlers, CallInside(t, h) PROVE TypeOK'
  <2>1. Frame(StrandOf[h], "inside", h, TRUE) \in Frames BY FrameTyped DEF Called
  <2>2. stack' \in [Threads -> Seq(Frames)] BY <1>1, <2>1, Entered DEF CallInside
  <2> QED BY <1>1, <2>2 DEF CallInside, TypeOK
<1>2. ASSUME NEW t \in Threads, NEW h \in Handlers, NEW d \in BOOLEAN, Enqueue(t, h, d)
      PROVE  TypeOK'
  <2> DEFINE s == StrandOf[h]
  <2>1. s \in Strands /\ Frame(s, "push", h, d) \in Frames BY FrameTyped DEF Called
  <2>2. CASE locked[s]
    <3>1. /\ waiting' = [waiting EXCEPT ![s] = Append(waiting[s], h)]
          /\ UNCHANGED <<locked, stack, ready, posted>>
      BY <1>2, <2>2 DEF Enqueue
    <3>2. Append(waiting[s], h) \in Seq(Handlers) BY <2>1 DEF TypeOK
    <3>3. waiting' \in [Strands -> Seq(Handlers)] BY <2>1, <3>1, <3>2 DEF TypeOK
    <3> QED BY <1>2, <3>1, <3>3 DEF Enqueue, TypeOK
  <2>3. CASE ~locked[s]
    <3>1. /\ Enter(t, Frame(s, "push", h, d)) /\ locked' = [locked EXCEPT ![s] = TRUE]
          /\ UNCHANGED <<waiting, ready, posted>>
      BY <1>2, <2>3 DEF Enqueue
    <3>2. stack' \in [Threads -> Seq(Frames)] BY <2>1, <3>1, Entered
    <3> QED BY <1>2, <2>1, <3>1, <3>2 DEF Enqueue, TypeOK
  <2> QED BY <2>2, <2>3
<1>3. ASSUME NEW t \in Threads, Push(t) PROVE TypeOK'
  <2> DEFINE s == Top(t).strand
             h == Top(t).handler
             f == Frame(s, "schedule", NoHandler, Top(t).dispatch)
  <2>1. stack[t] # <<>> /\ Top(t).at = "push" BY <1>3 DEF Push, At
  <2>2. Top(t) \in Frames BY <2>1, TopIsFrame
  <2>3. s \in Strands /\ h \in Handlers /\ f \in Frames
    BY <2>1, <2>2, FrameFields, FrameTyped DEF Called
  <2>4. /\ ready' = [ready EXCEPT ![s] = Append(ready[s], h)] /\ Become(t, f)
        /\ UNCHANGED <<locked, waiting, posted, fresh>>
    BY <1>3 DEF Push
  <2>5. stack' \in [Threads -> Seq(Frames)] BY <2>1, <2>3, <2>4, Became
  <2>6. Append(ready[s], h) \in Seq(Handlers) BY <2>3 DEF TypeOK
  <2>7. ready' \in [Strands -> Seq(Handlers)] BY <2>3, <2>4, <2>6 DEF TypeOK
  <2> QED BY <2>4, <2>5, <2>7 DEF TypeOK
<1>4. ASSUME NEW t \in Threads, Schedule(t) PROVE TypeOK'
  <2> DEFINE s == Top(t).strand
  <2>1. stack[t] # <<>> BY <1>4 DEF Schedule, At
  <2>2. s \in Strands BY <2>1, TopIsFrame, FrameFields
  <2>3. Frame(s, "loop", NoHandler, TRUE) \in Frames BY <2>2, FrameTyped
  <2>4. UNCHANGED <<locked, ready, waiting, fresh>> BY <1>4 DEF Schedule
  <2>5. CASE Top(t).dispatch
    <3>1. Become(t, Frame(s, "loop", NoHandler, TRUE)) /\ UNCHANGED posted
      BY <1>4, <2>5 DEF Schedule
    <3>2. stack' \in [Threads -> Seq(Frames)] BY <2>1, <2>3, <3>1, Became
    <3> QED BY <2>4, <3>1, <3>2 DEF TypeOK
  <2>6. CASE ~Top(t).dispatch
    <3>1. Leave(t) /\ posted' = [posted EXCEPT ![s] = posted[s] + 1]
      BY <1>4, <2>6 DEF Schedule
    <3>2. stack' \in [Threads -> Seq(Frames)] BY <2>1, <3>1, Left
    <3> QED BY <2>2, <2>4, <3>1, <3>2 DEF TypeOK
  <2> QED BY <2>5, <2>6
<1>5. ASSUME NEW t \in Threads, NEW s \in Strands, Invoke(t, s) PROVE TypeOK'
  <2>1. Frame(s, "loop", NoHandler, FALSE) \in Frames BY FrameTyped
  <2>2. stack' \in [Threads -> Seq(Frames)] BY <1>5, <2>1, Entered DEF Invoke
  <2>3. posted' = [posted EXCEPT ![s] = posted[s] - 1] /\ posted[s] > 0 BY <1>5 DEF Invoke
  <2>4. posted' \in [Strands -> Nat] BY <2>3 DEF TypeOK
  <2> QED BY <1>5, <2>2, <2>4 DEF Invoke, TypeOK
<1>6. ASSUME NEW t \in Threads, Take(t) PROVE TypeOK'
  <2> DEFINE s == Top(t).strand
             h == Head(ready[s])
             f == Frame(s, "run", h, Top(t).dispatch)
  <2>1. stack[t] # <<>> /\ ready[s] # <<>> BY <1>6 DEF Take, At
  <2>2. s \in Strands /\ Top(t).dispatch \in BOOLEAN BY <2>1, TopIsFrame, FrameFields
  <2>3. ready[s] \in Seq(Handlers) BY <2>2 DEF TypeOK
  <2>4. h \in Handlers /\ Tail(ready[s]) \in Seq(Handlers) BY <2>1, <2>3
  <2>5. f \in Frames BY <2>2, <2>4, FrameTyped DEF Called
  <2>6. /\ ready' = [ready EXCEPT ![s] = Tail(ready[s])] /\ Become(t, f)
        /\ UNCHANGED <<locked, waiting, posted, fresh>>
    BY <1>6 DEF Take
  <2>7. stack' \in [Threads -> Seq(Frames)] BY <2>1, <2>5, <2>6, Became
  <2>8. ready' \in [Strands -> Seq(Handlers)] BY <2>2, <2>4, <2>6 DEF TypeOK
  <2> QED BY <2>6, <2>7, <2>8 DEF TypeOK
<1>7. ASSUME NEW t \in Threads, Return(t) PROVE TypeOK'
  <2> DEFINE f == Frame(Top(t).strand, "loop", NoHandler, Top(t).dispatch)
  <2>1. stack[t] # <<>> BY <1>7 DEF Return, At
  <2>2. f \in Frames BY <2>1, TopIsFrame, FrameFields, FrameTyped
  <2>3. Become(t, f) \/ Leave(t) BY <1>7 DEF Return
  <2>4. stack' \in [Threads -> Seq(Frames)] BY <2>1, <2>2, <2>3, Became, Left
  <2> QED BY <1>7, <2>4 DEF Return, TypeOK
<1>8. ASSUME NEW t \in Threads, Exit(t) PROVE TypeOK'
  <2> DEFINE s == Top(t).strand
             f == Frame(s, "schedule", NoHandler, FALSE)
  <2>1. stack[t] # <<>> BY <1>8 DEF Exit, At
  <2>2. s \in Strands BY <2>1, TopIsFrame, FrameFields
  <2>3. f \in Frames BY <2>2, FrameTyped
  <2>4. Become(t, f) \/ Leave(t) BY <1>8 DEF Exit
  <2>5. stack' \in [Threads -> Seq(Frames)] BY <2>1, <2>3, <2>4, Became, Left
  <2>6. waiting[s] \in Seq(Handlers) /\ <<>> \in Seq(Handlers) BY <2>2 DEF TypeOK
  <2>7. /\ ready' = [ready EXCEPT ![s] = waiting[s]]
        /\ waiting' = [waiting EXCEPT ![s] = <<>>]
        /\ locked' = [locked EXCEPT ![s] = (waiting[s] # <<>>)]
        /\ UNCHANGED <<posted, fresh>>
    BY <1>8 DEF Exit
  <2>8. /\ ready' \in [Strands -> Seq(Handlers)]
        /\ waiting' \in [Strands -> Seq(Handlers)]
    BY <2>2, <2>6, <2>7 DEF TypeOK
  <2>9. locked' \in [Strands -> BOOLEAN] BY <2>2, <2>7 DEF TypeOK
  <2> QED BY <2>5, <2>7, <2>8, <2>9 DEF TypeOK
<1>9. CASE UNCHANGED vars BY <1>9 DEF vars, TypeOK
<1> QED BY <1>1, <1>2, <1>3, <1>4, <1>5, <1>6, <1>7, <1>8, <1>9 DEF Next, Step, Submit

-----------------------------------------------------------------------------
(* What each change of a stack does to the invokers.                       *)

(* An invoker is entered for a strand that has none. *)
LEMMA EnterInvoker ==
  ASSUME TypeOK, StackInv, NEW t \in Threads, NEW f \in Frames, InHandler(t),
         f.at # "inside", ~Held(f.strand), Enter(t, f)
  PROVE  StackInv' /\ \A s \in Strands : Held(s)' <=> Held(s) \/ s = f.strand
<1> DEFINE n == Len(stack[t])
<1>1. /\ DOMAIN stack'[t] = 1 .. (n + 1) /\ Len(stack'[t]) = n + 1
      /\ stack'[t][n + 1] = f
      /\ \A i \in 1 .. n : stack'[t][i] = stack[t][i]
      /\ \A u \in Threads : u # t => stack'[u] = stack[u]
  BY Entered
<1>2. n \in Nat /\ DOMAIN stack[t] = 1 .. n BY DEF TypeOK
<1>3. \A i \in 1 .. n : i = n => stack[t][i].at \in {"run", "inside"}
  BY <1>2 DEF InHandler, At, Top
<1>4. \A u \in Threads : \A i \in DOMAIN stack[u] :
        i \in DOMAIN stack'[u] /\ stack'[u][i] = stack[u][i]
  BY <1>1, <1>2
<1>5. \A u \in Threads : \A i \in DOMAIN stack'[u] :
        i \in DOMAIN stack[u] \/ (u = t /\ i = n + 1)
  BY <1>1, <1>2
<1>6. \A u \in Threads, s \in Strands : \A i \in DOMAIN stack'[u] :
        Holds(u, i, s)' <=> Holds(u, i, s) \/ (u = t /\ i = n + 1 /\ s = f.strand)
  BY <1>1, <1>2, <1>4, <1>5 DEF Holds
<1>7. Shape'
  BY <1>1, <1>2, <1>3 DEF StackInv, Shape
<1>8. InsideAnother'
  BY <1>1, <1>2, <1>4, <1>5 DEF StackInv, InsideAnother, Holds
<1>9. OneInvoker'
  BY <1>4, <1>5, <1>6 DEF StackInv, OneInvoker, Held, Holds
<1>10. ASSUME NEW s \in Strands PROVE Held(s)' <=> Held(s) \/ s = f.strand
  BY <1>1, <1>2, <1>4, <1>5, <1>6 DEF Held, Holds
<1> QED BY <1>7, <1>8, <1>9, <1>10 DEF StackInv

(* A handler is called inside another of its strand. *)
LEMMA EnterInside ==
  ASSUME TypeOK, StackInv, NEW t \in Threads, NEW f \in Frames, InHandler(t),
         f.at = "inside", Contains(t, f.strand), Enter(t, f)
  PROVE  StackInv' /\ \A s \in Strands : Held(s)' <=> Held(s)
<1> DEFINE n == Len(stack[t])
<1>1. /\ DOMAIN stack'[t] = 1 .. (n + 1) /\ Len(stack'[t]) = n + 1
      /\ stack'[t][n + 1] = f
      /\ \A i \in 1 .. n : stack'[t][i] = stack[t][i]
      /\ \A u \in Threads : u # t => stack'[u] = stack[u]
  BY Entered
<1>2. n \in Nat /\ DOMAIN stack[t] = 1 .. n BY DEF TypeOK
<1>3. \A i \in 1 .. n : i = n => stack[t][i].at \in {"run", "inside"}
  BY <1>2 DEF InHandler, At, Top
<1>4. \A u \in Threads : \A i \in DOMAIN stack[u] :
        i \in DOMAIN stack'[u] /\ stack'[u][i] = stack[u][i]
  BY <1>1, <1>2
<1>5. \A u \in Threads : \A i \in DOMAIN stack'[u] :
        i \in DOMAIN stack[u] \/ (u = t /\ i = n + 1)
  BY <1>1, <1>2
<1>6. \A u \in Threads, s \in Strands : \A i \in DOMAIN stack'[u] :
        Holds(u, i, s)' <=> Holds(u, i, s)
  BY <1>1, <1>2, <1>4, <1>5 DEF Holds
<1>7. Shape'
  BY <1>1, <1>2, <1>3 DEF StackInv, Shape
<1>8. InsideAnother'
  <2>1. PICK i \in DOMAIN stack[t] : stack[t][i].strand = f.strand BY DEF Contains
  <2>2. \E j \in DOMAIN stack[t] : j < n + 1 /\ Holds(t, j, f.strand)
    <3>1. CASE stack[t][i].at = "inside"
      BY <1>2, <2>1, <3>1 DEF StackInv, InsideAnother
    <3>2. CASE stack[t][i].at # "inside"
      BY <1>2, <2>1, <3>2 DEF Holds
    <3> QED BY <3>1, <3>2
  <2>3. \E j \in DOMAIN stack'[t] : j < n + 1 /\ Holds(t, j, f.strand)'
    BY <1>4, <2>2 DEF Holds
  <2>4. \A u \in Threads : \A j \in DOMAIN stack[u] :
          stack'[u][j].at = "inside" =>
            \E k \in DOMAIN stack'[u] : k < j /\ Holds(u, k, stack[u][j].strand)'
    BY <1>4 DEF StackInv, InsideAnother, Holds
  <2> QED BY <1>1, <1>5, <2>3, <2>4 DEF InsideAnother
<1>9. OneInvoker'
  BY <1>4, <1>5, <1>6 DEF StackInv, OneInvoker, Holds
<1>10. ASSUME NEW s \in Strands PROVE Held(s)' <=> Held(s)
  BY <1>4, <1>6 DEF Held, Holds
<1> QED BY <1>7, <1>8, <1>9, <1>10 DEF StackInv

(* An invoker goes on to something else. *)
LEMMA BecomeInvoker ==
  ASSUME TypeOK, StackInv, NEW t \in Threads, NEW f \in Frames, stack[t] # <<>>,
         Top(t).at # "inside", f.at # "inside", f.strand = Top(t).strand, Become(t, f)
  PROVE  StackInv' /\ \A s \in Strands : Held(s)' <=> Held(s)
<1> DEFINE n == Len(stack[t])
<1>1. /\ DOMAIN stack'[t] = 1 .. n /\ Len(stack'[t]) = n
      /\ n \in 1 .. n
      /\ stack'[t][n] = f
      /\ \A i \in 1 .. n : i < n => stack'[t][i] = stack[t][i]
      /\ \A u \in Threads : u # t => stack'[u] = stack[u]
  BY Became
<1>2. n \in Nat /\ DOMAIN stack[t] = 1 .. n /\ Top(t) = stack[t][n] BY TopIsFrame
<1>3. \A u \in Threads : \A i : i \in DOMAIN stack'[u] <=> i \in DOMAIN stack[u]
  BY <1>1, <1>2
<1>4. \A u \in Threads : \A i \in DOMAIN stack[u] :
        /\ stack'[u][i].strand = stack[u][i].strand
        /\ stack'[u][i].at = "inside" <=> stack[u][i].at = "inside"
  BY <1>1, <1>2
<1>5. \A u \in Threads, s \in Strands : \A i : Holds(u, i, s)' <=> Holds(u, i, s)
  BY <1>3, <1>4 DEF Holds
<1>6. Shape'
  BY <1>1, <1>2 DEF StackInv, Shape
<1>7. InsideAnother'
  BY <1>3, <1>4 DEF StackInv, InsideAnother, Holds
<1>8. OneInvoker'
  BY <1>3, <1>5 DEF StackInv, OneInvoker
<1>9. ASSUME NEW s \in Strands PROVE Held(s)' <=> Held(s)
  BY <1>3, <1>5 DEF Held
<1> QED BY <1>6, <1>7, <1>8, <1>9 DEF StackInv

(* A frame is left: the strand of an invoker has none then. *)
LEMMA LeaveFrame ==
  ASSUME TypeOK, StackInv, NEW t \in Threads, stack[t] # <<>>, Leave(t)
  PROVE  /\ StackInv'
         /\ \A s \in Strands : Held(s)' <=>
              Held(s) /\ (Top(t).at = "inside" \/ s # Top(t).strand)
<1> DEFINE n == Len(stack[t])
<1>1. /\ DOMAIN stack'[t] = 1 .. (n - 1) /\ Len(stack'[t]) = n - 1
      /\ \A i \in 1 .. (n - 1) : stack'[t][i] = stack[t][i]
      /\ \A u \in Threads : u # t => stack'[u] = stack[u]
  BY Left
<1>2. n \in Nat /\ DOMAIN stack[t] = 1 .. n /\ n \in 1 .. n /\ Top(t) = stack[t][n]
  BY TopIsFrame
<1>3. \A u \in Threads : \A i \in DOMAIN stack'[u] :
        i \in DOMAIN stack[u] /\ stack'[u][i] = stack[u][i]
  BY <1>1, <1>2
<1>4. \A u \in Threads : \A i \in DOMAIN stack[u] :
        i \in DOMAIN stack'[u] <=> ~(u = t /\ i = n)
  BY <1>1, <1>2
<1>5. Shape'
  BY <1>1, <1>2, <1>3 DEF StackInv, Shape
<1>6. InsideAnother'
  <2> SUFFICES ASSUME NEW u \in Threads, NEW i \in DOMAIN stack'[u],
                      stack'[u][i].at = "inside"
               PROVE  \E j \in DOMAIN stack'[u] : j < i /\ Holds(u, j, stack[u][i].strand)'
    BY DEF InsideAnother
  <2>1. PICK j \in DOMAIN stack[u] : j < i /\ Holds(u, j, stack[u][i].strand)
    BY <1>3 DEF StackInv, InsideAnother
  <2>2. j \in DOMAIN stack'[u] BY <1>1, <1>2, <2>1
  <2> QED BY <1>3, <2>1, <2>2 DEF Holds
<1>7. OneInvoker'
  BY <1>3 DEF StackInv, OneInvoker, Holds
<1>8. ASSUME NEW s \in Strands
      PROVE  Held(s)' <=> Held(s) /\ (Top(t).at = "inside" \/ s # Top(t).strand)
  <2>1. ASSUME Held(s)' PROVE Held(s) /\ (Top(t).at = "inside" \/ s # Top(t).strand)
    <3>0. PICK u \in Threads : \E i \in DOMAIN stack'[u] : Holds(u, i, s)'
      BY <2>1 DEF Held
    <3>1. PICK i \in DOMAIN stack'[u] : Holds(u, i, s)' BY <3>0
    <3>2. Holds(u, i, s) /\ i \in DOMAIN stack[u] BY <1>3, <3>1 DEF Holds
    <3>3. ASSUME Top(t).at # "inside", s = Top(t).strand PROVE FALSE
      <4>1. Holds(t, n, s) BY <1>2, <3>3 DEF Holds
      <4>2. u = t /\ i = n BY <1>2, <3>2, <4>1 DEF StackInv, OneInvoker
      <4> QED BY <1>4, <3>1, <3>2, <4>2
    <3> QED BY <3>2, <3>3 DEF Held
  <2>2. ASSUME Held(s), Top(t).at = "inside" \/ s # Top(t).strand PROVE Held(s)'
    <3>0. PICK u \in Threads : \E i \in DOMAIN stack[u] : Holds(u, i, s)
      BY <2>2 DEF Held
    <3>1. PICK i \in DOMAIN stack[u] : Holds(u, i, s) BY <3>0
    <3>2. ~(u = t /\ i = n) BY <1>2, <2>2, <3>1 DEF Holds
    <3>3. i \in DOMAIN stack'[u] /\ Holds(u, i, s)' BY <1>3, <1>4, <3>1, <3>2 DEF Holds
    <3> QED BY <3>3 DEF Held
  <2> QED BY <2>1, <2>2
<1> QED BY <1>5, <1>6, <1>7, <1>8 DEF StackInv

-----------------------------------------------------------------------------

LEMMA InitInv == Init => IInv
<1> SUFFICES ASSUME Init PROVE IInv OBVIOUS
<1>1. TypeOK BY InitTyped
<1>2. \A t \in Threads : DOMAIN stack[t] = {} BY DEF Init
<1>3. StackInv BY <1>2 DEF StackInv, Shape, InsideAnother, OneInvoker
<1>4. \A s \in Strands : ~Held(s) BY <1>2 DEF Held
<1>5. QueuedAlone /\ LockedWhileHeld BY <1>4 DEF Init, QueuedAlone, LockedWhileHeld
<1> QED BY <1>1, <1>3, <1>5 DEF IInv

LEMMA StepInv == IInv /\ [Next]_vars => IInv'
<1> SUFFICES ASSUME IInv, [Next]_vars PROVE StackInv' /\ QueuedAlone' /\ LockedWhileHeld'
  BY StepTyped DEF IInv
<1> USE StrandAssumption
<1>0. TypeOK /\ StackInv /\ QueuedAlone /\ LockedWhileHeld BY DEF IInv
<1> DEFINE Goal == StackInv' /\ QueuedAlone' /\ LockedWhileHeld'
<1>1. ASSUME NEW t \in Threads, NEW h \in Handlers, CallInside(t, h) PROVE Goal
  <2> DEFINE f == Frame(StrandOf[h], "inside", h, TRUE)
  <2>1. f \in Frames /\ f.at = "inside" /\ f.strand = StrandOf[h]
    BY FrameTyped DEF Called, Frame
  <2>2. InHandler(t) /\ Contains(t, f.strand) /\ Enter(t, f) /\ UNCHANGED <<locked, posted>>
    BY <1>1, <2>1 DEF CallInside
  <2>3. StackInv' /\ \A s \in Strands : Held(s)' <=> Held(s)
    BY <1>0, <2>1, <2>2, EnterInside
  <2> QED BY <1>0, <2>2, <2>3 DEF QueuedAlone, LockedWhileHeld
<1>2. ASSUME NEW t \in Threads, NEW h \in Handlers, NEW d \in BOOLEAN, Enqueue(t, h, d)
      PROVE  Goal
  <2> DEFINE r == StrandOf[h]
             f == Frame(r, "push", h, d)
  <2>1. r \in Strands /\ f \in Frames /\ f.at = "push" /\ f.strand = r
    BY FrameTyped DEF Called, Frame
  <2>2. UNCHANGED posted /\ InHandler(t) BY <1>2 DEF Enqueue
  <2>3. CASE locked[r]
    <3>1. UNCHANGED <<locked, stack>> BY <1>2, <2>3 DEF Enqueue
    <3>2. StackInv' /\ \A s \in Strands : Held(s)' <=> Held(s)
      BY <1>0, <3>1 DEF StackInv, Shape, InsideAnother, OneInvoker, Held, Holds
    <3> QED BY <1>0, <2>2, <3>1, <3>2 DEF QueuedAlone, LockedWhileHeld
  <2>4. CASE ~locked[r]
    <3>1. locked' = [locked EXCEPT ![r] = TRUE] /\ Enter(t, f) BY <1>2, <2>4 DEF Enqueue
    <3>2. posted[r] = 0 /\ ~Held(r) BY <1>0, <2>1, <2>4 DEF QueuedAlone, LockedWhileHeld
    <3>3. StackInv' /\ \A s \in Strands : Held(s)' <=> Held(s) \/ s = r
      BY <1>0, <2>1, <2>2, <3>1, <3>2, EnterInvoker
    <3>4. \A s \in Strands : locked[s] \/ s = r => locked'[s]
      BY <1>0, <2>1, <3>1 DEF TypeOK
    <3>5. QueuedAlone' BY <1>0, <2>1, <2>2, <3>2, <3>3 DEF QueuedAlone
    <3>6. LockedWhileHeld' BY <1>0, <2>2, <3>3, <3>4 DEF LockedWhileHeld
    <3> QED BY <3>3, <3>5, <3>6
  <2> QED BY <2>3, <2>4
<1>3. ASSUME NEW t \in Threads, Push(t) PROVE Goal
  <2> DEFINE f == Frame(Top(t).strand, "schedule", NoHandler, Top(t).dispatch)
  <2>1. stack[t] # <<>> /\ Top(t).at = "push" BY <1>3 DEF Push, At
  <2>2. f \in Frames BY <1>0, <2>1, TopIsFrame, FrameFields, FrameTyped
  <2>3. f.at # "inside" /\ f.strand = Top(t).strand BY DEF Frame
  <2>4. Become(t, f) /\ UNCHANGED <<locked, posted>> BY <1>3 DEF Push
  <2>5. StackInv' /\ \A s \in Strands : Held(s)' <=> Held(s)
    BY <1>0, <2>1, <2>2, <2>3, <2>4, BecomeInvoker
  <2> QED BY <1>0, <2>4, <2>5 DEF QueuedAlone, LockedWhileHeld
<1>4. ASSUME NEW t \in Threads, Schedule(t) PROVE Goal
  <2> DEFINE r == Top(t).strand
             f == Frame(r, "loop", NoHandler, TRUE)
  <2>1. stack[t] # <<>> /\ Top(t).at = "schedule" /\ UNCHANGED locked
    BY <1>4 DEF Schedule, At
  <2>2. r \in Strands /\ f \in Frames BY <1>0, <2>1, TopIsFrame, FrameFields, FrameTyped
  <2>3. f.at # "inside" /\ f.strand = r BY DEF Frame
  <2>4. Held(r) BY <1>0, <2>1, TopIsFrame DEF Held, Holds
  <2>5. CASE Top(t).dispatch
    <3>1. Become(t, f) /\ UNCHANGED posted BY <1>4, <2>5 DEF Schedule
    <3>2. StackInv' /\ \A s \in Strands : Held(s)' <=> Held(s)
      BY <1>0, <2>1, <2>2, <2>3, <3>1, BecomeInvoker
    <3> QED BY <1>0, <2>1, <3>1, <3>2 DEF QueuedAlone, LockedWhileHeld
  <2>6. CASE ~Top(t).dispatch
    <3>1. Leave(t) /\ posted' = [posted EXCEPT ![r] = posted[r] + 1]
      BY <1>4, <2>6 DEF Schedule
    <3>2. posted[r] = 0 /\ locked[r] BY <1>0, <2>2, <2>4 DEF QueuedAlone, LockedWhileHeld
    <3>3. StackInv' /\ \A s \in Strands : Held(s)' <=> Held(s) /\ s # r
      BY <1>0, <2>1, <3>1, LeaveFrame
    <3>4. \A s \in Strands : posted'[s] = IF s = r THEN 1 ELSE posted[s]
      BY <1>0, <2>2, <3>1, <3>2 DEF TypeOK
    <3> QED BY <1>0, <2>1, <3>2, <3>3, <3>4 DEF QueuedAlone, LockedWhileHeld
  <2> QED BY <2>5, <2>6
<1>5. ASSUME NEW t \in Threads, NEW r \in Strands, Invoke(t, r) PROVE Goal
  <2> DEFINE f == Frame(r, "loop", NoHandler, FALSE)
  <2>1. /\ InHandler(t) /\ Enter(t, f) /\ UNCHANGED locked
        /\ posted[r] > 0 /\ posted' = [posted EXCEPT ![r] = posted[r] - 1]
    BY <1>5 DEF Invoke, InHandler
  <2>2. f \in Frames /\ f.at # "inside" /\ f.strand = r BY FrameTyped DEF Frame
  <2>3. posted[r] = 1 /\ ~Held(r) /\ locked[r]
    BY <1>0, <2>1 DEF QueuedAlone, LockedWhileHeld
  <2>4. StackInv' /\ \A s \in Strands : Held(s)' <=> Held(s) \/ s = r
    BY <1>0, <2>1, <2>2, <2>3, EnterInvoker
  <2>5. \A s \in Strands : posted'[s] = IF s = r THEN 0 ELSE posted[s]
    BY <1>0, <2>1, <2>3 DEF TypeOK
  <2> QED BY <1>0, <2>1, <2>3, <2>4, <2>5 DEF QueuedAlone, LockedWhileHeld
<1>6. ASSUME NEW t \in Threads, Take(t) PROVE Goal
  <2> DEFINE r == Top(t).strand
             f == Frame(r, "run", Head(ready[r]), Top(t).dispatch)
  <2>1. stack[t] # <<>> /\ Top(t).at = "loop" /\ ready[r] # <<>> BY <1>6 DEF Take, At
  <2>2. r \in Strands /\ Top(t).dispatch \in BOOLEAN BY <1>0, <2>1, TopIsFrame, FrameFields
  <2>3. ready[r] \in Seq(Handlers) BY <1>0, <2>2 DEF TypeOK
  <2>4. Head(ready[r]) \in Handlers BY <2>1, <2>3
  <2>5. f \in Frames BY <2>2, <2>4, FrameTyped DEF Called
  <2>6. f.at # "inside" /\ f.strand = r BY DEF Frame
  <2>7. Become(t, f) /\ UNCHANGED <<locked, posted>> BY <1>6 DEF Take
  <2>8. StackInv' /\ \A s \in Strands : Held(s)' <=> Held(s)
    BY <1>0, <2>1, <2>5, <2>6, <2>7, BecomeInvoker
  <2> QED BY <1>0, <2>7, <2>8 DEF QueuedAlone, LockedWhileHeld
<1>7. ASSUME NEW t \in Threads, Return(t) PROVE Goal
  <2> DEFINE f == Frame(Top(t).strand, "loop", NoHandler, Top(t).dispatch)
  <2>1. stack[t] # <<>> /\ UNCHANGED <<locked, posted>> BY <1>7 DEF Return, At
  <2>2. StackInv' /\ \A s \in Strands : Held(s)' <=> Held(s)
    <3>1. CASE At(t, "run")
      <4>1. f \in Frames BY <1>0, <2>1, TopIsFrame, FrameFields, FrameTyped
      <4>2. f.at # "inside" /\ f.strand = Top(t).strand BY DEF Frame
      <4>3. Become(t, f) /\ Top(t).at # "inside" BY <1>7, <3>1 DEF Return, At
      <4> QED BY <1>0, <2>1, <4>1, <4>2, <4>3, BecomeInvoker
    <3>2. CASE ~At(t, "run")
      <4>1. Leave(t) /\ Top(t).at = "inside" BY <1>7, <3>2 DEF Return, At
      <4> QED BY <1>0, <2>1, <4>1, LeaveFrame
    <3> QED BY <3>1, <3>2
  <2> QED BY <1>0, <2>1, <2>2 DEF QueuedAlone, LockedWhileHeld
<1>8. ASSUME NEW t \in Threads, Exit(t) PROVE Goal
  <2> DEFINE r == Top(t).strand
             f == Frame(r, "schedule", NoHandler, FALSE)
  <2>1. stack[t] # <<>> /\ Top(t).at = "loop" /\ UNCHANGED posted BY <1>8 DEF Exit, At
  <2>2. r \in Strands BY <1>0, <2>1, TopIsFrame, FrameFields
  <2>3. locked' = [locked EXCEPT ![r] = (waiting[r] # <<>>)] BY <1>8 DEF Exit
  <2>4. Held(r) BY <1>0, <2>1, TopIsFrame DEF Held, Holds
  <2>5. posted[r] = 0 BY <1>0, <2>2, <2>4 DEF QueuedAlone
  <2>6. \A s \in Strands : locked'[s] = IF s = r THEN waiting[r] # <<>> ELSE locked[s]
    BY <1>0, <2>3 DEF TypeOK
  <2>7. CASE waiting[r] # <<>>
    <3>1. f \in Frames /\ f.at # "inside" /\ f.strand = r BY <2>2, FrameTyped DEF Frame
    <3>2. Become(t, f) BY <1>8, <2>7 DEF Exit
    <3>3. StackInv' /\ \A s \in Strands : Held(s)' <=> Held(s)
      BY <1>0, <2>1, <3>1, <3>2, BecomeInvoker
    <3> QED BY <1>0, <2>1, <2>6, <2>7, <3>3 DEF QueuedAlone, LockedWhileHeld
  <2>8. CASE waiting[r] = <<>>
    <3>1. Leave(t) BY <1>8, <2>8 DEF Exit
    <3>2. StackInv' /\ \A s \in Strands : Held(s)' <=> Held(s) /\ s # r
      BY <1>0, <2>1, <3>1, LeaveFrame
    <3> QED BY <1>0, <2>1, <2>5, <2>6, <3>2 DEF QueuedAlone, LockedWhileHeld
  <2> QED BY <2>7, <2>8
<1>9. CASE UNCHANGED vars
  <2>1. UNCHANGED <<stack, posted, locked>> BY <1>9 DEF vars
  <2>2. StackInv' /\ \A s \in Strands : Held(s)' <=> Held(s)
    BY <1>0, <2>1 DEF StackInv, Shape, InsideAnother, OneInvoker, Held, Holds
  <2> QED BY <1>0, <2>1, <2>2 DEF QueuedAlone, LockedWhileHeld
<1> QED BY <1>1, <1>2, <1>3, <1>4, <1>5, <1>6, <1>7, <1>8, <1>9 DEF Next, Step, Submit

LEMMA InvSafe == IInv => OneAtATime
<1> SUFFICES ASSUME IInv, NEW s \in Strands, NEW t \in Threads, NEW u \in Threads,
                    Runs(t, s), Runs(u, s)
             PROVE  t = u
  BY DEF OneAtATime
<1>1. ASSUME NEW v \in Threads, Runs(v, s)
      PROVE  \E i \in DOMAIN stack[v] : Holds(v, i, s)
  <2>1. PICK i \in DOMAIN stack[v] :
          stack[v][i].strand = s /\ stack[v][i].at \in {"run", "inside"}
    BY <1>1 DEF Runs
  <2>2. CASE stack[v][i].at = "run" BY <2>1, <2>2 DEF Holds
  <2>3. CASE stack[v][i].at = "inside"
    BY <2>1, <2>3 DEF IInv, StackInv, InsideAnother
  <2> QED BY <2>1, <2>2, <2>3
<1> QED BY <1>1 DEF IInv, StackInv, OneInvoker

-----------------------------------------------------------------------------

(* Every reachable state of any strands is well typed; in particular what  *)
(* an invoker finds in ready_queue_ is a handler.                          *)
THEOREM TypeCorrect == Spec => []TypeOK
<1>1. TypeOK /\ [Next]_vars => TypeOK' BY StepTyped
<1> QED BY InitTyped, <1>1, PTL DEF Spec

(* Handlers of one strand never run on two threads at the same time: what  *)
(* FTPSession relies on for msgOutputQueue_ and its transfer buffers.      *)
THEOREM MutualExclusion == Spec => []OneAtATime
<1>1. IInv /\ [Next]_vars => IInv' BY StepInv
<1> QED BY InitInv, <1>1, InvSafe, PTL DEF Spec

-----------------------------------------------------------------------------
(* The queue that a strand is.  What FreeIsEmpty and PushedFirst add: the  *)
(* handler that locked the strand is the first to become ready, however    *)
(* long its thread takes to push it.                                       *)

SortedQueues ==
  \A s \in Strands :
    /\ \A i \in DOMAIN ready[s] : StrandOf[ready[s][i]] = s
    /\ \A i \in DOMAIN waiting[s] : StrandOf[waiting[s][i]] = s

SortedFrames ==
  \A t \in Threads : \A i \in DOMAIN stack[t] :
    stack[t][i].at \in Called => StrandOf[stack[t][i].handler] = stack[t][i].strand

FreeIsEmpty == \A s \in Strands : locked[s] \/ (ready[s] = <<>> /\ waiting[s] = <<>>)

PushedFirst == \A t \in Threads : At(t, "push") => ready[Top(t).strand] = <<>>

QInv == IInv /\ SortedQueues /\ SortedFrames /\ FreeIsEmpty /\ PushedFirst

(* While a thread has the invoker of s on top of its stack, no frame of    *)
(* any other thread, and none below, holds s.                              *)
LEMMA OnlyHolder ==
  ASSUME TypeOK, StackInv, NEW t \in Threads, stack[t] # <<>>, Top(t).at # "inside",
         NEW u \in Threads, NEW i \in DOMAIN stack[u], Holds(u, i, Top(t).strand)
  PROVE  u = t /\ i = Len(stack[t])
<1>1. /\ Len(stack[t]) \in DOMAIN stack[t] /\ Top(t) \in Frames
      /\ Top(t) = stack[t][Len(stack[t])]
  BY TopIsFrame
<1>2. Holds(t, Len(stack[t]), Top(t).strand) BY <1>1 DEF Holds
<1>3. Top(t).strand \in Strands BY <1>1, FrameFields
<1> QED BY <1>1, <1>2, <1>3 DEF StackInv, OneInvoker

LEMMA OnlyPusher ==
  ASSUME TypeOK, StackInv, NEW t \in Threads, stack[t] # <<>>, Top(t).at # "inside",
         NEW u \in Threads, Pushes(u, Top(t).strand)
  PROVE  u = t
<1>1. stack[u] # <<>> /\ Top(u).at = "push" /\ Top(u).strand = Top(t).strand
  BY DEF Pushes, At
<1>2. Len(stack[u]) \in DOMAIN stack[u] /\ Holds(u, Len(stack[u]), Top(t).strand)
  BY <1>1, TopIsFrame DEF Holds
<1> QED BY <1>2, OnlyHolder

(* What a thread leaves it leaves to a handler, or to nothing. *)
LEMMA NoPushBelow ==
  ASSUME TypeOK, StackInv, NEW t \in Threads, stack[t] # <<>>, Leave(t)
  PROVE  InHandler(t)'
<1> DEFINE n == Len(stack[t])
<1>1. /\ Len(stack'[t]) = n - 1 /\ stack' \in [Threads -> Seq(Frames)]
      /\ \A i \in 1 .. (n - 1) : stack'[t][i] = stack[t][i]
  BY Left
<1>2. n \in Nat /\ n \in DOMAIN stack[t] /\ DOMAIN stack[t] = 1 .. n BY TopIsFrame
<1>3. CASE n - 1 = 0
  <2>1. stack'[t] \in Seq(Frames) /\ Len(stack'[t]) = 0 BY <1>1, <1>3
  <2>2. stack'[t] = <<>> BY <2>1
  <2> QED BY <2>2 DEF InHandler
<1>4. CASE n - 1 # 0
  <2>1. n - 1 \in 1 .. (n - 1) /\ n - 1 < n
    <3>1. n \in Nat /\ n >= 1 BY <1>2
    <3>2. \A m \in Nat : m >= 1 /\ m - 1 # 0 => m - 1 \in 1 .. (m - 1) /\ m - 1 < m
      OBVIOUS
    <3> QED BY <1>4, <3>1, <3>2
  <2>2. stack'[t][n - 1].at \in {"run", "inside"}
    BY <1>1, <1>2, <2>1 DEF StackInv, Shape
  <2>3. stack'[t] # <<>> BY <1>1, <1>4
  <2> QED BY <1>1, <2>2, <2>3 DEF InHandler, At, Top
<1> QED BY <1>3, <1>4

LEMMA NoPushInHandler ==
  ASSUME NEW t \in Threads, InHandler(t)
  PROVE  ~At(t, "push")
BY DEF InHandler, At

(* The top of t after it has entered, or become, f. *)
LEMMA NewTop ==
  ASSUME TypeOK, NEW t \in Threads, NEW f \in Frames,
         Enter(t, f) \/ (stack[t] # <<>> /\ Become(t, f))
  PROVE  Top(t)' = f /\ stack'[t] # <<>>
<1>1. CASE Enter(t, f)
  <2>1. /\ Len(stack'[t]) = Len(stack[t]) + 1 /\ stack'[t][Len(stack[t]) + 1] = f
        /\ stack' \in [Threads -> Seq(Frames)]
    BY <1>1, Entered
  <2>2. Len(stack[t]) \in Nat BY DEF TypeOK
  <2>3. stack'[t] # <<>> BY <2>1, <2>2
  <2> QED BY <2>1, <2>3 DEF Top
<1>2. CASE stack[t] # <<>> /\ Become(t, f)
  <2>1. /\ Len(stack'[t]) = Len(stack[t]) /\ stack'[t][Len(stack[t])] = f
        /\ Len(stack[t]) \in 1 .. Len(stack[t])
        /\ stack' \in [Threads -> Seq(Frames)]
    BY <1>2, Became
  <2>2. stack'[t] # <<>> BY <2>1
  <2> QED BY <2>1, <2>2 DEF Top
<1> QED BY <1>1, <1>2

(* A thread that enters, becomes or leaves a frame moves no handler to a   *)
(* frame of another strand, and none starts to push but in enqueue.        *)
LEMMA FramesStaySorted ==
  ASSUME TypeOK, SortedFrames, NEW t \in Threads, NEW f \in Frames,
         f.at \in Called => StrandOf[f.handler] = f.strand,
         Enter(t, f) \/ (stack[t] # <<>> /\ Become(t, f)) \/ (stack[t] # <<>> /\ Leave(t))
  PROVE  SortedFrames'
<1>1. \A u \in Threads : u # t => stack'[u] = stack[u]
  BY Entered, Became, Left
<1>2. DOMAIN stack[t] = 1 .. Len(stack[t]) /\ Len(stack[t]) \in Nat BY DEF TypeOK
<1>3. \A i \in DOMAIN stack'[t] :
        stack'[t][i] = f \/ (i \in DOMAIN stack[t] /\ stack'[t][i] = stack[t][i])
  <2>1. CASE Enter(t, f) BY <1>2, <2>1, Entered
  <2>2. CASE stack[t] # <<>> /\ Become(t, f) BY <1>2, <2>2, Became
  <2>3. CASE stack[t] # <<>> /\ Leave(t) BY <1>2, <2>3, Left
  <2> QED BY <2>1, <2>2, <2>3
<1>4. ASSUME NEW u \in Threads, NEW i \in DOMAIN stack'[u], stack'[u][i].at \in Called
      PROVE  StrandOf[stack'[u][i].handler] = stack'[u][i].strand
  <2>1. CASE u # t BY <1>1, <1>4, <2>1 DEF SortedFrames
  <2>2. CASE u = t BY <1>3, <1>4, <2>2 DEF SortedFrames
  <2> QED BY <2>1, <2>2
<1> QED BY <1>4 DEF SortedFrames

(* Only t can have changed whether it pushes. *)
LEMMA OthersPush ==
  ASSUME NEW t \in Threads, \A u \in Threads : u # t => stack'[u] = stack[u]
  PROVE  \A u \in Threads : u # t =>
           /\ At(u, "push")' <=> At(u, "push")
           /\ Top(u)' = Top(u)
           /\ \A s \in Strands : Pushes(u, s)' <=> Pushes(u, s)
BY DEF At, Top, Pushes

LEMMA QuietQueues ==
  ASSUME QInv, NEW t \in Threads, ~At(t, "push")',
         \A u \in Threads : u # t => stack'[u] = stack[u],
         \A s \in Strands : locked[s] => locked'[s] \/ (ready'[s] = <<>> /\ waiting'[s] = <<>>),
         UNCHANGED <<ready, waiting>>
  PROVE  SortedQueues' /\ FreeIsEmpty' /\ PushedFirst'
<1>1. SortedQueues' BY DEF QInv, SortedQueues
<1>2. FreeIsEmpty' BY DEF QInv, FreeIsEmpty
<1>3. PushedFirst' BY OthersPush DEF QInv, PushedFirst
<1> QED BY <1>1, <1>2, <1>3

-----------------------------------------------------------------------------

LEMMA InitQInv == Init => QInv
<1> SUFFICES ASSUME Init PROVE QInv OBVIOUS
<1>1. IInv BY InitInv
<1>2. \A t \in Threads : stack[t] = <<>> BY DEF Init
<1>3. \A t \in Threads : DOMAIN stack[t] = {} BY <1>2
<1>4. \A s \in Strands : ready[s] = <<>> /\ waiting[s] = <<>> BY DEF Init
<1>5. SortedQueues
  <2>1. ASSUME NEW s \in Strands PROVE DOMAIN ready[s] = {} BY <1>4
  <2>2. ASSUME NEW s \in Strands PROVE DOMAIN waiting[s] = {} BY <1>4
  <2> QED BY <2>1, <2>2 DEF SortedQueues
<1>6. SortedFrames BY <1>3 DEF SortedFrames
<1>7. PushedFirst BY <1>2 DEF PushedFirst, At
<1> QED BY <1>1, <1>4, <1>5, <1>6, <1>7 DEF QInv, FreeIsEmpty

(* A queue that gets a handler of its strand at its end, or loses its      *)
(* first, or all, is one of its strand still.                              *)
LEMMA AppendedSorted ==
  ASSUME NEW q \in Seq(Handlers), NEW h \in Handlers, NEW s,
         \A i \in DOMAIN q : StrandOf[q[i]] = s, StrandOf[h] = s
  PROVE  \A i \in DOMAIN Append(q, h) : StrandOf[Append(q, h)[i]] = s
OBVIOUS

LEMMA TailSorted ==
  ASSUME NEW q \in Seq(Handlers), q # <<>>, NEW s, \A i \in DOMAIN q : StrandOf[q[i]] = s
  PROVE  \A i \in DOMAIN Tail(q) : StrandOf[Tail(q)[i]] = s
<1>1. Len(q) \in Nat /\ Len(q) >= 1 /\ DOMAIN q = 1 .. Len(q) OBVIOUS
<1>2. /\ Tail(q) \in Seq(Handlers) /\ Len(Tail(q)) = Len(q) - 1
      /\ \A i \in 1 .. Len(q) - 1 : Tail(q)[i] = q[i + 1]
  BY <1>1
<1>3. DOMAIN Tail(q) = 1 .. Len(q) - 1 BY <1>1, <1>2
<1> QED BY <1>1, <1>2, <1>3

LEMMA StepQInv == QInv /\ [Next]_vars => QInv'
<1> SUFFICES ASSUME QInv, [Next]_vars
             PROVE  SortedQueues' /\ SortedFrames' /\ FreeIsEmpty' /\ PushedFirst'
  BY StepInv DEF QInv
<1> USE StrandAssumption
<1> DEFINE Goal == SortedQueues' /\ SortedFrames' /\ FreeIsEmpty' /\ PushedFirst'
<1>0. /\ TypeOK /\ StackInv /\ QueuedAlone /\ LockedWhileHeld
      /\ SortedQueues /\ SortedFrames /\ FreeIsEmpty /\ PushedFirst
  BY DEF QInv, IInv
<1>1. ASSUME NEW t \in Threads, NEW h \in Handlers, CallInside(t, h) PROVE Goal
  <2> DEFINE f == Frame(StrandOf[h], "inside", h, TRUE)
  <2>1. f \in Frames /\ f.at = "inside" /\ f.strand = StrandOf[h] /\ f.handler = h
    BY FrameTyped DEF Called, Frame
  <2>2. Enter(t, f) /\ UNCHANGED <<locked, ready, waiting>> BY <1>1 DEF CallInside
  <2>3. SortedFrames' BY <1>0, <2>1, <2>2, FramesStaySorted
  <2>4. Top(t)' = f BY <1>0, <2>1, <2>2, NewTop
  <2>5. ~At(t, "push")' BY <2>1, <2>4 DEF At
  <2>6. \A u \in Threads : u # t => stack'[u] = stack[u] BY <1>0, <2>1, <2>2, Entered
  <2>7. SortedQueues' /\ FreeIsEmpty' /\ PushedFirst'
    BY <2>2, <2>5, <2>6, QuietQueues
  <2> QED BY <2>3, <2>7
<1>2. ASSUME NEW t \in Threads, NEW h \in Handlers, NEW d \in BOOLEAN, Enqueue(t, h, d)
      PROVE  Goal
  <2> DEFINE r == StrandOf[h]
             f == Frame(r, "push", h, d)
  <2>1. /\ r \in Strands /\ f \in Frames /\ f.at = "push" /\ f.strand = r
        /\ f.handler = h
    BY FrameTyped DEF Called, Frame
  <2>2. UNCHANGED ready BY <1>2 DEF Enqueue
  <2>3. CASE locked[r]
    <3>1. /\ UNCHANGED <<locked, stack>>
          /\ waiting' = [waiting EXCEPT ![r] = Append(waiting[r], h)]
      BY <1>2, <2>3 DEF Enqueue
    <3>2. SortedFrames' BY <1>0, <3>1 DEF SortedFrames
    <3>3. PushedFirst' BY <1>0, <2>2, <3>1 DEF PushedFirst, At, Top
    <3>4. /\ waiting'[r] = Append(waiting[r], h)
          /\ \A s \in Strands : s # r => waiting'[s] = waiting[s]
      BY <1>0, <2>1, <3>1 DEF TypeOK
    <3>5. FreeIsEmpty' BY <1>0, <2>2, <2>3, <3>1, <3>4 DEF FreeIsEmpty
    <3>6. \A i \in DOMAIN waiting'[r] : StrandOf[waiting'[r][i]] = r
      <4>1. waiting[r] \in Seq(Handlers) BY <1>0, <2>1 DEF TypeOK
      <4>2. \A i \in DOMAIN waiting[r] : StrandOf[waiting[r][i]] = r
        BY <1>0, <2>1 DEF SortedQueues
      <4>3. \A i \in DOMAIN Append(waiting[r], h) : StrandOf[Append(waiting[r], h)[i]] = r
        BY <4>1, <4>2, AppendedSorted
      <4> QED BY <3>4, <4>3
    <3>7. SortedQueues' BY <1>0, <2>2, <3>4, <3>6 DEF SortedQueues
    <3> QED BY <3>2, <3>3, <3>5, <3>7
  <2>4. CASE ~locked[r]
    <3>1. /\ locked' = [locked EXCEPT ![r] = TRUE] /\ Enter(t, f) /\ UNCHANGED waiting
      BY <1>2, <2>4 DEF Enqueue
    <3>2. SortedFrames' BY <1>0, <2>1, <3>1, FramesStaySorted
    <3>3. SortedQueues' BY <1>0, <2>2, <3>1 DEF SortedQueues
    <3>4. \A s \in Strands : locked[s] => locked'[s] BY <1>0, <2>1, <3>1 DEF TypeOK
    <3>5. FreeIsEmpty' BY <1>0, <2>2, <3>1, <3>4 DEF FreeIsEmpty
    <3>6. Top(t)' = f BY <1>0, <2>1, <3>1, NewTop
    <3>7. ready'[r] = <<>> BY <1>0, <2>1, <2>2, <2>4 DEF FreeIsEmpty
    <3>8. \A u \in Threads : u # t => stack'[u] = stack[u] BY <1>0, <2>1, <3>1, Entered
    <3>9. PushedFirst'
      BY <1>0, <2>1, <2>2, <3>6, <3>7, <3>8, OthersPush DEF PushedFirst
    <3> QED BY <3>2, <3>3, <3>5, <3>9
  <2> QED BY <2>3, <2>4
<1>3. ASSUME NEW t \in Threads, Push(t) PROVE Goal
  <2> DEFINE r == Top(t).strand
             h == Top(t).handler
             f == Frame(r, "schedule", NoHandler, Top(t).dispatch)
  <2>1. stack[t] # <<>> /\ Top(t).at = "push" BY <1>3 DEF Push, At
  <2>2. /\ Top(t) \in Frames /\ Len(stack[t]) \in DOMAIN stack[t]
        /\ Top(t) = stack[t][Len(stack[t])]
    BY <1>0, <2>1, TopIsFrame
  <2>3. r \in Strands /\ h \in Handlers /\ f \in Frames
    BY <2>1, <2>2, FrameFields, FrameTyped DEF Called
  <2>4. f.at = "schedule" /\ f.at \notin Called BY DEF Frame, Called
  <2>5. /\ ready' = [ready EXCEPT ![r] = Append(ready[r], h)] /\ Become(t, f)
        /\ UNCHANGED <<locked, waiting>>
    BY <1>3 DEF Push
  <2>6. StrandOf[h] = r BY <1>0, <2>1, <2>2 DEF SortedFrames, Called
  <2>7. /\ ready'[r] = Append(ready[r], h)
        /\ \A s \in Strands : s # r => ready'[s] = ready[s]
    BY <1>0, <2>3, <2>5 DEF TypeOK
  <2>8. SortedFrames' BY <1>0, <2>1, <2>3, <2>4, <2>5, FramesStaySorted
  <2>9. SortedQueues'
    <3>1. ready[r] \in Seq(Handlers) BY <1>0, <2>3 DEF TypeOK
    <3>2. \A i \in DOMAIN ready[r] : StrandOf[ready[r][i]] = r
      BY <1>0, <2>3 DEF SortedQueues
    <3>3. \A i \in DOMAIN Append(ready[r], h) : StrandOf[Append(ready[r], h)[i]] = r
      BY <2>3, <2>6, <3>1, <3>2, AppendedSorted
    <3>4. \A i \in DOMAIN ready'[r] : StrandOf[ready'[r][i]] = r BY <2>7, <3>3
    <3> QED BY <1>0, <2>5, <2>7, <3>4 DEF SortedQueues
  <2>10. locked[r] BY <1>0, <2>1, <2>2, <2>3 DEF LockedWhileHeld, Held, Holds
  <2>11. FreeIsEmpty' BY <1>0, <2>5, <2>7, <2>10 DEF FreeIsEmpty
  <2>12. ~At(t, "push")'
    <3>1. Top(t)' = f BY <1>0, <2>1, <2>3, <2>5, NewTop
    <3> QED BY <2>4, <3>1 DEF At
  <2>13. \A u \in Threads : u # t => stack'[u] = stack[u]
    BY <1>0, <2>1, <2>3, <2>5, Became
  <2>14. ASSUME NEW u \in Threads, At(u, "push")' PROVE ready'[Top(u)'.strand] = <<>>
    <3>1. u # t BY <2>12, <2>14
    <3>2. At(u, "push") /\ Top(u)' = Top(u) BY <2>13, <2>14, <3>1, OthersPush
    <3>3. Top(u).strand # r
      <4>1. ASSUME Top(u).strand = r PROVE Pushes(u, r) BY <3>2, <4>1 DEF Pushes
      <4> QED BY <1>0, <2>1, <3>1, <4>1, OnlyPusher
    <3>4. Top(u).strand \in Strands
      <4>1. stack[u] # <<>> BY <3>2 DEF At
      <4> QED BY <1>0, <4>1, TopIsFrame, FrameFields
    <3> QED BY <1>0, <2>7, <3>2, <3>3, <3>4 DEF PushedFirst
  <2>15. PushedFirst' BY <2>14 DEF PushedFirst
  <2> QED BY <2>8, <2>9, <2>11, <2>15
<1>4. ASSUME NEW t \in Threads, Schedule(t) PROVE Goal
  <2> DEFINE r == Top(t).strand
             f == Frame(r, "loop", NoHandler, TRUE)
  <2>1. stack[t] # <<>> /\ UNCHANGED <<locked, ready, waiting>> BY <1>4 DEF Schedule, At
  <2>2. f \in Frames BY <1>0, <2>1, TopIsFrame, FrameFields, FrameTyped
  <2>3. f.at = "loop" /\ f.at \notin Called BY DEF Frame, Called
  <2>4. Become(t, f) \/ Leave(t) BY <1>4 DEF Schedule
  <2>5. SortedFrames' BY <1>0, <2>1, <2>2, <2>3, <2>4, FramesStaySorted
  <2>6. \A u \in Threads : u # t => stack'[u] = stack[u]
    BY <1>0, <2>1, <2>2, <2>4, Became, Left
  <2>7. ~At(t, "push")'
    <3>1. CASE Become(t, f)
      <4>1. Top(t)' = f BY <1>0, <2>1, <2>2, <3>1, NewTop
      <4> QED BY <2>3, <4>1 DEF At
    <3>2. CASE Leave(t)
      <4>1. InHandler(t)' BY <1>0, <2>1, <3>2, NoPushBelow
      <4> QED BY <4>1 DEF InHandler, At
    <3> QED BY <2>4, <3>1, <3>2
  <2>8. SortedQueues' /\ FreeIsEmpty' /\ PushedFirst' BY <2>1, <2>6, <2>7, QuietQueues
  <2> QED BY <2>5, <2>8
<1>5. ASSUME NEW t \in Threads, NEW r \in Strands, Invoke(t, r) PROVE Goal
  <2> DEFINE f == Frame(r, "loop", NoHandler, FALSE)
  <2>1. Enter(t, f) /\ UNCHANGED <<locked, ready, waiting>> BY <1>5 DEF Invoke
  <2>2. f \in Frames /\ f.at = "loop" /\ f.at \notin Called
    BY FrameTyped DEF Frame, Called
  <2>3. SortedFrames' BY <1>0, <2>1, <2>2, FramesStaySorted
  <2>4. Top(t)' = f BY <1>0, <2>1, <2>2, NewTop
  <2>5. ~At(t, "push")' BY <2>2, <2>4 DEF At
  <2>6. \A u \in Threads : u # t => stack'[u] = stack[u] BY <1>0, <2>1, <2>2, Entered
  <2>7. SortedQueues' /\ FreeIsEmpty' /\ PushedFirst' BY <2>1, <2>5, <2>6, QuietQueues
  <2> QED BY <2>3, <2>7
<1>6. ASSUME NEW t \in Threads, Take(t) PROVE Goal
  <2> DEFINE r == Top(t).strand
             h == Head(ready[r])
             f == Frame(r, "run", h, Top(t).dispatch)
  <2>1. stack[t] # <<>> /\ Top(t).at = "loop" /\ ready[r] # <<>> BY <1>6 DEF Take, At
  <2>2. r \in Strands /\ Top(t).dispatch \in BOOLEAN BY <1>0, <2>1, TopIsFrame, FrameFields
  <2>3. ready[r] \in Seq(Handlers) BY <1>0, <2>2 DEF TypeOK
  <2>4. h \in Handlers /\ h = ready[r][1] /\ 1 \in DOMAIN ready[r] BY <2>1, <2>3
  <2>5. f \in Frames BY <2>2, <2>4, FrameTyped DEF Called
  <2>6. f.at = "run" /\ f.strand = r /\ f.handler = h BY DEF Frame
  <2>7. /\ Become(t, f) /\ ready' = [ready EXCEPT ![r] = Tail(ready[r])]
        /\ UNCHANGED <<locked, waiting>>
    BY <1>6 DEF Take
  <2>8. /\ ready'[r] = Tail(ready[r])
        /\ \A s \in Strands : s # r => ready'[s] = ready[s]
    BY <1>0, <2>2, <2>7 DEF TypeOK
  <2>9. StrandOf[h] = r BY <1>0, <2>2, <2>4 DEF SortedQueues
  <2>10. SortedFrames' BY <1>0, <2>1, <2>5, <2>6, <2>7, <2>9, FramesStaySorted
  <2>11. SortedQueues'
    <3>1. \A i \in DOMAIN ready[r] : StrandOf[ready[r][i]] = r
      BY <1>0, <2>2 DEF SortedQueues
    <3>2. \A i \in DOMAIN Tail(ready[r]) : StrandOf[Tail(ready[r])[i]] = r
      BY <2>1, <2>3, <3>1, TailSorted
    <3>3. \A i \in DOMAIN ready'[r] : StrandOf[ready'[r][i]] = r BY <2>8, <3>2
    <3> QED BY <1>0, <2>7, <2>8, <3>3 DEF SortedQueues
  <2>12. locked[r] BY <1>0, <2>1, <2>2 DEF FreeIsEmpty
  <2>13. FreeIsEmpty' BY <1>0, <2>7, <2>8, <2>12 DEF FreeIsEmpty
  <2>14. ~At(t, "push")'
    <3>1. Top(t)' = f BY <1>0, <2>1, <2>5, <2>7, NewTop
    <3> QED BY <2>6, <3>1 DEF At
  <2>15. \A u \in Threads : u # t => stack'[u] = stack[u]
    BY <1>0, <2>1, <2>5, <2>7, Became
  <2>16. ASSUME NEW u \in Threads, At(u, "push")' PROVE ready'[Top(u)'.strand] = <<>>
    <3>1. u # t BY <2>14, <2>16
    <3>2. At(u, "push") /\ Top(u)' = Top(u) BY <2>15, <2>16, <3>1, OthersPush
    <3>3. ready[Top(u).strand] = <<>> BY <1>0, <3>2 DEF PushedFirst
    <3>4. Top(u).strand \in Strands
      <4>1. stack[u] # <<>> BY <3>2 DEF At
      <4> QED BY <1>0, <4>1, TopIsFrame, FrameFields
    <3> QED BY <2>1, <2>8, <3>2, <3>3, <3>4
  <2>17. PushedFirst' BY <2>16 DEF PushedFirst
  <2> QED BY <2>10, <2>11, <2>13, <2>17
<1>7. ASSUME NEW t \in Threads, Return(t) PROVE Goal
  <2> DEFINE f == Frame(Top(t).strand, "loop", NoHandler, Top(t).dispatch)
  <2>1. stack[t] # <<>> /\ UNCHANGED <<locked, ready, waiting>> BY <1>7 DEF Return, At
  <2>2. f \in Frames BY <1>0, <2>1, TopIsFrame, FrameFields, FrameTyped
  <2>3. f.at = "loop" /\ f.at \notin Called BY DEF Frame, Called
  <2>4. Become(t, f) \/ Leave(t) BY <1>7 DEF Return
  <2>5. SortedFrames' BY <1>0, <2>1, <2>2, <2>3, <2>4, FramesStaySorted
  <2>6. \A u \in Threads : u # t => stack'[u] = stack[u]
    BY <1>0, <2>1, <2>2, <2>4, Became, Left
  <2>7. ~At(t, "push")'
    <3>1. CASE Become(t, f)
      <4>1. Top(t)' = f BY <1>0, <2>1, <2>2, <3>1, NewTop
      <4> QED BY <2>3, <4>1 DEF At
    <3>2. CASE Leave(t)
      <4>1. InHandler(t)' BY <1>0, <2>1, <3>2, NoPushBelow
      <4> QED BY <4>1 DEF InHandler, At
    <3> QED BY <2>4, <3>1, <3>2
  <2>8. SortedQueues' /\ FreeIsEmpty' /\ PushedFirst' BY <2>1, <2>6, <2>7, QuietQueues
  <2> QED BY <2>5, <2>8
<1>8. ASSUME NEW t \in Threads, Exit(t) PROVE Goal
  <2> DEFINE r == Top(t).strand
             f == Frame(r, "schedule", NoHandler, FALSE)
  <2>1. stack[t] # <<>> /\ Top(t).at = "loop" /\ ready[r] = <<>> BY <1>8 DEF Exit, At
  <2>2. r \in Strands BY <1>0, <2>1, TopIsFrame, FrameFields
  <2>3. f \in Frames BY <2>2, FrameTyped
  <2>4. f.at = "schedule" /\ f.at \notin Called BY DEF Frame, Called
  <2>5. Become(t, f) \/ Leave(t) BY <1>8 DEF Exit
  <2>6. /\ ready' = [ready EXCEPT ![r] = waiting[r]]
        /\ waiting' = [waiting EXCEPT ![r] = <<>>]
        /\ locked' = [locked EXCEPT ![r] = (waiting[r] # <<>>)]
    BY <1>8 DEF Exit
  <2>7. /\ ready'[r] = waiting[r] /\ waiting'[r] = <<>>
        /\ \A s \in Strands : s # r => ready'[s] = ready[s] /\ waiting'[s] = waiting[s]
    BY <1>0, <2>2, <2>6 DEF TypeOK
  <2>8. \A s \in Strands : locked'[s] = IF s = r THEN waiting[r] # <<>> ELSE locked[s]
    BY <1>0, <2>6 DEF TypeOK
  <2>9. SortedFrames' BY <1>0, <2>1, <2>3, <2>4, <2>5, FramesStaySorted
  <2>10. SortedQueues'
    <3>1. \A i \in DOMAIN ready'[r] : StrandOf[ready'[r][i]] = r
      BY <1>0, <2>2, <2>7 DEF SortedQueues
    <3>2. DOMAIN waiting'[r] = {} BY <2>7
    <3> QED BY <1>0, <2>7, <3>1, <3>2 DEF SortedQueues
  <2>11. FreeIsEmpty' BY <1>0, <2>7, <2>8 DEF FreeIsEmpty
  <2>12. ~At(t, "push")'
    <3>1. CASE Become(t, f)
      <4>1. Top(t)' = f BY <1>0, <2>1, <2>3, <3>1, NewTop
      <4> QED BY <2>4, <4>1 DEF At
    <3>2. CASE Leave(t)
      <4>1. InHandler(t)' BY <1>0, <2>1, <3>2, NoPushBelow
      <4> QED BY <4>1 DEF InHandler, At
    <3> QED BY <2>5, <3>1, <3>2
  <2>13. \A u \in Threads : u # t => stack'[u] = stack[u]
    BY <1>0, <2>1, <2>3, <2>5, Became, Left
  <2>14. ASSUME NEW u \in Threads, At(u, "push")' PROVE ready'[Top(u)'.strand] = <<>>
    <3>1. u # t BY <2>12, <2>14
    <3>2. At(u, "push") /\ Top(u)' = Top(u) BY <2>13, <2>14, <3>1, OthersPush
    <3>3. Top(u).strand # r
      <4>1. ASSUME Top(u).strand = r PROVE Pushes(u, r) BY <3>2, <4>1 DEF Pushes
      <4> QED BY <1>0, <2>1, <3>1, <4>1, OnlyPusher
    <3>4. Top(u).strand \in Strands
      <4>1. stack[u] # <<>> BY <3>2 DEF At
      <4> QED BY <1>0, <4>1, TopIsFrame, FrameFields
    <3> QED BY <1>0, <2>7, <3>2, <3>3, <3>4 DEF PushedFirst
  <2>15. PushedFirst' BY <2>14 DEF PushedFirst
  <2> QED BY <2>9, <2>10, <2>11, <2>15
<1>9. CASE UNCHANGED vars
  <2>1. UNCHANGED <<locked, ready, waiting, stack>> BY <1>9 DEF vars
  <2>2. SortedQueues' /\ FreeIsEmpty' BY <1>0, <2>1 DEF SortedQueues, FreeIsEmpty
  <2>3. SortedFrames' BY <1>0, <2>1 DEF SortedFrames
  <2>4. PushedFirst' BY <1>0, <2>1 DEF PushedFirst, At, Top
  <2> QED BY <2>2, <2>3, <2>4
<1> QED BY <1>1, <1>2, <1>3, <1>4, <1>5, <1>6, <1>7, <1>8, <1>9 DEF Next, Step, Submit

-----------------------------------------------------------------------------
(* The mapping to the queue.                                               *)

(* The handlers a thread is in are frames of its stack. *)
CallsAgree ==
  \A t \in Threads :
    /\ Depth(t) \in Nat /\ Depth(t) <= Len(stack[t])
    /\ Calls(t) \in Seq(Handlers)
    /\ Len(Calls(t)) = Depth(t)
    /\ \A i \in 1 .. Depth(t) :
         Calls(t)[i] = stack[t][i].handler /\ stack[t][i].at \in {"run", "inside"}

LEMMA CallsAreFrames == QInv => CallsAgree
<1> SUFFICES ASSUME QInv, NEW t \in Threads
             PROVE  /\ Depth(t) \in Nat /\ Depth(t) <= Len(stack[t])
                    /\ Calls(t) \in Seq(Handlers)
                    /\ Len(Calls(t)) = Depth(t)
                    /\ \A i \in 1 .. Depth(t) :
                         /\ Calls(t)[i] = stack[t][i].handler
                         /\ stack[t][i].at \in {"run", "inside"}
  BY Zenon DEF CallsAgree
<1> DEFINE n == Len(stack[t])
<1>0. TypeOK /\ Shape BY DEF QInv, IInv, StackInv
<1>1. stack[t] \in Seq(Frames) /\ n \in Nat /\ DOMAIN stack[t] = 1 .. n
  BY <1>0 DEF TypeOK
<1>2. \/ Depth(t) = n /\ (stack[t] = <<>> \/ Top(t).at \in {"run", "inside"})
      \/ Depth(t) = n - 1 /\ stack[t] # <<>>
  BY DEF Depth
<1>3. stack[t] = <<>> <=> n = 0 BY <1>1
<1>4. Depth(t) \in Nat /\ Depth(t) <= n BY <1>1, <1>2, <1>3
<1>5. \A i \in 1 .. Depth(t) : i \in 1 .. n BY <1>1, <1>4
<1>6. ASSUME NEW i \in 1 .. Depth(t) PROVE stack[t][i].at \in {"run", "inside"}
  <2>1. CASE i < n BY <1>0, <1>1, <1>5, <2>1 DEF Shape
  <2>2. CASE ~(i < n)
    <3>1. i = n /\ Depth(t) = n /\ n # 0 BY <1>1, <1>2, <1>4, <2>2
    <3> QED BY <1>2, <1>3, <3>1 DEF Top
  <2> QED BY <2>1, <2>2
<1>7. ASSUME NEW i \in 1 .. Depth(t) PROVE stack[t][i].handler \in Handlers
  <2>1. stack[t][i] \in Frames BY <1>1, <1>5
  <2>2. stack[t][i].at \in Called BY <1>6 DEF Called
  <2> QED BY <2>1, <2>2, FrameFields
<1>8. Calls(t) = [i \in 1 .. Depth(t) |-> stack[t][i].handler] BY DEF Calls
<1> HIDE DEF n
<1>9. Calls(t) \in Seq(Handlers) /\ Len(Calls(t)) = Depth(t)
  BY <1>4, <1>7, <1>8
<1> QED BY <1>4, <1>6, <1>8, <1>9 DEF n

(* A thread whose stack does not change is in the same handlers. *)
LEMMA SameCalls ==
  ASSUME NEW t \in Threads, stack'[t] = stack[t]
  PROVE  Calls(t)' = Calls(t)
<1>1. Top(t)' = Top(t) BY DEF Top
<1>2. Depth(t)' = Depth(t) BY <1>1 DEF Depth
<1> QED BY <1>2 DEF Calls

(* One that stays as deep in the same frames, goes one deeper, or returns. *)
LEMMA CallsStay ==
  ASSUME CallsAgree, CallsAgree', NEW t \in Threads, Depth(t)' = Depth(t),
         \A i \in 1 .. Depth(t) : stack'[t][i] = stack[t][i]
  PROVE  Calls(t)' = Calls(t)
<1>1. /\ Calls(t) \in Seq(Handlers) /\ Calls(t)' \in Seq(Handlers)
      /\ Len(Calls(t)) = Depth(t) /\ Len(Calls(t)') = Depth(t) /\ Depth(t) \in Nat
      /\ \A i \in 1 .. Depth(t) : Calls(t)[i] = stack[t][i].handler
      /\ \A i \in 1 .. Depth(t) : Calls(t)'[i] = stack'[t][i].handler
  BY DEF CallsAgree
<1>2. \A i \in 1 .. Depth(t) : Calls(t)'[i] = Calls(t)[i] BY <1>1
<1> HIDE DEF CallsAgree
<1> QED BY <1>1, <1>2

LEMMA CallsGrow ==
  ASSUME CallsAgree, CallsAgree', NEW t \in Threads, Depth(t)' = Depth(t) + 1,
         \A i \in 1 .. Depth(t) : stack'[t][i] = stack[t][i],
         NEW h \in Handlers, stack'[t][Depth(t) + 1].handler = h
  PROVE  Calls(t)' = Append(Calls(t), h)
<1>1. /\ Calls(t) \in Seq(Handlers) /\ Calls(t)' \in Seq(Handlers)
      /\ Len(Calls(t)) = Depth(t) /\ Len(Calls(t)') = Depth(t) + 1 /\ Depth(t) \in Nat
      /\ \A i \in 1 .. Depth(t) : Calls(t)[i] = stack[t][i].handler
      /\ \A i \in 1 .. (Depth(t) + 1) : Calls(t)'[i] = stack'[t][i].handler
  BY DEF CallsAgree
<1>2. \A i \in 1 .. Depth(t) : Calls(t)'[i] = Calls(t)[i] BY <1>1
<1>3. Calls(t)'[Depth(t) + 1] = h BY <1>1
<1> QED BY <1>1, <1>2, <1>3

LEMMA CallsShrink ==
  ASSUME CallsAgree, CallsAgree', NEW t \in Threads, Depth(t)' = Depth(t) - 1,
         \A i \in 1 .. (Depth(t) - 1) : stack'[t][i] = stack[t][i]
  PROVE  Calls(t) # <<>> /\ Calls(t)' = SubSeq(Calls(t), 1, Len(Calls(t)) - 1)
<1>1. /\ Calls(t) \in Seq(Handlers) /\ Calls(t)' \in Seq(Handlers)
      /\ Len(Calls(t)) = Depth(t) /\ Len(Calls(t)') = Depth(t) - 1
      /\ Depth(t) \in Nat /\ Depth(t) - 1 \in Nat
      /\ \A i \in 1 .. Depth(t) : Calls(t)[i] = stack[t][i].handler
      /\ \A i \in 1 .. (Depth(t) - 1) : Calls(t)'[i] = stack'[t][i].handler
  BY DEF CallsAgree
<1>2. \A i \in 1 .. (Depth(t) - 1) : Calls(t)'[i] = Calls(t)[i] BY <1>1
<1>3. Calls(t) # <<>> BY <1>1
<1>4. /\ SubSeq(Calls(t), 1, Depth(t) - 1) \in Seq(Handlers)
      /\ Len(SubSeq(Calls(t), 1, Depth(t) - 1)) = Depth(t) - 1
      /\ \A i \in 1 .. (Depth(t) - 1) : SubSeq(Calls(t), 1, Depth(t) - 1)[i] = Calls(t)[i]
  BY <1>1
<1> QED BY <1>1, <1>2, <1>3, <1>4

(* Depth in terms of the top. *)
LEMMA DepthIs ==
  ASSUME NEW t \in Threads
  PROVE  /\ InHandler(t) => Depth(t) = Len(stack[t])
         /\ ~InHandler(t) => Depth(t) = Len(stack[t]) - 1
BY DEF Depth, InHandler, At

(* The order in which the handlers of s are to run. *)
PendingAgrees ==
  \A s \in Strands :
    /\ ready[s] \in Seq(Handlers) /\ waiting[s] \in Seq(Handlers)
    /\ \A t \in Threads : Pushes(t, s) =>
         /\ ready[s] = <<>> /\ Top(t).handler \in Handlers
         /\ Pending(s) = <<Top(t).handler>> \o waiting[s]
    /\ (\A t \in Threads : ~Pushes(t, s)) => Pending(s) = ready[s] \o waiting[s]

LEMMA PendingIs == QInv => PendingAgrees
<1> SUFFICES ASSUME QInv, NEW s \in Strands
             PROVE  /\ ready[s] \in Seq(Handlers) /\ waiting[s] \in Seq(Handlers)
                    /\ \A t \in Threads : Pushes(t, s) =>
                         /\ ready[s] = <<>> /\ Top(t).handler \in Handlers
                         /\ Pending(s) = <<Top(t).handler>> \o waiting[s]
                    /\ (\A t \in Threads : ~Pushes(t, s)) =>
                         Pending(s) = ready[s] \o waiting[s]
  BY Zenon DEF PendingAgrees
<1>0. TypeOK /\ StackInv /\ PushedFirst BY DEF QInv, IInv
<1>1. ready[s] \in Seq(Handlers) /\ waiting[s] \in Seq(Handlers) BY <1>0 DEF TypeOK
<1>2. ASSUME NEW t \in Threads, Pushes(t, s)
      PROVE  /\ ready[s] = <<>> /\ Top(t).handler \in Handlers
             /\ Pending(s) = <<Top(t).handler>> \o waiting[s]
  <2> DEFINE p == CHOOSE u \in Threads : Pushes(u, s)
  <2>1. p \in Threads /\ Pushes(p, s) BY <1>2
  <2>2. stack[t] # <<>> /\ Top(t).at = "push" /\ Top(t).strand = s
    BY <1>2 DEF Pushes, At
  <2>3. p = t BY <1>0, <2>1, <2>2, OnlyPusher
  <2>4. ready[s] = <<>> BY <1>0, <1>2 DEF PushedFirst, Pushes
  <2>5. Top(t).handler \in Handlers
    BY <1>0, <2>2, TopIsFrame, FrameFields DEF Called
  <2>6. Pushed(s) = <<Top(p).handler>> BY <1>2 DEF Pushed
  <2>7. Pushed(s) = <<Top(t).handler>> BY <2>3, <2>6
  <2>8. <<Top(t).handler>> \o <<>> = <<Top(t).handler>>
    <3>1. <<Top(t).handler>> \in Seq(Handlers) BY <2>5
    <3> QED BY <3>1
  <2> QED BY <2>4, <2>5, <2>7, <2>8 DEF Pending
<1>3. ASSUME \A t \in Threads : ~Pushes(t, s) PROVE Pending(s) = ready[s] \o waiting[s]
  <2>1. Pushed(s) = <<>> BY <1>3 DEF Pushed
  <2>2. <<>> \o ready[s] = ready[s] BY <1>1
  <2> QED BY <2>1, <2>2 DEF Pending
<1> QED BY <1>1, <1>2, <1>3

(* A strand whose queues and pusher stay as they are has the same handlers *)
(* to run.                                                                 *)
LEMMA SamePending ==
  ASSUME PendingAgrees, PendingAgrees', NEW s \in Strands,
         ready'[s] = ready[s], waiting'[s] = waiting[s],
         \A u \in Threads : Pushes(u, s)' <=> Pushes(u, s),
         \A u \in Threads : Pushes(u, s) => Top(u)' = Top(u)
  PROVE  Pending(s)' = Pending(s)
<1>1. CASE \E u \in Threads : Pushes(u, s)
  <2>1. PICK u \in Threads : Pushes(u, s) BY <1>1
  <2>2. Pending(s) = <<Top(u).handler>> \o waiting[s] BY <2>1 DEF PendingAgrees
  <2>3. Pushes(u, s)' BY <2>1
  <2>4. Pending(s)' = <<Top(u)'.handler>> \o waiting'[s] BY <2>3 DEF PendingAgrees
  <2> QED BY <2>1, <2>2, <2>4
<1>2. CASE \A u \in Threads : ~Pushes(u, s)
  <2>1. Pending(s) = ready[s] \o waiting[s] BY <1>2 DEF PendingAgrees
  <2>2. \A u \in Threads : ~Pushes(u, s)' BY <1>2
  <2>3. Pending(s)' = ready'[s] \o waiting'[s] BY <2>2 DEF PendingAgrees
  <2> QED BY <2>1, <2>3
<1> QED BY <1>1, <1>2

(* A thread that was not pushing and is not now leaves all of them so. *)
LEMMA QuietPending ==
  ASSUME PendingAgrees, PendingAgrees', NEW t \in Threads,
         ~At(t, "push"), ~At(t, "push")',
         \A u \in Threads : u # t => stack'[u] = stack[u],
         NEW s \in Strands, ready'[s] = ready[s], waiting'[s] = waiting[s]
  PROVE  Pending(s)' = Pending(s)
<1>1. \A u \in Threads : u # t => (Pushes(u, s)' <=> Pushes(u, s)) /\ Top(u)' = Top(u)
  BY OthersPush
<1>2. ~Pushes(t, s) /\ ~Pushes(t, s)' BY DEF Pushes
<1>3. \A u \in Threads : Pushes(u, s)' <=> Pushes(u, s) BY <1>1, <1>2
<1>4. \A u \in Threads : Pushes(u, s) => Top(u)' = Top(u) BY <1>1, <1>2
<1> QED BY <1>3, <1>4, SamePending

(* The steps of the queue, in terms of each strand and each thread. *)
LEMMA QueueStutters ==
  ASSUME fresh' = fresh, \A s \in Strands : Pending(s)' = Pending(s),
         \A u \in Threads : Calls(u)' = Calls(u)
  PROVE  UNCHANGED Queue!queueVars
<1>1. [s \in Strands |-> Pending(s)]' = [s \in Strands |-> Pending(s)] OBVIOUS
<1>2. [u \in Threads |-> Calls(u)]' = [u \in Threads |-> Calls(u)] OBVIOUS
<1> QED BY <1>1, <1>2 DEF Queue!queueVars

LEMMA QueueSubmits ==
  ASSUME NEW h \in Handlers, h \in fresh, fresh' = fresh \ {h}, StrandOf[h] \in Strands,
         Pending(StrandOf[h])' = Append(Pending(StrandOf[h]), h),
         \A s \in Strands : s # StrandOf[h] => Pending(s)' = Pending(s),
         \A u \in Threads : Calls(u)' = Calls(u)
  PROVE  Queue!Submit(h)
<1> DEFINE P == [s \in Strands |-> Pending(s)]
<1>1. P' = [P EXCEPT ![StrandOf[h]] = Append(P[StrandOf[h]], h)] OBVIOUS
<1>2. [u \in Threads |-> Calls(u)]' = [u \in Threads |-> Calls(u)] OBVIOUS
<1> QED BY <1>1, <1>2 DEF Queue!Submit

LEMMA QueueCallsInside ==
  ASSUME NEW t \in Threads, NEW h \in Handlers, h \in fresh, fresh' = fresh \ {h},
         \E i \in DOMAIN Calls(t) : StrandOf[Calls(t)[i]] = StrandOf[h],
         Calls(t)' = Append(Calls(t), h),
         \A u \in Threads : u # t => Calls(u)' = Calls(u),
         \A s \in Strands : Pending(s)' = Pending(s)
  PROVE  Queue!CallInside(t, h)
<1> DEFINE C == [u \in Threads |-> Calls(u)]
<1>1. C' = [C EXCEPT ![t] = Append(C[t], h)] OBVIOUS
<1>2. [s \in Strands |-> Pending(s)]' = [s \in Strands |-> Pending(s)] OBVIOUS
<1>3. Queue!IsIn(t, StrandOf[h]) BY DEF Queue!IsIn
<1> QED BY <1>1, <1>2, <1>3 DEF Queue!CallInside

LEMMA QueueStarts ==
  ASSUME NEW t \in Threads, NEW s \in Strands, Pending(s) # <<>>,
         \A u \in Threads : \A i \in DOMAIN Calls(u) : StrandOf[Calls(u)[i]] # s,
         Calls(t)' = Append(Calls(t), Head(Pending(s))),
         \A u \in Threads : u # t => Calls(u)' = Calls(u),
         Pending(s)' = Tail(Pending(s)),
         \A r \in Strands : r # s => Pending(r)' = Pending(r),
         fresh' = fresh
  PROVE  Queue!Start(t, s)
<1> DEFINE C == [u \in Threads |-> Calls(u)]
           P == [r \in Strands |-> Pending(r)]
<1>1. C' = [C EXCEPT ![t] = Append(C[t], Head(P[s]))] OBVIOUS
<1>2. P' = [P EXCEPT ![s] = Tail(P[s])] OBVIOUS
<1>3. P[s] # <<>> OBVIOUS
<1>4. \A u \in Threads : ~Queue!IsIn(u, s) BY DEF Queue!IsIn
<1> QED BY <1>1, <1>2, <1>3, <1>4 DEF Queue!Start

LEMMA QueueReturns ==
  ASSUME NEW t \in Threads, Calls(t) # <<>>,
         Calls(t)' = SubSeq(Calls(t), 1, Len(Calls(t)) - 1),
         \A u \in Threads : u # t => Calls(u)' = Calls(u),
         \A s \in Strands : Pending(s)' = Pending(s),
         fresh' = fresh
  PROVE  Queue!Return(t)
<1> DEFINE C == [u \in Threads |-> Calls(u)]
<1>1. C' = [C EXCEPT ![t] = SubSeq(C[t], 1, Len(C[t]) - 1)] OBVIOUS
<1>2. [s \in Strands |-> Pending(s)]' = [s \in Strands |-> Pending(s)] OBVIOUS
<1>3. C[t] # <<>> OBVIOUS
<1> QED BY <1>1, <1>2, <1>3 DEF Queue!Return

-----------------------------------------------------------------------------

(* An invoker of s between handlers: no thread is in a handler of s. *)
LEMMA NobodyInside ==
  ASSUME QInv, CallsAgree, NEW t \in Threads, At(t, "loop"),
         NEW u \in Threads, NEW i \in DOMAIN Calls(u)
  PROVE  StrandOf[Calls(u)[i]] # Top(t).strand
<1> SUFFICES ASSUME StrandOf[Calls(u)[i]] = Top(t).strand PROVE FALSE
  OBVIOUS
<1> DEFINE n == Len(stack[t])
<1>0. TypeOK /\ StackInv /\ SortedFrames BY DEF QInv, IInv
<1>1. stack[t] # <<>> /\ Top(t).at = "loop" BY DEF At
<1>2. /\ n \in DOMAIN stack[t] /\ n \in Nat /\ Top(t) = stack[t][n]
  BY <1>0, <1>1, TopIsFrame
<1>3. stack[u] \in Seq(Frames) /\ DOMAIN stack[u] = 1 .. Len(stack[u]) BY <1>0 DEF TypeOK
<1>4. /\ Depth(u) \in Nat /\ Depth(u) <= Len(stack[u]) /\ i \in 1 .. Depth(u)
      /\ Calls(u)[i] = stack[u][i].handler /\ stack[u][i].at \in {"run", "inside"}
  BY DEF CallsAgree
<1>5. i \in DOMAIN stack[u] /\ i <= Len(stack[u]) BY <1>3, <1>4
<1>6. stack[u][i].strand = Top(t).strand BY <1>0, <1>4, <1>5 DEF SortedFrames, Called
<1>7. CASE stack[u][i].at = "run"
  <2>1. Holds(u, i, Top(t).strand) BY <1>5, <1>6, <1>7 DEF Holds
  <2>2. u = t /\ i = n BY <1>0, <1>1, <1>5, <2>1, OnlyHolder
  <2> QED BY <1>1, <1>2, <1>7, <2>2
<1>8. CASE stack[u][i].at = "inside"
  <2>1. PICK j \in DOMAIN stack[u] : j < i /\ Holds(u, j, Top(t).strand)
    BY <1>0, <1>5, <1>6, <1>8 DEF StackInv, InsideAnother
  <2>2. u = t /\ j = n BY <1>0, <1>1, <2>1, OnlyHolder
  <2> QED BY <1>2, <1>5, <2>1, <2>2
<1> QED BY <1>4, <1>7, <1>8

(* A thread that becomes or leaves a frame that is no handler, for one     *)
(* that is none, is in the same handlers.                                  *)
LEMMA SameHandlers ==
  ASSUME QInv, CallsAgree, CallsAgree', NEW t \in Threads, NEW f \in Frames,
         stack[t] # <<>>, ~InHandler(t),
         (Become(t, f) /\ f.at \notin {"run", "inside"}) \/ Leave(t)
  PROVE  \A u \in Threads : Calls(u)' = Calls(u)
<1> DEFINE n == Len(stack[t])
<1>0. TypeOK /\ StackInv BY DEF QInv, IInv
<1>1. n \in Nat /\ n >= 1
  <2>1. n \in Nat /\ n \in DOMAIN stack[t] /\ DOMAIN stack[t] = 1 .. n BY <1>0, TopIsFrame
  <2> QED BY <2>1
<1>2. \A u \in Threads : u # t => Calls(u)' = Calls(u)
  <2>1. \A u \in Threads : u # t => stack'[u] = stack[u] BY <1>0, Became, Left
  <2> QED BY <2>1, SameCalls
<1>3. Depth(t) = n - 1 BY DepthIs
<1>4. \A i \in 1 .. (n - 1) : stack'[t][i] = stack[t][i]
  <2>1. CASE Become(t, f)
    <3>1. \A i \in 1 .. n : i < n => stack'[t][i] = stack[t][i] BY <1>0, <2>1, Became
    <3>2. \A i \in 1 .. (n - 1) : i \in 1 .. n /\ i < n BY <1>1
    <3> QED BY <3>1, <3>2
  <2>2. CASE Leave(t) BY <1>0, <2>2, Left
  <2> QED BY <2>1, <2>2
<1>5. Depth(t)' = n - 1
  <2>1. CASE Become(t, f) /\ f.at \notin {"run", "inside"}
    <3>1. Len(stack'[t]) = n BY <1>0, <2>1, Became
    <3>2. Top(t)' = f /\ stack'[t] # <<>> BY <1>0, <2>1, NewTop
    <3> QED BY <2>1, <3>1, <3>2 DEF Depth
  <2>2. CASE Leave(t)
    <3>1. InHandler(t)' BY <1>0, <2>2, NoPushBelow
    <3>2. Len(stack'[t]) = n - 1 BY <1>0, <2>2, Left
    <3> QED BY <3>1, <3>2 DEF Depth, InHandler, At
  <2> QED BY <2>1, <2>2
<1>6. Calls(t)' = Calls(t)
  <2>1. Depth(t)' = Depth(t) BY <1>3, <1>5
  <2>2. \A i \in 1 .. Depth(t) : stack'[t][i] = stack[t][i] BY <1>3, <1>4
  <2> QED BY <2>1, <2>2, CallsStay
<1> QED BY <1>2, <1>6

(* So is one that enters such a frame from a handler. *)
LEMMA SameHandlersBelow ==
  ASSUME QInv, CallsAgree, CallsAgree', NEW t \in Threads, NEW f \in Frames,
         InHandler(t), f.at \notin {"run", "inside"}, Enter(t, f)
  PROVE  \A u \in Threads : Calls(u)' = Calls(u)
<1> DEFINE n == Len(stack[t])
<1>0. TypeOK BY DEF QInv, IInv
<1>1. /\ Len(stack'[t]) = n + 1
      /\ \A i \in 1 .. n : stack'[t][i] = stack[t][i]
      /\ \A u \in Threads : u # t => stack'[u] = stack[u]
  BY <1>0, Entered
<1>2. \A u \in Threads : u # t => Calls(u)' = Calls(u) BY <1>1, SameCalls
<1>3. n \in Nat BY <1>0 DEF TypeOK
<1>4. Depth(t) = n BY DepthIs
<1>5. Top(t)' = f /\ stack'[t] # <<>> BY <1>0, NewTop
<1>6. Depth(t)' = n
  <2>1. Depth(t)' = (n + 1) - 1 BY <1>1, <1>5 DEF Depth
  <2> QED BY <1>3, <2>1
<1>7. Calls(t)' = Calls(t)
  <2>1. Depth(t)' = Depth(t) BY <1>4, <1>6
  <2>2. \A i \in 1 .. Depth(t) : stack'[t][i] = stack[t][i] BY <1>1, <1>4
  <2> QED BY <2>1, <2>2, CallsStay
<1> QED BY <1>2, <1>7

LEMMA ConcatAppend ==
  ASSUME NEW a \in Seq(Handlers), NEW b \in Seq(Handlers), NEW h \in Handlers
  PROVE  a \o Append(b, h) = Append(a \o b, h)
OBVIOUS

LEMMA ConcatHeadTail ==
  ASSUME NEW a \in Seq(Handlers), NEW b \in Seq(Handlers), a # <<>>
  PROVE  a \o b # <<>> /\ Head(a \o b) = Head(a) /\ Tail(a \o b) = Tail(a) \o b
<1> DEFINE c == a \o b
<1>1. Len(a) \in Nat /\ Len(a) >= 1 /\ Len(b) \in Nat OBVIOUS
<1>2. c \in Seq(Handlers) /\ Len(c) = Len(a) + Len(b) OBVIOUS
<1>3. c # <<>> BY <1>1, <1>2
<1>4. c[1] = a[1] BY <1>1
<1>5. Tail(c) \in Seq(Handlers) /\ Len(Tail(c)) = Len(a) + Len(b) - 1 BY <1>1, <1>2
<1>6. /\ Tail(a) \in Seq(Handlers) /\ Len(Tail(a)) = Len(a) - 1
      /\ Tail(a) \o b \in Seq(Handlers) /\ Len(Tail(a) \o b) = Len(a) + Len(b) - 1
  BY <1>1
<1>7. ASSUME NEW i \in 1 .. (Len(a) + Len(b) - 1) PROVE Tail(c)[i] = (Tail(a) \o b)[i]
  <2>1. Tail(c)[i] = c[i + 1] BY <1>1, <1>2
  <2>2. CASE i <= Len(a) - 1
    <3>1. c[i + 1] = a[i + 1] BY <1>1, <2>2
    <3>2. (Tail(a) \o b)[i] = a[i + 1] BY <1>1, <1>6, <2>2
    <3> QED BY <2>1, <3>1, <3>2
  <2>3. CASE ~(i <= Len(a) - 1)
    <3>1. c[i + 1] = b[i + 1 - Len(a)] BY <1>1, <2>3
    <3>2. (Tail(a) \o b)[i] = b[i - (Len(a) - 1)] BY <1>1, <1>6, <2>3
    <3>3. i + 1 - Len(a) = i - (Len(a) - 1) BY <1>1
    <3> QED BY <2>1, <3>1, <3>2, <3>3
  <2> QED BY <2>2, <2>3
<1>8. Tail(c) = Tail(a) \o b
  <2>1. ASSUME NEW x \in Seq(Handlers), NEW y \in Seq(Handlers), Len(x) = Len(y),
               \A i \in 1 .. Len(x) : x[i] = y[i]
        PROVE  x = y
    BY <2>1
  <2>2. Len(Tail(c)) = Len(Tail(a) \o b) BY <1>5, <1>6
  <2>3. \A i \in 1 .. Len(Tail(c)) : Tail(c)[i] = (Tail(a) \o b)[i] BY <1>5, <1>7
  <2> HIDE DEF c
  <2> QED BY <1>5, <1>6, <2>1, <2>2, <2>3
<1> QED BY <1>2, <1>3, <1>4, <1>8

(* Every step of the strands is one of the queue, or none: a handler is    *)
(* submitted when enqueue locks its strand or finds it locked, and starts  *)
(* when the invoker takes it.                                              *)
LEMMA StepQueue == QInv /\ CallsAgree /\ CallsAgree' /\ PendingAgrees /\ PendingAgrees'
                     /\ [Next]_vars => [Queue!Next]_(Queue!queueVars)
<1> SUFFICES ASSUME QInv, CallsAgree, CallsAgree', PendingAgrees, PendingAgrees', [Next]_vars
             PROVE  Queue!Next \/ UNCHANGED Queue!queueVars
  OBVIOUS
<1> USE StrandAssumption
<1> DEFINE Goal == Queue!Next \/ UNCHANGED Queue!queueVars
<1>0. TypeOK /\ StackInv /\ LockedWhileHeld /\ SortedFrames /\ FreeIsEmpty /\ PushedFirst
  BY DEF QInv, IInv
<1>1. ASSUME NEW t \in Threads, NEW h \in Handlers, CallInside(t, h) PROVE Goal
  <2> DEFINE n == Len(stack[t])
             f == Frame(StrandOf[h], "inside", h, TRUE)
  <2>1. f \in Frames /\ f.at = "inside" /\ f.handler = h
    BY FrameTyped DEF Called, Frame
  <2>2. /\ h \in fresh /\ fresh' = fresh \ {h} /\ InHandler(t) /\ Contains(t, StrandOf[h])
        /\ Enter(t, f) /\ UNCHANGED <<ready, waiting>>
    BY <1>1 DEF CallInside
  <2>3. /\ Len(stack'[t]) = n + 1 /\ stack'[t][n + 1] = f
        /\ \A i \in 1 .. n : stack'[t][i] = stack[t][i]
        /\ \A u \in Threads : u # t => stack'[u] = stack[u]
    BY <1>0, <2>1, <2>2, Entered
  <2>4. \A u \in Threads : u # t => Calls(u)' = Calls(u) BY <2>3, SameCalls
  <2>5. n \in Nat /\ Depth(t) = n /\ DOMAIN stack[t] = 1 .. n
    BY <1>0, <2>2, DepthIs DEF TypeOK
  <2>6. Top(t)' = f /\ stack'[t] # <<>> BY <1>0, <2>1, <2>2, NewTop
  <2>7. Depth(t)' = n + 1 BY <2>1, <2>3, <2>6 DEF Depth
  <2>8. Calls(t)' = Append(Calls(t), h)
    <3>1. Depth(t)' = Depth(t) + 1 BY <2>5, <2>7
    <3>2. \A i \in 1 .. Depth(t) : stack'[t][i] = stack[t][i] BY <2>3, <2>5
    <3>3. stack'[t][Depth(t) + 1].handler = h BY <2>1, <2>3, <2>5
    <3> QED BY <3>1, <3>2, <3>3, CallsGrow
  <2>9. \E i \in DOMAIN Calls(t) : StrandOf[Calls(t)[i]] = StrandOf[h]
    <3>1. PICK i \in 1 .. n : stack[t][i].strand = StrandOf[h] BY <2>2, <2>5 DEF Contains
    <3>2. /\ Calls(t) \in Seq(Handlers) /\ Len(Calls(t)) = n
          /\ Calls(t)[i] = stack[t][i].handler /\ stack[t][i].at \in {"run", "inside"}
      BY <2>5, <3>1 DEF CallsAgree
    <3>3. StrandOf[stack[t][i].handler] = stack[t][i].strand
      BY <1>0, <2>5, <3>1, <3>2 DEF SortedFrames, Called
    <3>4. i \in DOMAIN Calls(t) BY <3>1, <3>2
    <3> QED BY <3>1, <3>2, <3>3, <3>4
  <2>10. ~At(t, "push") /\ ~At(t, "push")'
    BY <2>1, <2>2, <2>6, NoPushInHandler DEF At
  <2>11. \A s \in Strands : Pending(s)' = Pending(s)
    BY <2>2, <2>3, <2>10, QuietPending
  <2>12. Queue!CallInside(t, h) BY <2>2, <2>4, <2>8, <2>9, <2>11, QueueCallsInside
  <2> QED BY <2>12 DEF Queue!Next
<1>2. ASSUME NEW t \in Threads, NEW h \in Handlers, NEW d \in BOOLEAN, Enqueue(t, h, d)
      PROVE  Goal
  <2> DEFINE r == StrandOf[h]
             f == Frame(r, "push", h, d)
  <2>1. r \in Strands /\ f \in Frames /\ f.at = "push" /\ f.strand = r /\ f.handler = h
    BY FrameTyped DEF Called, Frame
  <2>2. h \in fresh /\ fresh' = fresh \ {h} /\ InHandler(t) /\ UNCHANGED ready
    BY <1>2 DEF Enqueue
  <2>3. ready[r] \in Seq(Handlers) /\ waiting[r] \in Seq(Handlers)
    BY <1>0, <2>1 DEF TypeOK
  <2>4. CASE locked[r]
    <3>1. /\ UNCHANGED stack /\ waiting' = [waiting EXCEPT ![r] = Append(waiting[r], h)]
      BY <1>2, <2>4 DEF Enqueue
    <3>2. /\ waiting'[r] = Append(waiting[r], h)
          /\ \A s \in Strands : s # r => waiting'[s] = waiting[s]
      BY <1>0, <2>1, <3>1 DEF TypeOK
    <3>3. \A u \in Threads : Calls(u)' = Calls(u) BY <3>1, SameCalls
    <3>4. /\ \A u \in Threads : Top(u)' = Top(u)
          /\ \A u \in Threads, s \in Strands : Pushes(u, s)' <=> Pushes(u, s)
      BY <3>1 DEF Top, Pushes, At
    <3>5. ASSUME NEW s \in Strands, s # r PROVE Pending(s)' = Pending(s)
      BY <2>2, <3>2, <3>4, <3>5, SamePending
    <3>6. Pending(r)' = Append(Pending(r), h)
      <4>1. CASE \E u \in Threads : Pushes(u, r)
        <5>1. PICK u \in Threads : Pushes(u, r) BY <4>1
        <5>2. Pushes(u, r)' /\ Top(u)' = Top(u) BY <2>1, <3>4, <5>1
        <5>3. /\ Pending(r) = <<Top(u).handler>> \o waiting[r]
              /\ Top(u).handler \in Handlers
          BY <2>1, <5>1 DEF PendingAgrees
        <5>4. Pending(r)' = <<Top(u).handler>> \o waiting'[r]
          BY <2>1, <5>2 DEF PendingAgrees
        <5>5. <<Top(u).handler>> \in Seq(Handlers) BY <5>3
        <5> QED BY <2>3, <3>2, <5>3, <5>4, <5>5, ConcatAppend
      <4>2. CASE \A u \in Threads : ~Pushes(u, r)
        <5>1. \A u \in Threads : ~Pushes(u, r)' BY <2>1, <3>4, <4>2
        <5>2. Pending(r) = ready[r] \o waiting[r] BY <2>1, <4>2 DEF PendingAgrees
        <5>3. Pending(r)' = ready'[r] \o waiting'[r] BY <2>1, <5>1 DEF PendingAgrees
        <5>4. Pending(r)' = ready[r] \o Append(waiting[r], h) BY <2>2, <3>2, <5>3
        <5>5. ready[r] \o Append(waiting[r], h) = Append(ready[r] \o waiting[r], h)
          BY <2>3, ConcatAppend
        <5> QED BY <5>2, <5>4, <5>5
      <4> QED BY <4>1, <4>2
    <3>7. Queue!Submit(h) BY <2>1, <2>2, <3>3, <3>5, <3>6, QueueSubmits
    <3> QED BY <3>7 DEF Queue!Next
  <2>5. CASE ~locked[r]
    <3>1. Enter(t, f) /\ UNCHANGED waiting BY <1>2, <2>5 DEF Enqueue
    <3>2. \A u \in Threads : u # t => stack'[u] = stack[u] BY <1>0, <2>1, <3>1, Entered
    <3>3. Top(t)' = f /\ stack'[t] # <<>> BY <1>0, <2>1, <3>1, NewTop
    <3>4. \A u \in Threads : Calls(u)' = Calls(u)
      <4>1. f.at \notin {"run", "inside"} BY <2>1
      <4> QED BY <2>1, <2>2, <3>1, <4>1, SameHandlersBelow
    <3>5. /\ \A s \in Strands : Pushes(t, s)' <=> s = r
          /\ \A s \in Strands : ~Pushes(t, s)
      BY <2>1, <2>2, <3>3, NoPushInHandler DEF Pushes, At
    <3>6. \A u \in Threads : u # t =>
            Top(u)' = Top(u) /\ \A s \in Strands : Pushes(u, s)' <=> Pushes(u, s)
      BY <3>2, OthersPush
    <3>7. ASSUME NEW s \in Strands, s # r PROVE Pending(s)' = Pending(s)
      <4>1. \A u \in Threads : Pushes(u, s)' <=> Pushes(u, s) BY <3>5, <3>6, <3>7
      <4>2. \A u \in Threads : Pushes(u, s) => Top(u)' = Top(u) BY <3>5, <3>6
      <4> QED BY <2>2, <3>1, <4>1, <4>2, SamePending
    <3>8. ready[r] = <<>> /\ waiting[r] = <<>> BY <1>0, <2>1, <2>5 DEF FreeIsEmpty
    <3>9. ASSUME NEW u \in Threads PROVE ~Pushes(u, r)
      <4>1. SUFFICES ASSUME Pushes(u, r) PROVE FALSE OBVIOUS
      <4>2. stack[u] # <<>> /\ Top(u).at = "push" /\ Top(u).strand = r
        BY <4>1 DEF Pushes, At
      <4>3. Held(r) BY <1>0, <4>2, TopIsFrame DEF Held, Holds
      <4> QED BY <1>0, <2>1, <2>5, <4>3 DEF LockedWhileHeld
    <3>10. Pending(r)' = Append(Pending(r), h)
      <4>1. Pending(r) = <<>> \o <<>> BY <2>1, <3>8, <3>9 DEF PendingAgrees
      <4>2. Pushes(t, r)' BY <2>1, <3>5
      <4>3. Pending(r)' = <<Top(t)'.handler>> \o waiting'[r]
        BY <2>1, <4>2 DEF PendingAgrees
      <4>4. Pending(r)' = <<h>> \o <<>> BY <2>1, <3>1, <3>3, <3>8, <4>3
      <4>5. <<h>> \in Seq(Handlers) /\ <<>> \in Seq(Handlers) OBVIOUS
      <4>6. <<h>> \o <<>> = <<h>> /\ <<>> \o <<>> = <<>> BY <4>5, ConcatEmptySeq
      <4>7. Append(<<>>, h) = <<h>> BY <4>5
      <4> QED BY <4>1, <4>4, <4>6, <4>7
    <3>11. Queue!Submit(h) BY <2>1, <2>2, <3>4, <3>7, <3>10, QueueSubmits
    <3> QED BY <3>11 DEF Queue!Next
  <2> QED BY <2>4, <2>5
<1>3. ASSUME NEW t \in Threads, Push(t) PROVE Goal
  <2>1. stack[t] # <<>> /\ Top(t).at = "push" BY <1>3 DEF Push, At
  <2>0. PICK r \in Strands : r = Top(t).strand BY <1>0, <2>1, TopIsFrame, FrameFields
  <2> DEFINE h == Top(t).handler
             f == Frame(r, "schedule", NoHandler, Top(t).dispatch)
  <2>2. r \in Strands /\ h \in Handlers /\ f \in Frames
    BY <1>0, <2>0, <2>1, TopIsFrame, FrameFields, FrameTyped DEF Called
  <2>3. f.at = "schedule" BY DEF Frame
  <2>4. /\ ready' = [ready EXCEPT ![r] = Append(ready[r], h)] /\ Become(t, f)
        /\ UNCHANGED <<waiting, fresh>>
    BY <1>3, <2>0 DEF Push
  <2>5. \A u \in Threads : Calls(u)' = Calls(u)
    <3>1. ~InHandler(t) /\ f.at \notin {"run", "inside"} BY <2>1, <2>3 DEF InHandler, At
    <3> QED BY <2>1, <2>2, <2>4, <3>1, SameHandlers
  <2>6. Top(t)' = f /\ stack'[t] # <<>> BY <1>0, <2>1, <2>2, <2>4, NewTop
  <2>7. \A u \in Threads : u # t => stack'[u] = stack[u] BY <1>0, <2>1, <2>2, <2>4, Became
  <2>8. /\ ready'[r] = Append(ready[r], h)
        /\ \A s \in Strands : s # r => ready'[s] = ready[s]
    BY <1>0, <2>2, <2>4 DEF TypeOK
  <2>9. \A s \in Strands : ~Pushes(t, s)' BY <2>3, <2>6 DEF Pushes, At
  <2>10. \A u \in Threads : u # t =>
           Top(u)' = Top(u) /\ \A s \in Strands : Pushes(u, s)' <=> Pushes(u, s)
    BY <2>7, OthersPush
  <2>11. ASSUME NEW s \in Strands, s # r PROVE Pending(s)' = Pending(s)
    <3>1. ~Pushes(t, s) BY <2>0, <2>11 DEF Pushes
    <3>2. \A u \in Threads : Pushes(u, s)' <=> Pushes(u, s) BY <2>9, <2>10, <3>1
    <3>3. \A u \in Threads : Pushes(u, s) => Top(u)' = Top(u) BY <2>10, <3>1
    <3> QED BY <2>4, <2>8, <2>11, <3>2, <3>3, SamePending
  <2>12. Pending(r)' = Pending(r)
    <3>1. Pushes(t, r) BY <2>0, <2>1 DEF Pushes, At
    <3>2. ready[r] = <<>> /\ Pending(r) = <<h>> \o waiting[r]
      BY <2>2, <3>1 DEF PendingAgrees
    <3>3. ASSUME NEW u \in Threads PROVE ~Pushes(u, r)'
      <4>1. CASE u = t BY <2>2, <2>9, <4>1
      <4>2. CASE u # t
        <5>1. ~Pushes(u, r) BY <1>0, <2>0, <2>1, <4>2, OnlyPusher
        <5> QED BY <2>2, <2>10, <4>2, <5>1
      <4> QED BY <4>1, <4>2
    <3>4. Pending(r)' = ready'[r] \o waiting'[r] BY <2>2, <3>3 DEF PendingAgrees
    <3>5. Append(<<>>, h) = <<h>> BY <2>2
    <3> QED BY <2>4, <2>8, <3>2, <3>4, <3>5
  <2> QED BY <2>4, <2>5, <2>11, <2>12, QueueStutters
<1>4. ASSUME NEW t \in Threads, Schedule(t) PROVE Goal
  <2> DEFINE f == Frame(Top(t).strand, "loop", NoHandler, TRUE)
  <2>1. /\ stack[t] # <<>> /\ Top(t).at = "schedule"
        /\ UNCHANGED <<ready, waiting, fresh>>
    BY <1>4 DEF Schedule, At
  <2>2. f \in Frames BY <1>0, <2>1, TopIsFrame, FrameFields, FrameTyped
  <2>3. f.at = "loop" BY DEF Frame
  <2>4. Become(t, f) \/ Leave(t) BY <1>4 DEF Schedule
  <2>5. ~InHandler(t) /\ f.at \notin {"run", "inside"} BY <2>1, <2>3 DEF InHandler, At
  <2>6. \A u \in Threads : Calls(u)' = Calls(u) BY <2>1, <2>2, <2>4, <2>5, SameHandlers
  <2>7. ~At(t, "push") BY <2>1 DEF At
  <2>8. ~At(t, "push")'
    <3>1. CASE Become(t, f)
      <4>1. Top(t)' = f BY <1>0, <2>1, <2>2, <3>1, NewTop
      <4> QED BY <2>3, <4>1 DEF At
    <3>2. CASE Leave(t)
      <4>1. InHandler(t)' BY <1>0, <2>1, <3>2, NoPushBelow
      <4> QED BY <4>1 DEF InHandler, At
    <3> QED BY <2>4, <3>1, <3>2
  <2>9. \A u \in Threads : u # t => stack'[u] = stack[u]
    BY <1>0, <2>1, <2>2, <2>4, Became, Left
  <2>10. \A s \in Strands : Pending(s)' = Pending(s)
    BY <2>1, <2>7, <2>8, <2>9, QuietPending
  <2> QED BY <2>1, <2>6, <2>10, QueueStutters
<1>5. ASSUME NEW t \in Threads, NEW r \in Strands, Invoke(t, r) PROVE Goal
  <2> DEFINE f == Frame(r, "loop", NoHandler, FALSE)
  <2>1. InHandler(t) /\ Enter(t, f) /\ UNCHANGED <<ready, waiting, fresh>>
    BY <1>5 DEF Invoke, InHandler
  <2>2. f \in Frames /\ f.at = "loop" BY FrameTyped DEF Frame
  <2>3. f.at \notin {"run", "inside"} BY <2>2
  <2>4. \A u \in Threads : Calls(u)' = Calls(u)
    BY <2>1, <2>2, <2>3, SameHandlersBelow
  <2>5. Top(t)' = f BY <1>0, <2>1, <2>2, NewTop
  <2>6. ~At(t, "push") /\ ~At(t, "push")' BY <2>1, <2>2, <2>5, NoPushInHandler DEF At
  <2>7. \A u \in Threads : u # t => stack'[u] = stack[u] BY <1>0, <2>1, <2>2, Entered
  <2>8. \A s \in Strands : Pending(s)' = Pending(s) BY <2>1, <2>6, <2>7, QuietPending
  <2> QED BY <2>1, <2>4, <2>8, QueueStutters
<1>6. ASSUME NEW t \in Threads, Take(t) PROVE Goal
  <2>a. stack[t] # <<>> /\ At(t, "loop") BY <1>6 DEF Take, At
  <2>0. PICK r \in Strands : r = Top(t).strand BY <1>0, <2>a, TopIsFrame, FrameFields
  <2> DEFINE n == Len(stack[t])
             h == Head(ready[r])
             f == Frame(r, "run", h, Top(t).dispatch)
  <2>1. stack[t] # <<>> /\ Top(t).at = "loop" /\ At(t, "loop") /\ ready[r] # <<>>
    BY <1>6, <2>0 DEF Take, At
  <2>2. r \in Strands /\ Top(t).dispatch \in BOOLEAN BY <1>0, <2>1, TopIsFrame, FrameFields
  <2>3. ready[r] \in Seq(Handlers) /\ waiting[r] \in Seq(Handlers)
    BY <1>0, <2>2 DEF TypeOK
  <2>4. h \in Handlers BY <2>1, <2>3
  <2>5. f \in Frames BY <2>2, <2>4, FrameTyped DEF Called
  <2>6. f.at = "run" /\ f.handler = h BY DEF Frame
  <2>7. /\ Become(t, f) /\ ready' = [ready EXCEPT ![r] = Tail(ready[r])]
        /\ UNCHANGED <<waiting, fresh>>
    BY <1>6, <2>0 DEF Take
  <2>8. /\ Len(stack'[t]) = n /\ n \in 1 .. n /\ stack'[t][n] = f
        /\ \A i \in 1 .. n : i < n => stack'[t][i] = stack[t][i]
        /\ \A u \in Threads : u # t => stack'[u] = stack[u]
    BY <1>0, <2>1, <2>5, <2>7, Became
  <2>9. /\ ready'[r] = Tail(ready[r])
        /\ \A s \in Strands : s # r => ready'[s] = ready[s]
    BY <1>0, <2>2, <2>7 DEF TypeOK
  <2>10. Top(t)' = f /\ stack'[t] # <<>> BY <1>0, <2>1, <2>5, <2>7, NewTop
  <2>11. ~At(t, "push") /\ ~At(t, "push")' BY <2>1, <2>6, <2>10 DEF At
  <2>12. ASSUME NEW s \in Strands, s # r PROVE Pending(s)' = Pending(s)
    BY <2>7, <2>8, <2>9, <2>11, <2>12, QuietPending
  <2>13. ASSUME NEW u \in Threads PROVE ~Pushes(u, r) /\ ~Pushes(u, r)'
    <3>1. ~Pushes(u, r)
      <4>1. CASE u = t BY <2>11, <4>1 DEF Pushes
      <4>2. CASE u # t BY <1>0, <2>0, <2>1, <4>2, OnlyPusher
      <4> QED BY <4>1, <4>2
    <3>2. ~Pushes(u, r)'
      <4>1. CASE u = t BY <2>11, <4>1 DEF Pushes
      <4>2. CASE u # t BY <2>2, <2>8, <3>1, <4>2, OthersPush
      <4> QED BY <4>1, <4>2
    <3> QED BY <3>1, <3>2
  <2>14. Pending(r) = ready[r] \o waiting[r] BY <2>2, <2>13 DEF PendingAgrees
  <2>15. Pending(r)' = ready'[r] \o waiting'[r] BY <2>2, <2>13 DEF PendingAgrees
  <2>16. /\ Pending(r) # <<>> /\ Head(Pending(r)) = h
         /\ Tail(Pending(r)) = Tail(ready[r]) \o waiting[r]
    BY <2>1, <2>3, <2>14, ConcatHeadTail
  <2>17. Pending(r)' = Tail(Pending(r)) BY <2>7, <2>9, <2>15, <2>16
  <2>18. \A u \in Threads : u # t => Calls(u)' = Calls(u) BY <2>8, SameCalls
  <2>19. Calls(t)' = Append(Calls(t), h)
    <3>1. n \in Nat /\ n >= 1 BY <2>8
    <3>2. ~InHandler(t) BY <2>1 DEF InHandler, At
    <3>3. Depth(t) = n - 1 BY <3>2, DepthIs
    <3>4. Depth(t)' = n BY <2>6, <2>8, <2>10 DEF Depth
    <3>5. Depth(t)' = Depth(t) + 1 BY <3>1, <3>3, <3>4
    <3>6. \A i \in 1 .. Depth(t) : stack'[t][i] = stack[t][i]
      <4>1. \A i \in 1 .. (n - 1) : i \in 1 .. n /\ i < n BY <3>1
      <4> QED BY <2>8, <3>3, <4>1
    <3>7. stack'[t][Depth(t) + 1].handler = h BY <2>6, <2>8, <3>4, <3>5
    <3> QED BY <2>4, <3>5, <3>6, <3>7, CallsGrow
  <2>20. \A u \in Threads : \A i \in DOMAIN Calls(u) : StrandOf[Calls(u)[i]] # r
    BY <2>0, <2>1, NobodyInside
  <2>21. Queue!Start(t, r)
    BY <2>2, <2>7, <2>12, <2>16, <2>17, <2>18, <2>19, <2>20, QueueStarts
  <2> QED BY <2>2, <2>21 DEF Queue!Next
<1>7. ASSUME NEW t \in Threads, Return(t) PROVE Goal
  <2> DEFINE n == Len(stack[t])
             f == Frame(Top(t).strand, "loop", NoHandler, Top(t).dispatch)
  <2>1. /\ stack[t] # <<>> /\ InHandler(t)
        /\ UNCHANGED <<ready, waiting, fresh>>
    BY <1>7 DEF Return, At, InHandler
  <2>2. f \in Frames BY <1>0, <2>1, TopIsFrame, FrameFields, FrameTyped
  <2>3. f.at = "loop" BY DEF Frame
  <2>4. Become(t, f) \/ Leave(t) BY <1>7 DEF Return
  <2>5. \A u \in Threads : u # t => stack'[u] = stack[u]
    BY <1>0, <2>1, <2>2, <2>4, Became, Left
  <2>6. \A u \in Threads : u # t => Calls(u)' = Calls(u) BY <2>5, SameCalls
  <2>7. n \in Nat /\ n >= 1 /\ Depth(t) = n
    <3>1. n \in Nat /\ n \in DOMAIN stack[t] /\ DOMAIN stack[t] = 1 .. n
      BY <1>0, <2>1, TopIsFrame
    <3> QED BY <2>1, <3>1, DepthIs
  <2> DEFINE Shallower == /\ ~At(t, "push")' /\ Depth(t)' = Depth(t) - 1
                          /\ \A i \in 1 .. (Depth(t) - 1) : stack'[t][i] = stack[t][i]
  <2>8. ASSUME Become(t, f) PROVE Shallower
    <3>1. /\ Len(stack'[t]) = n
          /\ \A i \in 1 .. n : i < n => stack'[t][i] = stack[t][i]
      BY <1>0, <2>1, <2>2, <2>8, Became
    <3>2. Top(t)' = f /\ stack'[t] # <<>> BY <1>0, <2>1, <2>2, <2>8, NewTop
    <3>3. ~At(t, "push")' BY <2>3, <3>2 DEF At
    <3>4. Depth(t)' = Depth(t) - 1 BY <2>3, <2>7, <3>1, <3>2 DEF Depth
    <3>5. \A i \in 1 .. (Depth(t) - 1) : stack'[t][i] = stack[t][i]
      <4>1. \A i \in 1 .. (n - 1) : i \in 1 .. n /\ i < n BY <2>7
      <4> QED BY <2>7, <3>1, <4>1
    <3> QED BY <3>3, <3>4, <3>5
  <2>9. ASSUME Leave(t) PROVE Shallower
    <3>1. /\ Len(stack'[t]) = n - 1
          /\ \A i \in 1 .. (n - 1) : stack'[t][i] = stack[t][i]
      BY <1>0, <2>1, <2>9, Left
    <3>2. InHandler(t)' BY <1>0, <2>1, <2>9, NoPushBelow
    <3>3. ~At(t, "push")' BY <3>2 DEF InHandler, At
    <3>4. Depth(t)' = Depth(t) - 1
      <4>1. Depth(t)' = Len(stack'[t]) BY <3>2 DEF Depth, InHandler, At
      <4> QED BY <2>7, <3>1, <4>1
    <3>5. \A i \in 1 .. (Depth(t) - 1) : stack'[t][i] = stack[t][i] BY <2>7, <3>1
    <3> QED BY <3>3, <3>4, <3>5
  <2>10. Shallower BY <2>4, <2>8, <2>9
  <2>11. Calls(t) # <<>> /\ Calls(t)' = SubSeq(Calls(t), 1, Len(Calls(t)) - 1)
    BY <2>10, CallsShrink
  <2>12. ~At(t, "push") BY <2>1, NoPushInHandler
  <2>13. \A s \in Strands : Pending(s)' = Pending(s)
    BY <2>1, <2>5, <2>10, <2>12, QuietPending
  <2>14. Queue!Return(t) BY <2>1, <2>6, <2>11, <2>13, QueueReturns
  <2> QED BY <2>14 DEF Queue!Next
<1>8. ASSUME NEW t \in Threads, Exit(t) PROVE Goal
  <2>1. stack[t] # <<>> /\ Top(t).at = "loop" /\ At(t, "loop") BY <1>8 DEF Exit, At
  <2>2. PICK r \in Strands : r = Top(t).strand BY <1>0, <2>1, TopIsFrame, FrameFields
  <2> DEFINE f == Frame(r, "schedule", NoHandler, FALSE)
  <2>3. f \in Frames BY <2>2, FrameTyped
  <2>4. f.at = "schedule" BY DEF Frame
  <2>5. Become(t, f) \/ Leave(t) BY <1>8, <2>2 DEF Exit
  <2>6. /\ ready[r] = <<>> /\ ready' = [ready EXCEPT ![r] = waiting[r]]
        /\ waiting' = [waiting EXCEPT ![r] = <<>>] /\ UNCHANGED fresh
    BY <1>8, <2>2 DEF Exit
  <2>7. /\ ready'[r] = waiting[r] /\ waiting'[r] = <<>>
        /\ \A s \in Strands : s # r => ready'[s] = ready[s] /\ waiting'[s] = waiting[s]
    BY <1>0, <2>2, <2>6 DEF TypeOK
  <2>8. ~InHandler(t) /\ f.at \notin {"run", "inside"} BY <2>1, <2>4 DEF InHandler, At
  <2>9. \A u \in Threads : Calls(u)' = Calls(u) BY <2>1, <2>3, <2>5, <2>8, SameHandlers
  <2>10. ~At(t, "push") BY <2>1 DEF At
  <2>11. ~At(t, "push")'
    <3>1. CASE Become(t, f)
      <4>1. Top(t)' = f BY <1>0, <2>1, <2>3, <3>1, NewTop
      <4> QED BY <2>4, <4>1 DEF At
    <3>2. CASE Leave(t)
      <4>1. InHandler(t)' BY <1>0, <2>1, <3>2, NoPushBelow
      <4> QED BY <4>1 DEF InHandler, At
    <3> QED BY <2>5, <3>1, <3>2
  <2>12. \A u \in Threads : u # t => stack'[u] = stack[u]
    BY <1>0, <2>1, <2>3, <2>5, Became, Left
  <2>13. ASSUME NEW s \in Strands, s # r PROVE Pending(s)' = Pending(s)
    BY <2>7, <2>10, <2>11, <2>12, <2>13, QuietPending
  <2>14. ASSUME NEW u \in Threads PROVE ~Pushes(u, r) /\ ~Pushes(u, r)'
    <3>1. ~Pushes(u, r)
      <4>1. CASE u = t BY <2>10, <4>1 DEF Pushes
      <4>2. CASE u # t BY <1>0, <2>1, <2>2, <4>2, OnlyPusher
      <4> QED BY <4>1, <4>2
    <3>2. ~Pushes(u, r)'
      <4>1. CASE u = t BY <2>11, <4>1 DEF Pushes
      <4>2. CASE u # t BY <2>2, <2>12, <3>1, <4>2, OthersPush
      <4> QED BY <4>1, <4>2
    <3> QED BY <3>1, <3>2
  <2>15. Pending(r)' = Pending(r)
    <3>1. Pending(r) = ready[r] \o waiting[r] BY <2>2, <2>14 DEF PendingAgrees
    <3>2. Pending(r)' = ready'[r] \o waiting'[r] BY <2>2, <2>14 DEF PendingAgrees
    <3>3. waiting[r] \in Seq(Handlers) BY <1>0, <2>2 DEF TypeOK
    <3>4. <<>> \o waiting[r] = waiting[r] /\ waiting[r] \o <<>> = waiting[r]
      BY <3>3, ConcatEmptySeq
    <3> QED BY <2>6, <2>7, <3>1, <3>2, <3>4
  <2> QED BY <2>6, <2>9, <2>13, <2>15, QueueStutters
<1>9. CASE UNCHANGED vars
  <2>1. UNCHANGED <<ready, waiting, stack, fresh>> BY <1>9 DEF vars
  <2>2. \A u \in Threads : Calls(u)' = Calls(u) BY <2>1, SameCalls
  <2>3. /\ \A u \in Threads : Top(u)' = Top(u)
        /\ \A u \in Threads, s \in Strands : Pushes(u, s)' <=> Pushes(u, s)
    BY <2>1 DEF Top, Pushes, At
  <2>4. \A s \in Strands : Pending(s)' = Pending(s) BY <2>1, <2>3, SamePending
  <2> QED BY <2>1, <2>2, <2>4, QueueStutters
<1> QED BY <1>1, <1>2, <1>3, <1>4, <1>5, <1>6, <1>7, <1>8, <1>9 DEF Next, Step, Submit

LEMMA InitQueue == Init => Queue!Init
<1> SUFFICES ASSUME Init PROVE Queue!Init OBVIOUS
<1>0. QInv BY InitQInv
<1>1. CallsAgree /\ PendingAgrees BY <1>0, CallsAreFrames, PendingIs
<1>2. \A t \in Threads : stack[t] = <<>> BY DEF Init
<1>3. ASSUME NEW t \in Threads PROVE Calls(t) = <<>>
  <2>1. Len(stack[t]) = 0 BY <1>2
  <2>2. Depth(t) = 0 BY <1>2, <2>1 DEF Depth
  <2>3. Calls(t) \in Seq(Handlers) /\ Len(Calls(t)) = 0 BY <1>1, <2>2 DEF CallsAgree
  <2> QED BY <2>3
<1>4. ASSUME NEW s \in Strands PROVE Pending(s) = <<>>
  <2>1. \A t \in Threads : ~Pushes(t, s) BY <1>2 DEF Pushes, At
  <2>2. Pending(s) = ready[s] \o waiting[s] BY <1>1, <2>1 DEF PendingAgrees
  <2>3. ready[s] = <<>> /\ waiting[s] = <<>> BY DEF Init
  <2>4. <<>> \in Seq(Handlers) OBVIOUS
  <2> QED BY <2>2, <2>3, <2>4, ConcatEmptySeq
<1>5. [t \in Threads |-> Calls(t)] = [t \in Threads |-> <<>>] BY <1>3
<1>6. [s \in Strands |-> Pending(s)] = [s \in Strands |-> <<>>] BY <1>4
<1> QED BY <1>5, <1>6 DEF Queue!Init, Init

(* A strand is a queue, as far as safety goes: on whatever threads, what   *)
(* is submitted to it (posted, or dispatched from outside) starts in the   *)
(* order submitted, each once, and none while another of the strand runs,  *)
(* but for one that a running one dispatches, which runs inside it.  So    *)
(* what FTPSession writes through a strand keeps its order.                *)
THEOREM ImplementsStrandQueue == Spec => Queue!Safety
<1>1. QInv /\ [Next]_vars => QInv' BY StepQInv
<1>2. Spec => []QInv BY InitQInv, <1>1, PTL DEF Spec
<1>3. (QInv => CallsAgree /\ PendingAgrees)
  BY CallsAreFrames, PendingIs
<1>4. (QInv => CallsAgree /\ PendingAgrees)' BY <1>3, PTL
<1>5. QInv /\ QInv' /\ [Next]_vars => [Queue!Next]_(Queue!queueVars)
  BY <1>3, <1>4, StepQueue
<1> QED BY InitQueue, <1>2, <1>5, PTL DEF Spec, Queue!Safety

=============================================================================
