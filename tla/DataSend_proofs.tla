-------------------------- MODULE DataSend_proofs --------------------------
(***************************************************************************)
(* Proofs about DataSend, for any transfers of any length, any client and  *)
(* connections that may break: its types, and that the writes of a session *)
(* form one chain which never touches an empty deque.  The two need each   *)
(* other: what writeDataToSocket takes from the front of the deque has the *)
(* type of a buffer only because the deque is not empty.  Memory is        *)
(* bounded because reads are counted against the buffers they will fill.   *)
(*                                                                         *)
(* Then one transfer at a time, over connections that hold: nothing is     *)
(* left in the deque, buffers go out in order, and the module implements   *)
(* DataStream.                                                             *)
(***************************************************************************)
EXTENDS DataSend, FiniteSetTheorems, TLAPS

IInv == WorkTypeOK /\ OneChain

RunningTypeOK == running \in BOOLEAN

Refused(t) == RETRRefused(t) \/ LISTRefused(t)

(* A listing that throws ends the process and changes nothing else. *)
LEMMA StepWorks == [Next]_vars => [Work]_workVars
BY DEF Next, vars, ListingThrows

LEMMA SpecWorks == Spec => Init /\ [][Work]_workVars
BY StepWorks, PTL DEF Spec

(* The handlers and the writes that the actions make are well typed. *)
LEMMA HandlerTypes ==
  /\ \A t \in Transfers, data \in Buffers \cup {Null}, more \in BOOLEAN :
       (more => t \in Files) => Add(t, data, more) \in Handlers
  /\ \A t \in Transfers, more \in BOOLEAN :
       (more => t \in Files) => Write(t, more) \in Handlers
  /\ \A t \in Transfers, more, ok \in BOOLEAN :
       (more => t \in Files) => Done(t, more, ok) \in Handlers
  /\ \A h \in Handlers : /\ h.of \in Transfers
                         /\ h.data \in Buffers \cup {Null}
                         /\ h.more \in BOOLEAN
                         /\ h.ok \in BOOLEAN
                         /\ h.more => h.of \in Files
  /\ \A w \in Writes : /\ w.of \in Transfers
                       /\ w.data \in Buffers
                       /\ w.more \in BOOLEAN
                       /\ w.more => w.of \in Files
  /\ \A t \in Transfers, i \in Nat : Buffer(t, i) \in Buffers
  /\ Files \subseteq Transfers
  /\ Null \notin Transfers
BY DataSendAssumption DEF Handlers, Writes, Add, Write, Done, Buffers, Buffer

(* Which handlers carry the chain. *)
LEMMA ChainHandlers ==
  /\ \A t, data, more : ~InChain(Add(t, data, more))
  /\ \A t, more : InChain(Write(t, more))
  /\ \A t, more, ok : InChain(Done(t, more, ok))
BY DEF InChain, Add, Write, Done

(* Taking the first handler off the strand and posting another at its end. *)
LEMMA StrandShift ==
  ASSUME NEW S, NEW q \in Seq(S), q # <<>>
  PROVE  /\ Head(q) \in S
         /\ Tail(q) \in Seq(S)
         /\ \A i \in DOMAIN Tail(q) : i + 1 \in DOMAIN q /\ Tail(q)[i] = q[i + 1]
         /\ q[1] = Head(q) /\ 1 \in DOMAIN q
OBVIOUS

LEMMA StrandTail ==
  ASSUME NEW S, NEW q \in Seq(S), q # <<>>
  PROVE  /\ Len(Tail(q)) \in Nat /\ Len(q) = Len(Tail(q)) + 1
         /\ \A i \in DOMAIN Tail(q) :
              i \in Nat /\ i + 1 \in DOMAIN q /\ Tail(q)[i] = q[i + 1]
OBVIOUS

LEMMA StrandAppend ==
  ASSUME NEW S, NEW q \in Seq(S), NEW x \in S
  PROVE  /\ Append(q, x) \in Seq(S)
         /\ Append(q, x) # <<>>
         /\ \A i \in DOMAIN Append(q, x) :
              \/ i \in DOMAIN q /\ Append(q, x)[i] = q[i]
              \/ i = Len(q) + 1 /\ Append(q, x)[i] = x
OBVIOUS

(* Appending to one of a family of sequences. *)
LEMMA FamilyAppend ==
  ASSUME NEW S, NEW D, NEW f \in [D -> Seq(S)], NEW d \in D, NEW x \in S
  PROVE  [f EXCEPT ![d] = Append(@, x)] \in [D -> Seq(S)]
OBVIOUS

-----------------------------------------------------------------------------

LEMMA InitIInv == Init => IInv
<1> SUFFICES ASSUME Init PROVE IInv
  OBVIOUS
<1>1. AcceptTypeOK
  BY DEF Init, AcceptTypeOK, States
<1>2. ReadTypeOK /\ FinalsTypeOK
  BY DEF Init, ReadTypeOK, FinalsTypeOK
<1>3. ChainTypeOK
  BY DEF Init, ChainTypeOK
<1>4. OneChain
  BY DEF Init, OneChain
<1> QED
  BY <1>1, <1>2, <1>3, <1>4 DEF IInv, WorkTypeOK

(* No step breaks a type.  First, what happens to the acceptor... *)
LEMMA StepAcceptTypeOK == AcceptTypeOK /\ [Work]_workVars => AcceptTypeOK'
<1> SUFFICES ASSUME AcceptTypeOK, [Work]_workVars PROVE AcceptTypeOK'
  OBVIOUS
<1> USE DEF AcceptTypeOK, States
<1>1. CASE PASV
  BY <1>1 DEF PASV
<1>2. ASSUME NEW t \in Transfers, AsyncAccept(t) PROVE AcceptTypeOK'
  <2>1. pending' \in {pending, Append(pending, t)}
    BY <1>2 DEF AsyncAccept
  <2>2. pending' \in Seq(Transfers)
    BY <2>1, StrandAppend
  <2> QED
    BY <1>2, <2>2 DEF AsyncAccept
<1>3. ASSUME NEW t \in Transfers, Refused(t) \/ AcceptFailed(t)
      PROVE  AcceptTypeOK'
  BY <1>3 DEF Refused, RETRRefused, LISTRefused, Refuse, AcceptFailed
<1>4. CASE Accept \/ AcceptError
  <2>1. pending # <<>> /\ pending' = Tail(pending)
    BY <1>4 DEF Accept, AcceptError
  <2>2. Head(pending) \in Transfers /\ pending' \in Seq(Transfers)
    BY <2>1, StrandShift
  <2>3. CASE Accept
    BY <2>2, <2>3 DEF Accept
  <2>4. CASE AcceptError
    BY <2>2, <2>4 DEF AcceptError
  <2> QED
    BY <1>4, <2>3, <2>4
<1>5. ASSUME NEW t \in Transfers, PostNext(t) PROVE AcceptTypeOK'
  BY <1>5 DEF PostNext
<1>6. CASE UNCHANGED acceptVars
  BY <1>6 DEF acceptVars
<1>7. \/ PASV \/ Accept \/ AcceptError \/ UNCHANGED acceptVars
      \/ \E t \in Transfers : \/ AsyncAccept(t) \/ Refused(t)
                              \/ AcceptFailed(t) \/ PostNext(t)
  BY DEF Work, Client, Refused, AcceptHandlers, FileStrand, BufStrand, Sockets, RETR,
         LIST, Break, ReadAtEof, ReadBuffer, PostEnd, AddData, WriteData,
         WriteEnd, WriteDone, WriteCompletes, workVars
<1> QED
  BY <1>1, <1>2, <1>3, <1>4, <1>5, <1>6, <1>7

(* ...then the file strand, which only ever reads for files; it is the     *)
(* completions of the other strand that fetch more... *)
LEMMA StepReadTypeOK ==
  AcceptTypeOK /\ ReadTypeOK /\ ChainTypeOK /\ [Work]_workVars => ReadTypeOK'
<1> SUFFICES ASSUME AcceptTypeOK, ReadTypeOK, ChainTypeOK, [Work]_workVars
             PROVE  ReadTypeOK'
  OBVIOUS
<1> USE DEF ReadTypeOK
<1>f. fileStrand # <<>> =>
        Head(fileStrand) \in Files /\ Tail(fileStrand) \in Seq(Files)
  BY StrandShift
<1>1. ASSUME NEW t \in Transfers, PostNext(t) PROVE ReadTypeOK'
  <2>1. CASE t \in Files
    <3>1. fileStrand' \in Seq(Files)
      BY <1>1, <2>1, StrandAppend DEF PostNext
    <3> QED
      BY <1>1, <3>1 DEF PostNext
  <2>2. CASE t \notin Files
    BY <1>1, <2>2 DEF PostNext
  <2> QED
    BY <2>1, <2>2
<1>2. CASE ReadAtEof
  BY <1>2, <1>f DEF ReadAtEof
<1>3. CASE ReadBuffer
  BY <1>3, <1>f, HandlerTypes DEF ReadBuffer
<1>4. CASE PostEnd
  BY <1>4 DEF PostEnd
<1>5. CASE WriteDone
  <2>1. Head(bufStrand) \in Handlers
    BY <1>5, StrandShift DEF ChainTypeOK, WriteDone, Runs
  <2>2. fileStrand' = fileStrand \/
          /\ Head(bufStrand).of \in Files
          /\ fileStrand' = Append(fileStrand, Head(bufStrand).of)
    BY <1>5, <2>1, HandlerTypes DEF WriteDone
  <2>3. fileStrand' \in Seq(Files)
    BY <2>2, StrandAppend
  <2> QED
    BY <1>5, <2>3 DEF WriteDone
<1>6. CASE UNCHANGED readVars
  BY <1>6 DEF readVars
<1>7. \/ ReadAtEof \/ ReadBuffer \/ PostEnd \/ WriteDone \/ UNCHANGED readVars
      \/ \E t \in Transfers : PostNext(t)
  BY DEF Work, Client, Refused, AcceptHandlers, FileStrand, BufStrand, Sockets, PASV,
         RETR, LIST, AsyncAccept, Refused, RETRRefused, LISTRefused, Refuse, Break, Accept,
         AcceptError,
         AcceptFailed, AddData, WriteData, WriteEnd, WriteCompletes, workVars
<1> QED
  BY <1>1, <1>2, <1>3, <1>4, <1>5, <1>6, <1>7

(* ...the replies... *)
LEMMA StepFinalsTypeOK == ChainTypeOK /\ FinalsTypeOK /\ [Work]_workVars => FinalsTypeOK'
<1> SUFFICES ASSUME ChainTypeOK, FinalsTypeOK, [Work]_workVars PROVE FinalsTypeOK'
  OBVIOUS
<1> USE DEF FinalsTypeOK
<1>1. ASSUME NEW t \in Transfers, NEW code \in Finals, SendFinal(t, code)
      PROVE  FinalsTypeOK'
  BY <1>1, FamilyAppend DEF SendFinal
<1>2. CASE WriteEnd
  <2>1. Head(bufStrand).of \in Transfers
    BY <1>2, StrandShift, HandlerTypes DEF ChainTypeOK, WriteEnd, Runs
  <2> QED
    BY <1>1, <1>2, <2>1 DEF WriteEnd, CLOSING_DATA_CONNECTION, Finals
<1>3. ASSUME NEW t \in Transfers, Refused(t) \/ AcceptFailed(t)
      PROVE  FinalsTypeOK'
  BY <1>1, <1>3 DEF Refused, RETRRefused, LISTRefused, Refuse, AcceptFailed, Finals,
       TRANSFER_ABORTED, ERROR_OPENING_DATA_CONNECTION, FILE_ACTION_NOT_TAKEN,
       ACTION_ABORTED_LOCAL_ERROR
<1>4. CASE UNCHANGED finals
  BY <1>4
<1>5. \/ WriteEnd \/ UNCHANGED finals
      \/ \E t \in Transfers : Refused(t) \/ AcceptFailed(t)
  BY DEF Work, Client, Refused, AcceptHandlers, FileStrand, BufStrand, Sockets, PASV,
         RETR, LIST, AsyncAccept, Break, Accept, AcceptError, PostNext,
         ReadAtEof, ReadBuffer, PostEnd, AddData, WriteData, WriteDone,
         WriteCompletes, workVars
<1> QED
  BY <1>2, <1>3, <1>4, <1>5

(* ...and the chain of writes.  Its steps take the front of the deque and  *)
(* need OneChain to find something there.                                  *)
LEMMA StepChainTypeOK ==
  IInv /\ [Work]_workVars => ChainTypeOK'
<1> SUFFICES ASSUME AcceptTypeOK, ReadTypeOK, ChainTypeOK, OneChain, [Work]_workVars
             PROVE  ChainTypeOK'
  BY DEF IInv, WorkTypeOK
<1> USE DEF ChainTypeOK
<1>h. bufStrand # <<>> => /\ Head(bufStrand) \in Handlers
                         /\ Tail(bufStrand) \in Seq(Handlers)
  BY StrandShift
<1>d. dataBuffer # <<>> => /\ Head(dataBuffer) \in Buffers \cup {Null}
                          /\ Tail(dataBuffer) \in Seq(Buffers \cup {Null})
  BY StrandShift
<1>n. bufStrand # <<>> /\ InChain(Head(bufStrand)) => dataBuffer # <<>>
  BY StrandShift DEF OneChain
<1>p. ASSUME NEW h \in Handlers, bufStrand' = Append(bufStrand, h),
             UNCHANGED <<dataBuffer, writing, broken, sent>>
      PROVE  ChainTypeOK'
  BY <1>p, StrandAppend
<1>1. ASSUME NEW t \in Transfers, PostNext(t) PROVE ChainTypeOK'
  <2>1. Add(t, IF toPost[t] = 2 THEN Buffer(t, 1) ELSE Null, FALSE) \in Handlers
    BY HandlerTypes
  <2>2. CASE t \in Files
    BY <1>1, <2>2 DEF PostNext
  <2>3. CASE t \notin Files
    BY <1>1, <1>p, <2>1, <2>3 DEF PostNext
  <2> QED
    BY <2>2, <2>3
<1>2. CASE ReadBuffer
  <2> DEFINE t == Head(fileStrand)
  <2>1. t \in Files /\ t \in Transfers
    BY <1>2, StrandShift, HandlerTypes DEF ReadBuffer, ReadTypeOK
  <2>2. pos'[t] \in Nat
    BY <1>2, <2>1 DEF ReadBuffer, ReadTypeOK
  <2>3. Add(t, Buffer(t, pos'[t]), TRUE) \in Handlers
        /\ Add(t, Buffer(t, pos'[t]), FALSE) \in Handlers
    BY <2>1, <2>2, HandlerTypes
  <2>4. (pos'[t] < BufferCount(t)) \in BOOLEAN
    OBVIOUS
  <2> QED
    BY <1>2, <1>p, <2>3, <2>4 DEF ReadBuffer
<1>3. CASE PostEnd
  <2>1. Add(ending, Null, FALSE) \in Handlers
    BY <1>3, HandlerTypes DEF ReadTypeOK, PostEnd
  <2> QED
    BY <1>3, <1>p, <2>1 DEF PostEnd
<1>4. CASE AddData
  <2> DEFINE h == Head(bufStrand)
  <2>1. h \in Handlers /\ Tail(bufStrand) \in Seq(Handlers)
    BY <1>4, <1>h DEF AddData, Runs
  <2>2. Write(h.of, h.more) \in Handlers /\ h.data \in Buffers \cup {Null}
    BY <2>1, HandlerTypes
  <2>3. Append(Tail(bufStrand), Write(h.of, h.more)) \in Seq(Handlers)
    BY <2>1, <2>2, StrandAppend
  <2>4. bufStrand' \in Seq(Handlers)
    BY <1>4, <2>1, <2>3 DEF AddData
  <2>5. dataBuffer' \in Seq(Buffers \cup {Null})
    BY <1>4, <2>2, StrandAppend DEF AddData
  <2> QED
    BY <1>4, <2>4, <2>5 DEF AddData
<1>5. CASE WriteData
  <2> DEFINE h == Head(bufStrand)
  <2>1. h \in Handlers /\ Tail(bufStrand) \in Seq(Handlers)
    BY <1>5, <1>h DEF WriteData, Runs
  <2>2. dataBuffer # <<>>
    BY <1>5, <1>n DEF WriteData, Runs, InChain
  <2>3. Head(dataBuffer) \in Buffers
    BY <1>5, <1>d, <2>2 DEF WriteData
  <2>4. [of |-> h.of, data |-> Head(dataBuffer), more |-> h.more] \in Writes
    BY <2>1, <2>3, HandlerTypes DEF Writes
  <2> QED
    BY <1>5, <2>1, <2>4 DEF WriteData
<1>6. CASE WriteEnd
  <2>1. dataBuffer # <<>>
    BY <1>6, <1>n DEF WriteEnd, Runs, InChain
  <2> QED
    BY <1>6, <1>h, <1>d, <2>1 DEF WriteEnd, Runs
<1>7. ASSUME NEW w \in writing, WriteCompletes(w) PROVE ChainTypeOK'
  <2>1. w \in Writes
    OBVIOUS
  <2>2. Done(w.of, w.more, w.of \notin broken) \in Handlers
    BY <2>1, HandlerTypes
  <2>3. bufStrand' \in Seq(Handlers)
    BY <1>7, <2>2, StrandAppend DEF WriteCompletes
  <2>4. [sent EXCEPT ![w.of] = Append(@, w.data)] \in [Transfers -> Seq(Buffers)]
    BY <2>1, HandlerTypes, FamilyAppend
  <2>5. sent' \in [Transfers -> Seq(Buffers)]
    BY <1>7, <2>4 DEF WriteCompletes
  <2> QED
    BY <1>7, <2>3, <2>5 DEF WriteCompletes
<1>8. CASE WriteDone
  <2> DEFINE h == Head(bufStrand)
  <2>1. h \in Handlers /\ Tail(bufStrand) \in Seq(Handlers)
    BY <1>8, <1>h DEF WriteDone, Runs
  <2>2. Write(h.of, h.more) \in Handlers
    BY <2>1, HandlerTypes
  <2>3. Append(Tail(bufStrand), Write(h.of, h.more)) \in Seq(Handlers)
    BY <2>1, <2>2, StrandAppend
  <2>4. bufStrand' \in Seq(Handlers)
    BY <1>8, <2>1, <2>3 DEF WriteDone
  <2>5. dataBuffer # <<>>
    BY <1>8, <1>n DEF WriteDone, Runs, InChain
  <2> QED
    BY <1>8, <1>d, <2>4, <2>5 DEF WriteDone
<1>9. ASSUME NEW t \in Transfers, Break(t) PROVE ChainTypeOK'
  BY <1>9 DEF Break
<1>10. CASE UNCHANGED chainVars
  BY <1>10 DEF chainVars
<1>11. \/ ReadBuffer \/ PostEnd \/ AddData \/ WriteData \/ WriteEnd \/ WriteDone
       \/ \E w \in writing : WriteCompletes(w)
       \/ \E t \in Transfers : PostNext(t) \/ Break(t)
       \/ UNCHANGED chainVars
  BY DEF Work, Client, Refused, AcceptHandlers, FileStrand, BufStrand, Sockets, PASV,
         RETR, LIST, AsyncAccept, Refused, RETRRefused, LISTRefused, Refuse, Accept,
         AcceptError,
         AcceptFailed, ReadAtEof, workVars
<1> QED
  BY <1>1, <1>2, <1>3, <1>4, <1>5, <1>6, <1>7, <1>8, <1>9, <1>10, <1>11

-----------------------------------------------------------------------------

(* The handlers of addDataToBufferAndSend carry no chain, and may be       *)
(* posted at any time.                                                     *)
LEMMA PostKeepsOneChain ==
  ASSUME bufStrand \in Seq(Handlers), OneChain, NEW h \in Handlers, ~InChain(h),
         bufStrand' = Append(bufStrand, h), UNCHANGED <<dataBuffer, writing>>
  PROVE  OneChain'
<1>1. \A i \in DOMAIN bufStrand' : InChain(bufStrand'[i]) =>
        i \in DOMAIN bufStrand /\ InChain(bufStrand[i])
  BY StrandAppend
<1>2. \A i \in DOMAIN bufStrand : bufStrand'[i] = bufStrand[i]
  OBVIOUS
<1> QED
  BY <1>1, <1>2 DEF OneChain, InChain

(* When the handler at the head is the chain, the rest has none and no     *)
(* write is under way: the chain is handed on or ends.                     *)
LEMMA HeadIsTheChain ==
  ASSUME bufStrand \in Seq(Handlers), OneChain, bufStrand # <<>>,
         InChain(Head(bufStrand))
  PROVE  /\ \A i \in DOMAIN Tail(bufStrand) : ~InChain(Tail(bufStrand)[i])
         /\ writing = {}
         /\ dataBuffer # <<>>
<1>1. 1 \in DOMAIN bufStrand /\ InChain(bufStrand[1])
  BY StrandShift
<1>2. \A i \in DOMAIN Tail(bufStrand) :
        i + 1 \in DOMAIN bufStrand /\ Tail(bufStrand)[i] = bufStrand[i + 1] /\ i + 1 # 1
  OBVIOUS
<1> QED
  BY <1>1, <1>2 DEF OneChain

(* The chain is one handler at the end of a strand that held none. *)
LEMMA ChainAtTheEnd ==
  ASSUME NEW q \in Seq(Handlers), NEW h \in Handlers,
         \A i \in DOMAIN q : ~InChain(q[i]),
         bufStrand' = Append(q, h), writing' = {}, dataBuffer' # <<>>
  PROVE  OneChain'
<1>1. \A i \in DOMAIN bufStrand' : InChain(bufStrand'[i]) => i = Len(q) + 1
  BY StrandAppend
<1> QED
  BY <1>1 DEF OneChain, InChain

(* No step starts a second chain or leaves the chain an empty deque. *)
LEMMA StepOneChain == IInv /\ [Work]_workVars => OneChain'
<1> SUFFICES ASSUME ReadTypeOK, ChainTypeOK, OneChain, [Work]_workVars PROVE OneChain'
  BY DEF IInv, WorkTypeOK
<1> USE DEF ChainTypeOK
<1>h. bufStrand # <<>> => /\ Head(bufStrand) \in Handlers
                         /\ Tail(bufStrand) \in Seq(Handlers)
  BY StrandShift
<1>1. ASSUME NEW t \in Transfers, PostNext(t) PROVE OneChain'
  <2>1. CASE t \in Files
    BY <1>1, <2>1 DEF PostNext, OneChain, InChain
  <2>2. CASE t \notin Files
    <3> DEFINE a == Add(t, IF toPost[t] = 2 THEN Buffer(t, 1) ELSE Null, FALSE)
    <3>1. a \in Handlers /\ ~InChain(a)
      BY HandlerTypes, ChainHandlers
    <3>2. bufStrand' = Append(bufStrand, a) /\ UNCHANGED <<dataBuffer, writing>>
      BY <1>1, <2>2 DEF PostNext
    <3> QED
      BY <3>1, <3>2, PostKeepsOneChain
  <2> QED
    BY <2>1, <2>2
<1>2. CASE ReadBuffer
  <2> DEFINE t == Head(fileStrand)
             a == Add(t, Buffer(t, pos'[t]), pos'[t] < BufferCount(t))
  <2>1. t \in Files /\ t \in Transfers
    BY <1>2, StrandShift, HandlerTypes DEF ReadBuffer, ReadTypeOK
  <2>2. pos'[t] \in Nat
    BY <1>2, <2>1 DEF ReadBuffer, ReadTypeOK
  <2>3. Add(t, Buffer(t, pos'[t]), TRUE) \in Handlers
        /\ Add(t, Buffer(t, pos'[t]), FALSE) \in Handlers
    BY <2>1, <2>2, HandlerTypes
  <2>4. (pos'[t] < BufferCount(t)) \in BOOLEAN
    OBVIOUS
  <2>5. a \in Handlers /\ ~InChain(a)
    BY <2>3, <2>4, ChainHandlers
  <2>6. bufStrand' = Append(bufStrand, a) /\ UNCHANGED <<dataBuffer, writing>>
    BY <1>2 DEF ReadBuffer
  <2> QED
    BY <2>5, <2>6, PostKeepsOneChain
<1>3. CASE PostEnd
  <2>1. Add(ending, Null, FALSE) \in Handlers /\ ~InChain(Add(ending, Null, FALSE))
    BY <1>3, HandlerTypes, ChainHandlers DEF ReadTypeOK, PostEnd
  <2> QED
    BY <1>3, <2>1, PostKeepsOneChain DEF PostEnd
<1>4. CASE AddData
  <2> DEFINE h == Head(bufStrand)
  <2>1. /\ bufStrand # <<>> /\ h \in Handlers /\ Tail(bufStrand) \in Seq(Handlers)
        /\ ~InChain(h)
    BY <1>4, <1>h DEF AddData, Runs, InChain
  <2>2. Write(h.of, h.more) \in Handlers /\ h.data \in Buffers \cup {Null}
    BY <2>1, HandlerTypes
  <2>3. dataBuffer' # <<>> /\ writing' = writing
    BY <1>4, <2>2, StrandAppend DEF AddData
  <2>4. \A i \in DOMAIN Tail(bufStrand) :
          i + 1 \in DOMAIN bufStrand /\ Tail(bufStrand)[i] = bufStrand[i + 1]
    BY <2>1
  <2>5. CASE dataBuffer = <<>>
    <3>1. writing = {} /\ \A i \in DOMAIN bufStrand : ~InChain(bufStrand[i])
      BY <2>5 DEF OneChain
    <3>2. \A i \in DOMAIN Tail(bufStrand) : ~InChain(Tail(bufStrand)[i])
      BY <2>4, <3>1
    <3>3. bufStrand' = Append(Tail(bufStrand), Write(h.of, h.more))
      BY <1>4, <2>5 DEF AddData
    <3> QED
      BY <2>1, <2>2, <2>3, <3>1, <3>2, <3>3, ChainAtTheEnd
  <2>6. CASE dataBuffer # <<>>
    <3>1. bufStrand' = Tail(bufStrand)
      BY <1>4, <2>6 DEF AddData
    <3>2. \A i, j \in DOMAIN Tail(bufStrand) : i + 1 = j + 1 => i = j
      BY <2>1
    <3> QED
      BY <2>3, <2>4, <2>6, <3>1, <3>2 DEF OneChain, InChain
  <2> QED
    BY <2>5, <2>6
<1>5. CASE WriteData
  <2>1. /\ \A i \in DOMAIN Tail(bufStrand) : ~InChain(Tail(bufStrand)[i])
        /\ writing = {} /\ dataBuffer # <<>>
    BY <1>5, HeadIsTheChain DEF WriteData, Runs, InChain
  <2>2. bufStrand' = Tail(bufStrand) /\ dataBuffer' = dataBuffer
    BY <1>5 DEF WriteData
  <2>3. \A w, x \in writing' : w = x
    BY <1>5, <2>1 DEF WriteData
  <2> QED
    BY <2>1, <2>2, <2>3 DEF OneChain, InChain
<1>6. CASE WriteEnd
  <2>1. /\ \A i \in DOMAIN Tail(bufStrand) : ~InChain(Tail(bufStrand)[i])
        /\ writing = {}
    BY <1>6, HeadIsTheChain DEF WriteEnd, Runs, InChain
  <2>2. bufStrand' = Tail(bufStrand) /\ writing' = writing
    BY <1>6 DEF WriteEnd
  <2> QED
    BY <2>1, <2>2 DEF OneChain, InChain
<1>7. ASSUME NEW w \in writing, WriteCompletes(w) PROVE OneChain'
  <2>1. /\ \A i \in DOMAIN bufStrand : ~InChain(bufStrand[i])
        /\ \A x \in writing : x = w
        /\ dataBuffer # <<>>
    BY DEF OneChain
  <2>2. writing' = {} /\ dataBuffer' # <<>>
    BY <1>7, <2>1 DEF WriteCompletes
  <2>3. Done(w.of, w.more, w.of \notin broken) \in Handlers
    BY HandlerTypes
  <2>4. bufStrand' = Append(bufStrand, Done(w.of, w.more, w.of \notin broken))
    BY <1>7 DEF WriteCompletes
  <2> QED
    BY <2>1, <2>2, <2>3, <2>4, ChainAtTheEnd
<1>8. CASE WriteDone
  <2> DEFINE h == Head(bufStrand)
  <2>1. /\ \A i \in DOMAIN Tail(bufStrand) : ~InChain(Tail(bufStrand)[i])
        /\ writing = {}
    BY <1>8, HeadIsTheChain DEF WriteDone, Runs, InChain
  <2>2. h \in Handlers /\ Tail(bufStrand) \in Seq(Handlers) /\ writing' = {}
    BY <1>8, <1>h, <2>1 DEF WriteDone, Runs
  <2>3. Write(h.of, h.more) \in Handlers
    BY <2>2, HandlerTypes
  <2>4. CASE h.ok /\ dataBuffer' # <<>>
    <3>1. bufStrand' = Append(Tail(bufStrand), Write(h.of, h.more))
      BY <1>8, <2>4 DEF WriteDone
    <3> QED
      BY <2>1, <2>2, <2>3, <2>4, <3>1, ChainAtTheEnd
  <2>5. CASE ~(h.ok /\ dataBuffer' # <<>>)
    <3>1. bufStrand' = Tail(bufStrand)
      BY <1>8, <2>5 DEF WriteDone
    <3> QED
      BY <2>1, <2>2, <3>1 DEF OneChain, InChain
  <2> QED
    BY <2>4, <2>5
<1>9. CASE UNCHANGED <<bufStrand, dataBuffer, writing>>
  BY <1>9 DEF OneChain, InChain
<1>10. \/ ReadBuffer \/ PostEnd \/ AddData \/ WriteData \/ WriteEnd \/ WriteDone
       \/ \E w \in writing : WriteCompletes(w)
       \/ \E t \in Transfers : PostNext(t)
       \/ UNCHANGED <<bufStrand, dataBuffer, writing>>
  BY DEF Work, Client, Refused, AcceptHandlers, FileStrand, BufStrand, Sockets, PASV,
         RETR, LIST, AsyncAccept, Refused, RETRRefused, LISTRefused, Refuse, Accept,
         AcceptError, Break,
         AcceptFailed, ReadAtEof, workVars, chainVars
<1> QED
  BY <1>1, <1>2, <1>3, <1>4, <1>5, <1>6, <1>7, <1>8, <1>9, <1>10

-----------------------------------------------------------------------------

(* Types and chain are an inductive invariant together. *)
THEOREM Invariance == Spec => []IInv
<1>1. IInv /\ [Work]_workVars => IInv'
  <2> SUFFICES ASSUME IInv, [Work]_workVars PROVE IInv'
    OBVIOUS
  <2>1. AcceptTypeOK'
    BY StepAcceptTypeOK DEF IInv, WorkTypeOK
  <2>2. ReadTypeOK'
    BY StepReadTypeOK DEF IInv, WorkTypeOK
  <2>3. FinalsTypeOK'
    BY StepFinalsTypeOK DEF IInv, WorkTypeOK
  <2>4. ChainTypeOK' /\ OneChain'
    BY StepChainTypeOK, StepOneChain
  <2> QED
    BY <2>1, <2>2, <2>3, <2>4 DEF IInv, WorkTypeOK
<1> QED
  BY InitIInv, <1>1, SpecWorks, PTL

(* Type correctness: of what the handlers do, and of the process, which a  *)
(* listing may end.                                                        *)
THEOREM TypeCorrect == Spec => []TypeOK
<1>1. Init => RunningTypeOK
  BY DEF Init, RunningTypeOK
<1>2. RunningTypeOK /\ [Next]_vars => RunningTypeOK'
  BY DEF Next, ListingThrows, vars, RunningTypeOK
<1>3. RunningTypeOK /\ IInv => TypeOK
  BY DEF IInv, TypeOK, RunningTypeOK
<1>4. Spec => []IInv
  BY Invariance
<1>5. Spec => []RunningTypeOK
  BY <1>1, <1>2, PTL DEF Spec
<1> QED
  BY <1>3, <1>4, <1>5, PTL

(* However transfers overlap and connections break, a session has at most  *)
(* one async_write of data under way, and writeDataToSocket and its        *)
(* completion never take the front of an empty deque.                      *)
THEOREM ChainSafe == Spec => []OneChain
<1>1. IInv => OneChain
  BY DEF IInv
<1> QED
  BY <1>1, Invariance, PTL

-----------------------------------------------------------------------------
(* Memory.  What is in a sequence is counted by its places.                *)

Places(q, G) == {i \in DOMAIN q : q[i] \in G}
Count(q, G) == Cardinality(Places(q, G))

LEMMA PlacesFinite ==
  ASSUME NEW S, NEW q \in Seq(S), NEW G
  PROVE  IsFiniteSet(Places(q, G)) /\ Count(q, G) \in Nat
<1>1. IsFiniteSet(1 .. Len(q))
  BY FS_Interval
<1>2. Places(q, G) \subseteq 1 .. Len(q)
  BY DEF Places
<1>3. IsFiniteSet(Places(q, G))
  BY <1>1, <1>2, FS_Subset
<1> QED
  BY <1>3, FS_CardinalityType DEF Count

LEMMA CountAppend ==
  ASSUME NEW S, NEW q \in Seq(S), NEW x \in S, NEW G
  PROVE  Count(Append(q, x), G) = IF x \in G THEN Count(q, G) + 1 ELSE Count(q, G)
<1>1. PICK l \in Nat : l = Len(q) /\ DOMAIN q = 1 .. l
  OBVIOUS
<1>2. /\ DOMAIN Append(q, x) = 1 .. (l + 1)
      /\ \A i \in 1 .. l : Append(q, x)[i] = q[i]
      /\ Append(q, x)[l + 1] = x
  BY <1>1
<1>3. IsFiniteSet(Places(q, G)) /\ Count(q, G) \in Nat
  BY PlacesFinite
<1>6. l + 1 \notin Places(q, G)
  BY <1>1 DEF Places
<1>4. CASE x \in G
  <2>1. Places(Append(q, x), G) = Places(q, G) \cup {l + 1}
    BY <1>1, <1>2, <1>4 DEF Places
  <2>2. Cardinality(Places(q, G) \cup {l + 1}) = Cardinality(Places(q, G)) + 1
    <3> DEFINE P == Places(q, G)
               j == l + 1
    <3>1. IsFiniteSet(P) /\ j \notin P
      BY <1>3, <1>6
    <3> HIDE DEF P, j
    <3>2. Cardinality(P \cup {j}) = Cardinality(P) + 1
      BY <3>1, FS_AddElement
    <3> QED
      BY <3>2 DEF P, j
  <2> QED
    BY <1>4, <2>1, <2>2 DEF Count
<1>5. CASE x \notin G
  <2>1. Places(Append(q, x), G) = Places(q, G)
    BY <1>1, <1>2, <1>5 DEF Places
  <2> QED
    BY <1>5, <2>1 DEF Count
<1> QED
  BY <1>4, <1>5

LEMMA CountTail ==
  ASSUME NEW S, NEW q \in Seq(S), q # <<>>, NEW G
  PROVE  Count(q, G) = IF Head(q) \in G THEN Count(Tail(q), G) + 1 ELSE Count(Tail(q), G)
<1>1. /\ DOMAIN q = 1 .. Len(q) /\ Len(q) \in Nat /\ Len(q) >= 1
      /\ DOMAIN Tail(q) = 1 .. (Len(q) - 1)
      /\ \A i \in 1 .. (Len(q) - 1) : Tail(q)[i] = q[i + 1]
      /\ Head(q) = q[1] /\ Tail(q) \in Seq(S)
  OBVIOUS
<1>2. PICK l \in Nat : l = Len(q) - 1 /\ Len(q) = l + 1
  <2>1. Len(q) - 1 \in Nat /\ Len(q) = (Len(q) - 1) + 1
    BY <1>1
  <2> WITNESS Len(q) - 1 \in Nat
  <2> QED
    BY <2>1, Zenon
<1> DEFINE A == Places(Tail(q), G)
           B == Places(q, G) \ {1}
           f == [i \in A |-> i + 1]
<1>3. /\ A = {i \in 1 .. l : q[i + 1] \in G}
      /\ B = {i \in 1 .. (l + 1) : i # 1 /\ q[i] \in G}
  BY <1>1, <1>2 DEF Places
<1>4. f \in Bijection(A, B)
  <2>1. \A i \in A : i + 1 \in B
    BY <1>2, <1>3
  <2>2. \A j \in B : j - 1 \in A /\ (j - 1) + 1 = j
    BY <1>2, <1>3
  <2>3. \A i, j \in A : i + 1 = j + 1 => i = j
    BY <1>3
  <2> HIDE DEF A, B
  <2>4. f \in [A -> B]
    BY <2>1
  <2>5. f \in Injection(A, B)
    <3>1. \A a, b \in A : f[a] = f[b] => a = b
      BY <2>3
    <3> HIDE DEF f
    <3> QED
      BY <2>4, <3>1 DEF Injection, IsInjective
  <2>6. \A j \in B : \E i \in A : f[i] = j
    <3> TAKE j \in B
    <3>1. j - 1 \in A /\ f[j - 1] = j
      BY <2>2
    <3> QED
      BY <3>1
  <2>7. f \in Surjection(A, B)
    <3> HIDE DEF f
    <3> QED
      BY <2>4, <2>6 DEF Surjection
  <2> QED
    BY <2>5, <2>7 DEF Bijection
<1>5. Cardinality(B) = Cardinality(A)
  <2>1. IsFiniteSet(A)
    BY <1>1, PlacesFinite
  <2>2. ExistsBijection(A, B)
    BY <1>4 DEF ExistsBijection
  <2> HIDE DEF A, B
  <2> QED
    BY <2>1, <2>2, FS_Bijection
<1>6. IsFiniteSet(Places(q, G)) /\ Count(q, G) \in Nat
  BY PlacesFinite
<1>7. 1 \in Places(q, G) <=> Head(q) \in G
  BY <1>1 DEF Places
<1>8. Cardinality(B) = IF 1 \in Places(q, G) THEN Count(q, G) - 1 ELSE Count(q, G)
  BY <1>6, FS_RemoveElement DEF Count
<1> QED
  BY <1>5, <1>6, <1>7, <1>8 DEF Count

-----------------------------------------------------------------------------
(* Every file that was accepted may have three buffers, every listing one. *)

(* Accepts are waited for by transfers that are not accepted, each once... *)
PendingApart ==
  /\ \A i \in DOMAIN pending : state[pending[i]] = "accepting"
  /\ \A i, j \in DOMAIN pending : pending[i] = pending[j] => i = j

(* ...and only the others have anything to post.                           *)
Posting ==
  \A t \in Transfers : toPost[t] > 0 =>
    state[t] = "accepted" /\ (t \notin Files => toPost[t] <= 2)

(* What is being written, or just was, is data: one buffer is released     *)
(* for each that fetchMore reads.                                          *)
WritesData ==
  writing # {} \/ (\E i \in DOMAIN bufStrand : bufStrand[i].op = "done")
    => Head(dataBuffer) # Null

(* A listing that is not yet posted counts, like a read to start. *)
Listings == {t \in Transfers \ Files : toPost[t] = 2}
Bringing == {h \in Handlers : h.op = "add" /\ h.data # Null}

Load ==
  Cardinality(ReadsToStart) + Len(fileStrand) + Cardinality(Listings)
    + Count(dataBuffer, Buffers) + Count(bufStrand, Bringing)
Room == 3 * Cardinality(Accepted \cap Files) + Cardinality(Accepted \ Files)

MInv == PendingApart /\ Posting /\ WritesData /\ IsFiniteSet(Accepted) /\ Load <= Room

(* All that is counted is finite. *)
LEMMA Finite ==
  ASSUME Posting, IsFiniteSet(Accepted), ReadTypeOK, ChainTypeOK, AcceptTypeOK
  PROVE  /\ IsFiniteSet(ReadsToStart) /\ Cardinality(ReadsToStart) \in Nat
         /\ IsFiniteSet(Listings) /\ Cardinality(Listings) \in Nat
         /\ IsFiniteSet(Accepted \cap Files) /\ Cardinality(Accepted \cap Files) \in Nat
         /\ IsFiniteSet(Accepted \ Files) /\ Cardinality(Accepted \ Files) \in Nat
         /\ Count(dataBuffer, Buffers) \in Nat /\ Count(bufStrand, Bringing) \in Nat
         /\ Len(fileStrand) \in Nat
<1>1. IsFiniteSet(Accepted \X (1 .. 3))
  <2>1. IsFiniteSet(1 .. 3)
    <3>1. 1 \in Int /\ 3 \in Int
      OBVIOUS
    <3>2. \A m, n \in Int : IsFiniteSet(m .. n)
      BY FS_Interval
    <3> QED
      BY <3>1, <3>2
  <2> QED
    BY <2>1, FS_Product
<1>2. ReadsToStart \subseteq Accepted \X (1 .. 3)
  <2> SUFFICES ASSUME NEW r \in ReadsToStart PROVE r \in Accepted \X (1 .. 3)
    OBVIOUS
  <2>1. PICK t \in Files, n \in 1 .. 3 : r = <<t, n>> /\ n <= toPost[t]
    BY DEF ReadsToStart
  <2>2. t \in Transfers /\ toPost[t] \in 0 .. 3
    BY DataSendAssumption DEF AcceptTypeOK
  <2>3. t \in Accepted
    BY <2>1, <2>2 DEF Posting, Accepted
  <2> QED
    BY <2>1, <2>3
<1>3. Listings \subseteq Accepted
  BY DEF Listings, Posting, Accepted
<1>4. /\ IsFiniteSet(ReadsToStart) /\ IsFiniteSet(Listings)
      /\ IsFiniteSet(Accepted \cap Files) /\ IsFiniteSet(Accepted \ Files)
  <2>1. IsFiniteSet(ReadsToStart)
    BY <1>1, <1>2, FS_Subset
  <2>2. IsFiniteSet(Listings)
    BY <1>3, FS_Subset
  <2>3. Accepted \cap Files \subseteq Accepted /\ Accepted \ Files \subseteq Accepted
    OBVIOUS
  <2> QED
    BY <2>1, <2>2, <2>3, FS_Subset
<1>5. Count(dataBuffer, Buffers) \in Nat /\ Count(bufStrand, Bringing) \in Nat
  BY PlacesFinite DEF ChainTypeOK
<1>6. Len(fileStrand) \in Nat
  BY DEF ReadTypeOK
<1> QED
  BY <1>4, <1>5, <1>6, FS_CardinalityType

LEMMA InitMInv == Init => MInv
<1> SUFFICES ASSUME Init PROVE MInv
  OBVIOUS
<1>1. PendingApart /\ Posting /\ WritesData
  BY DEF Init, PendingApart, Posting, WritesData
<1>2. Accepted = {} /\ Listings = {} /\ ReadsToStart = {}
  <2>1. Accepted = {} /\ Listings = {}
    BY DEF Init, Accepted, Listings
  <2>2. ReadsToStart = {}
    <3>1. \A r \in Files \X (1 .. 3) : r[1] \in Transfers /\ r[2] > 0
      BY DataSendAssumption
    <3> QED
      BY <3>1 DEF Init, ReadsToStart
  <2> QED
    BY <2>1, <2>2
<1>3. Places(dataBuffer, Buffers) = {} /\ Places(bufStrand, Bringing) = {}
  BY DEF Init, Places
<1>4. Accepted \cap Files = {} /\ Accepted \ Files = {} /\ Len(fileStrand) = 0
  BY <1>2 DEF Init
<1>5. Load = 0 /\ Room = 0
  BY <1>2, <1>3, <1>4, FS_EmptySet DEF Load, Room, Count
<1> QED
  BY <1>1, <1>2, <1>5, FS_EmptySet DEF MInv

(* What can be accepted or has something to post changes little.           *)
LEMMA StepPosting ==
  IInv /\ PendingApart /\ Posting /\ [Work]_workVars => PendingApart' /\ Posting'
<1> SUFFICES ASSUME IInv, PendingApart, Posting, [Work]_workVars
             PROVE  PendingApart' /\ Posting'
  OBVIOUS
<1>t. /\ state \in [Transfers -> States] /\ pending \in Seq(Transfers)
      /\ toPost \in [Transfers -> 0 .. 3]
  BY DEF IInv, WorkTypeOK, AcceptTypeOK
<1>1. ASSUME NEW t \in Transfers, RETR(t) \/ LIST(t)
      PROVE  PendingApart' /\ Posting'
  <2>1. state[t] = "unused" /\ UNCHANGED toPost
    BY <1>1 DEF RETR, LIST, MayIssue, AsyncAccept
  <2>2. \A u \in Transfers : u # t => state'[u] = state[u]
    BY <1>1, <1>t DEF RETR, LIST, AsyncAccept
  <2>3. \A i \in DOMAIN pending : pending[i] \in Transfers /\ pending[i] # t
    BY <1>t, <2>1 DEF PendingApart
  <2>4. \/ UNCHANGED pending
        \/ pending' = Append(pending, t) /\ state'[t] = "accepting"
    BY <1>1, <1>t DEF RETR, LIST, AsyncAccept
  <2>5. Posting'
    BY <2>1, <2>2 DEF Posting
  <2>6. CASE UNCHANGED pending
    BY <2>2, <2>3, <2>5, <2>6 DEF PendingApart
  <2>7. CASE pending' = Append(pending, t) /\ state'[t] = "accepting"
    <3>1. \A i \in DOMAIN pending' :
            \/ i \in DOMAIN pending /\ pending'[i] = pending[i]
            \/ i = Len(pending) + 1 /\ pending'[i] = t
      BY <1>t, <2>7
    <3> QED
      BY <2>2, <2>3, <2>5, <2>7, <3>1 DEF PendingApart
  <2> QED
    BY <2>4, <2>6, <2>7
<1>2. ASSUME Accept \/ AcceptError PROVE PendingApart' /\ Posting'
  <2>1. PICK t \in Transfers : t = Head(pending) /\ pending # <<>>
    BY <1>2, <1>t DEF Accept, AcceptError
  <2>2. /\ pending' = Tail(pending)
        /\ \A u \in Transfers : u # t => state'[u] = state[u] /\ toPost'[u] = toPost[u]
    BY <1>2, <1>t, <2>1 DEF Accept, AcceptError
  <2>3. /\ \A i \in DOMAIN Tail(pending) : /\ i \in Nat /\ i + 1 \in DOMAIN pending /\ i + 1 # 1
                                           /\ Tail(pending)[i] = pending[i + 1]
        /\ pending[1] = t /\ 1 \in DOMAIN pending
    BY <1>t, <2>1
  <2>4. \A i \in DOMAIN pending' : pending'[i] \in Transfers /\ pending'[i] # t
    BY <1>t, <2>2, <2>3 DEF PendingApart
  <2>5. PendingApart'
    <3>1. \A i \in DOMAIN pending' : state'[pending'[i]] = "accepting"
      BY <2>2, <2>3, <2>4 DEF PendingApart
    <3>2. \A i, j \in DOMAIN pending' : pending'[i] = pending'[j] => i = j
      <4> SUFFICES ASSUME NEW i \in DOMAIN pending', NEW j \in DOMAIN pending',
                          pending'[i] = pending'[j]
                   PROVE  i = j
        OBVIOUS
      <4>1. i + 1 = j + 1 /\ i \in Nat /\ j \in Nat
        BY <2>2, <2>3 DEF PendingApart
      <4> QED
        BY <4>1
    <3> QED
      BY <3>1, <3>2 DEF PendingApart
  <2>6. toPost'[t] > 0 => state'[t] = "accepted" /\ (t \notin Files => toPost'[t] <= 2)
    <3>1. CASE Accept
      BY <1>t, <2>1, <3>1 DEF Accept
    <3>2. CASE AcceptError
      <4>1. toPost' = toPost /\ state[t] = "accepting" /\ toPost[t] \in 0 .. 3
        BY <1>t, <2>1, <2>3, <3>2 DEF AcceptError, PendingApart
      <4>2. toPost[t] = 0
        BY <4>1 DEF Posting
      <4> QED
        BY <4>1, <4>2
    <3> QED
      BY <1>2, <3>1, <3>2
  <2> QED
    BY <2>2, <2>5, <2>6 DEF Posting
<1>3. CASE PASV
  <2>1. pending' = <<>> /\ UNCHANGED toPost
        /\ \A t \in Transfers : state[t] # "accepting" => state'[t] = state[t]
    BY <1>3, <1>t DEF PASV
  <2> QED
    BY <2>1 DEF PendingApart, Posting
<1>4. ASSUME NEW t \in Transfers, Refused(t) \/ AcceptFailed(t)
      PROVE  PendingApart' /\ Posting'
  <2>1. /\ state[t] \in {"unused", "failed"} /\ UNCHANGED <<pending, toPost>>
        /\ \A u \in Transfers : u # t => state'[u] = state[u]
    BY <1>4, <1>t DEF Refused, RETRRefused, LISTRefused, Refuse, AcceptFailed, MayIssue
  <2>2. \A i \in DOMAIN pending : pending[i] \in Transfers /\ pending[i] # t
    BY <1>t, <2>1 DEF PendingApart
  <2> QED
    BY <2>1, <2>2 DEF PendingApart, Posting
<1>5. ASSUME NEW t \in Transfers, PostNext(t) PROVE PendingApart' /\ Posting'
  <2>1. /\ UNCHANGED <<pending, state>> /\ toPost[t] \in 1 .. 3
        /\ toPost'[t] = toPost[t] - 1
        /\ \A u \in Transfers : u # t => toPost'[u] = toPost[u]
    BY <1>5, <1>t DEF PostNext
  <2>2. PendingApart'
    BY <2>1 DEF PendingApart
  <2>3. Posting'
    BY <2>1 DEF Posting
  <2> QED
    BY <2>2, <2>3
<1>6. CASE UNCHANGED <<pending, state, toPost>>
  BY <1>6 DEF PendingApart, Posting
<1>7. \/ \E t \in Transfers : RETR(t) \/ LIST(t) \/ Refused(t) \/ AcceptFailed(t)
                              \/ PostNext(t)
      \/ PASV \/ Accept \/ AcceptError
      \/ UNCHANGED <<pending, state, toPost>>
  BY DEF Work, Client, Refused, AcceptHandlers, FileStrand, BufStrand, Sockets, Break,
         ReadAtEof, ReadBuffer, PostEnd, AddData, WriteData, WriteEnd, WriteDone,
         WriteCompletes, workVars, acceptVars
<1> QED
  BY <1>1, <1>2, <1>3, <1>4, <1>5, <1>6, <1>7

(* What WriteData has found is data stays at the front till it is popped.  *)
LEMMA StepWritesData == IInv /\ WritesData /\ [Work]_workVars => WritesData'
<1> SUFFICES ASSUME IInv, WritesData, [Work]_workVars,
                    \/ writing' # {}
                    \/ \E i \in DOMAIN bufStrand' : bufStrand'[i].op = "done"
             PROVE  Head(dataBuffer)' # Null
  BY DEF WritesData
<1>t. /\ bufStrand \in Seq(Handlers) /\ dataBuffer \in Seq(Buffers \cup {Null})
      /\ OneChain
  BY DEF IInv, WorkTypeOK, ChainTypeOK
<1>1. ASSUME NEW h, h.op # "done", bufStrand' = Append(bufStrand, h),
             h \in Handlers, UNCHANGED <<dataBuffer, writing>>
      PROVE  Head(dataBuffer)' # Null
  <2>1. \A i \in DOMAIN bufStrand' :
          \/ i \in DOMAIN bufStrand /\ bufStrand'[i] = bufStrand[i]
          \/ bufStrand'[i] = h
    BY <1>1, <1>t
  <2> QED
    BY <1>1, <2>1 DEF WritesData
<1>2. CASE UNCHANGED <<bufStrand, dataBuffer, writing>>
  BY <1>2 DEF WritesData
<1>3. ASSUME bufStrand # <<>>
      PROVE  /\ Head(bufStrand) = bufStrand[1] /\ 1 \in DOMAIN bufStrand
             /\ \A i \in DOMAIN Tail(bufStrand) :
                  i + 1 \in DOMAIN bufStrand /\ i + 1 # 1
                  /\ Tail(bufStrand)[i] = bufStrand[i + 1]
  BY <1>3, <1>t
<1>4. CASE AddData
  <2> DEFINE h == Head(bufStrand)
  <2>1. /\ bufStrand # <<>> /\ h \in Handlers
        /\ dataBuffer' = Append(dataBuffer, h.data) /\ writing' = writing
        /\ \/ bufStrand' = Tail(bufStrand)
           \/ dataBuffer = <<>> /\ bufStrand' = Append(Tail(bufStrand), Write(h.of, h.more))
    BY <1>4, <1>t DEF AddData, Runs
  <2>2. h.data \in Buffers \cup {Null} /\ Write(h.of, h.more).op = "write"
    BY <2>1, HandlerTypes DEF Write
  <2>3. Tail(bufStrand) \in Seq(Handlers)
    BY <1>t, <2>1
  <2>4. \A i \in DOMAIN bufStrand' :
          bufStrand'[i].op = "done" =>
            \E j \in DOMAIN bufStrand : bufStrand[j].op = "done"
    <3>1. CASE bufStrand' = Tail(bufStrand)
      BY <1>3, <2>1, <3>1
    <3>2. CASE bufStrand' = Append(Tail(bufStrand), Write(h.of, h.more))
      <4>1. \A i \in DOMAIN bufStrand' :
              \/ i \in DOMAIN Tail(bufStrand) /\ bufStrand'[i] = Tail(bufStrand)[i]
              \/ bufStrand'[i] = Write(h.of, h.more)
        BY <2>3, <3>2
      <4> QED
        BY <1>3, <2>1, <2>2, <4>1
    <3> QED
      BY <2>1, <3>1, <3>2
  <2>5. writing # {} \/ \E j \in DOMAIN bufStrand : bufStrand[j].op = "done"
    BY <2>1, <2>4
  <2>6. Head(dataBuffer) # Null /\ dataBuffer # <<>>
    BY <1>t, <2>5 DEF WritesData, OneChain, InChain
  <2>7. Head(dataBuffer') = Head(dataBuffer)
    BY <1>t, <2>1, <2>2, <2>6
  <2> QED
    BY <2>6, <2>7
<1>5. CASE WriteData
  BY <1>5 DEF WriteData
<1>6. CASE WriteEnd \/ WriteDone
  <2>1. /\ bufStrand # <<>> /\ InChain(Head(bufStrand)) /\ writing' = writing
        /\ \/ bufStrand' = Tail(bufStrand)
           \/ \E h : h.op = "write" /\ h \in Handlers /\ bufStrand' = Append(Tail(bufStrand), h)
    <3>1. CASE WriteEnd
      BY <3>1 DEF WriteEnd, Runs, InChain
    <3>2. CASE WriteDone
      <4> DEFINE h == Head(bufStrand)
      <4>1. /\ bufStrand # <<>> /\ h.op = "done" /\ h \in Handlers /\ writing' = writing
            /\ \/ bufStrand' = Tail(bufStrand)
               \/ bufStrand' = Append(Tail(bufStrand), Write(h.of, h.more))
        <5>1. bufStrand # <<>> /\ h.op = "done" /\ writing' = writing
          BY <3>2 DEF WriteDone, Runs
        <5>2. h \in Handlers
          BY <1>t, <5>1
        <5>3. bufStrand' \in {Tail(bufStrand), Append(Tail(bufStrand), Write(h.of, h.more))}
          BY <3>2 DEF WriteDone
        <5> QED
          BY <5>1, <5>2, <5>3
      <4>2. Write(h.of, h.more) \in Handlers /\ Write(h.of, h.more).op = "write"
        BY <4>1, HandlerTypes DEF Write
      <4> QED
        BY <4>1, <4>2 DEF InChain
    <3> QED
      BY <1>6, <3>1, <3>2
  <2>2. writing = {}
    BY <1>3, <1>t, <2>1 DEF OneChain
  <2>3. \A i \in DOMAIN Tail(bufStrand) : Tail(bufStrand)[i].op # "done"
    BY <1>3, <1>t, <2>1 DEF OneChain, InChain
  <2>4. Tail(bufStrand) \in Seq(Handlers)
    BY <1>t, <2>1
  <2>5. \A i \in DOMAIN bufStrand' : bufStrand'[i].op # "done"
    <3>1. CASE bufStrand' = Tail(bufStrand)
      BY <2>3, <3>1
    <3>2. ASSUME NEW h, h.op = "write", h \in Handlers, bufStrand' = Append(Tail(bufStrand), h)
          PROVE  \A i \in DOMAIN bufStrand' : bufStrand'[i].op # "done"
      <4>1. \A i \in DOMAIN bufStrand' :
              \/ i \in DOMAIN Tail(bufStrand) /\ bufStrand'[i] = Tail(bufStrand)[i]
              \/ bufStrand'[i] = h
        BY <2>4, <3>2
      <4> QED
        BY <2>3, <3>2, <4>1
    <3> QED
      BY <2>1, <3>1, <3>2
  <2> QED
    BY <2>1, <2>2, <2>5
<1>7. ASSUME NEW w \in writing, WriteCompletes(w) PROVE Head(dataBuffer)' # Null
  BY <1>7 DEF WriteCompletes, WritesData
<1>8. ASSUME NEW t \in Transfers, PostNext(t) PROVE Head(dataBuffer)' # Null
  <2>1. UNCHANGED <<dataBuffer, writing>>
    BY <1>8 DEF PostNext
  <2>2. CASE t \in Files
    BY <1>8, <2>1, <2>2 DEF PostNext, WritesData
  <2>3. CASE t \notin Files
    <3> DEFINE h == Add(t, IF toPost[t] = 2 THEN Buffer(t, 1) ELSE Null, FALSE)
    <3>1. bufStrand' = Append(bufStrand, h)
      BY <1>8, <2>3 DEF PostNext
    <3>2. h \in Handlers /\ h.op # "done"
      BY HandlerTypes DEF Add
    <3> HIDE DEF h
    <3> QED
      BY <1>1, <2>1, <3>1, <3>2
  <2> QED
    BY <2>2, <2>3
<1>9. CASE ReadBuffer
  <2> DEFINE t == Head(fileStrand)
             h == Add(t, Buffer(t, pos'[t]), pos'[t] < BufferCount(t))
  <2>1. UNCHANGED <<dataBuffer, writing>> /\ bufStrand' = Append(bufStrand, h)
    BY <1>9 DEF ReadBuffer
  <2>2. h \in Handlers
    <3>1. t \in Files /\ t \in Transfers
      BY <1>9, HandlerTypes DEF ReadBuffer, IInv, WorkTypeOK, ReadTypeOK
    <3>2. pos'[t] \in Nat
      BY <1>9, <3>1 DEF ReadBuffer, IInv, WorkTypeOK, ReadTypeOK
    <3>3. BufferCount(t) \in Nat /\ (pos'[t] < BufferCount(t)) \in BOOLEAN
      BY <3>1, DataSendAssumption DEF BufferCount
    <3>4. Buffer(t, pos'[t]) \in Buffers
      BY <3>1, <3>2, HandlerTypes
    <3> QED
      BY <3>1, <3>3, <3>4, HandlerTypes, Zenon
  <2>3. h.op # "done"
    BY DEF Add
  <2> HIDE DEF h
  <2> QED
    BY <1>1, <2>1, <2>2, <2>3
<1>10. CASE PostEnd
  <2>1. /\ UNCHANGED <<dataBuffer, writing>>
        /\ bufStrand' = Append(bufStrand, Add(ending, Null, FALSE))
        /\ ending \in Transfers
    BY <1>10, HandlerTypes DEF PostEnd, IInv, WorkTypeOK, ReadTypeOK
  <2>2. Add(ending, Null, FALSE) \in Handlers /\ Add(ending, Null, FALSE).op # "done"
    BY <2>1, HandlerTypes DEF Add
  <2> QED
    BY <1>1, <2>1, <2>2
<1>11. \/ UNCHANGED <<bufStrand, dataBuffer, writing>>
       \/ AddData \/ WriteData \/ WriteEnd \/ WriteDone
       \/ \E w \in writing : WriteCompletes(w)
       \/ \E t \in Transfers : PostNext(t)
       \/ ReadBuffer \/ PostEnd
  BY DEF Work, Client, Refused, AcceptHandlers, FileStrand, BufStrand, Sockets, PASV, RETR,
         LIST, Refused, RETRRefused, LISTRefused, Refuse, AsyncAccept, Accept, AcceptError,
         AcceptFailed, Break,
         ReadAtEof, workVars, chainVars
<1> QED
  BY <1>2, <1>4, <1>5, <1>6, <1>7, <1>8, <1>9, <1>10, <1>11

(* A queue that loses its first member, and may gain one outside G. *)
LEMMA CountShift ==
  ASSUME NEW S, NEW q \in Seq(S), q # <<>>, NEW G, NEW x \in S, x \notin G,
         NEW p, p = Tail(q) \/ p = Append(Tail(q), x)
  PROVE  /\ Count(p, G) \in Nat
         /\ Count(q, G) = IF Head(q) \in G THEN Count(p, G) + 1 ELSE Count(p, G)
<1>1. Tail(q) \in Seq(S)
  OBVIOUS
<1>2. Count(Tail(q), G) \in Nat
  BY <1>1, PlacesFinite
<1>3. Count(Append(Tail(q), x), G) = Count(Tail(q), G)
  BY <1>1, CountAppend
<1>4. Count(q, G) = IF Head(q) \in G THEN Count(Tail(q), G) + 1 ELSE Count(Tail(q), G)
  BY CountTail
<1> QED
  BY <1>2, <1>3, <1>4

(* What brings a buffer, and what does not. *)
LEMMA WhoBrings ==
  /\ Null \notin Buffers
  /\ \A h \in Handlers : h \in Bringing <=> h.op = "add" /\ h.data \in Buffers
  /\ \A t, more : Write(t, more) \notin Bringing
  /\ \A t, more, ok : Done(t, more, ok) \notin Bringing
  /\ \A t, more : Add(t, Null, more) \notin Bringing
<1>1. Null \notin Buffers
  BY DataSendAssumption DEF Buffers
<1>2. \A h \in Handlers : h.data \in Buffers \cup {Null}
  BY HandlerTypes
<1>3. /\ \A t, more : Write(t, more).op = "write"
      /\ \A t, more, ok : Done(t, more, ok).op = "done"
      /\ \A t, more : Add(t, Null, more).data = Null
  BY DEF Write, Done, Add
<1> QED
  BY <1>1, <1>2, <1>3 DEF Bringing

(* Steps that only move buffers and reads along. *)
Moving == Len(fileStrand) + Count(dataBuffer, Buffers) + Count(bufStrand, Bringing)

LEMMA MovingNat == IInv => Moving \in Nat
<1> SUFFICES ASSUME IInv PROVE Moving \in Nat
  OBVIOUS
<1>1. Count(dataBuffer, Buffers) \in Nat
  BY PlacesFinite DEF IInv, WorkTypeOK, ChainTypeOK
<1>2. Count(bufStrand, Bringing) \in Nat
  BY PlacesFinite DEF IInv, WorkTypeOK, ChainTypeOK
<1>3. Len(fileStrand) \in Nat
  BY DEF IInv, WorkTypeOK, ReadTypeOK
<1> QED
  BY <1>1, <1>2, <1>3 DEF Moving

LEMMA LoadIsMoving ==
  IInv => Load = Cardinality(ReadsToStart) + Cardinality(Listings) + Moving
          \/ ~(Posting /\ IsFiniteSet(Accepted))
<1> SUFFICES ASSUME IInv, Posting, IsFiniteSet(Accepted)
             PROVE  Load = Cardinality(ReadsToStart) + Cardinality(Listings) + Moving
  OBVIOUS
<1>1. PICK r \in Nat, l \in Nat, f \in Nat, d \in Nat, b \in Nat :
        /\ r = Cardinality(ReadsToStart) /\ l = Cardinality(Listings)
        /\ f = Len(fileStrand)
        /\ d = Count(dataBuffer, Buffers) /\ b = Count(bufStrand, Bringing)
  BY Finite DEF IInv, WorkTypeOK
<1>2. Load = r + f + l + d + b /\ Moving = f + d + b
  BY <1>1 DEF Load, Moving
<1>3. Load = r + l + Moving
  BY <1>2
<1> QED
  BY <1>1, <1>3

LEMMA StepMoving ==
  ASSUME IInv, IInv', MInv, UNCHANGED <<state, toPost>>, Moving' <= Moving
  PROVE  IsFiniteSet(Accepted)' /\ (Load <= Room)'
<1>1. /\ ReadsToStart' = ReadsToStart /\ Listings' = Listings /\ Accepted' = Accepted
      /\ Posting'
  BY DEF ReadsToStart, Listings, Accepted, MInv, Posting
<1>2. IsFiniteSet(Accepted) /\ IsFiniteSet(Accepted)' /\ Room' = Room
  BY <1>1 DEF MInv, Room
<1>3. Moving \in Nat /\ Moving' \in Nat
  <2>1. Moving \in Nat
    BY MovingNat
  <2>2. (IInv => Moving \in Nat)'
    BY MovingNat, PTL
  <2> QED
    BY <2>1, <2>2
<1>4. Load = Cardinality(ReadsToStart) + Cardinality(Listings) + Moving
  BY <1>2, LoadIsMoving DEF MInv
<1>5. Load' = Cardinality(ReadsToStart) + Cardinality(Listings) + Moving'
  <2>1. (IInv => Load = Cardinality(ReadsToStart) + Cardinality(Listings) + Moving
                 \/ ~(Posting /\ IsFiniteSet(Accepted)))'
    BY LoadIsMoving, PTL
  <2> QED
    BY <1>1, <1>2, <2>1
<1>6. /\ Cardinality(ReadsToStart) \in Nat /\ Cardinality(Listings) \in Nat
      /\ Room \in Nat
  <2>1. PICK m \in Nat, n \in Nat :
          m = Cardinality(Accepted \cap Files) /\ n = Cardinality(Accepted \ Files)
    BY Finite DEF IInv, WorkTypeOK, MInv
  <2>2. Room = 3 * m + n
    BY <2>1 DEF Room
  <2> QED
    BY <2>2, Finite DEF IInv, WorkTypeOK, MInv
<1>7. Load <= Room
  BY DEF MInv
<1> HIDE DEF Load, Room, Moving
<1>8. Load' <= Load /\ Load \in Nat /\ Load' \in Nat
  BY <1>3, <1>4, <1>5, <1>6
<1>9. Load' <= Room'
  BY <1>2, <1>6, <1>7, <1>8
<1> QED
  BY <1>2, <1>9

(* The strands and the sockets move what is there: fetchMore reads one     *)
(* buffer for one that is released.                                        *)
LEMMA StepFlow ==
  IInv /\ MInv /\ (FileStrand \/ BufStrand \/ Sockets) => Moving' <= Moving
<1> SUFFICES ASSUME IInv, MInv, FileStrand \/ BufStrand \/ Sockets
             PROVE  Moving' <= Moving
  OBVIOUS
<1>t. /\ bufStrand \in Seq(Handlers) /\ dataBuffer \in Seq(Buffers \cup {Null})
      /\ fileStrand \in Seq(Files) /\ OneChain /\ WritesData
  BY DEF IInv, MInv, WorkTypeOK, ChainTypeOK, ReadTypeOK
<1> DEFINE f == Len(fileStrand)
           d == Count(dataBuffer, Buffers)
           b == Count(bufStrand, Bringing)
<1>n. f \in Nat /\ d \in Nat /\ b \in Nat
  <2>1. d \in Nat
    BY <1>t, PlacesFinite
  <2>2. b \in Nat
    BY <1>t, PlacesFinite
  <2> QED
    BY <1>t, <2>1, <2>2
<1>h. ASSUME bufStrand # <<>>
      PROVE  Head(bufStrand) \in Handlers /\ Head(bufStrand) = bufStrand[1]
             /\ 1 \in DOMAIN bufStrand
  BY <1>t, <1>h
<1>1. CASE ReadAtEof
  <2>1. f' = f - 1
    BY <1>1, <1>t DEF ReadAtEof
  <2>2. d' = d /\ b' = b
    BY <1>1 DEF ReadAtEof, chainVars
  <2> HIDE DEF f, d, b
  <2>3. f' + d' + b' <= f + d + b
    BY <1>n, <2>1, <2>2
  <2> QED
    BY <2>3 DEF Moving, f, d, b
<1>2. CASE ReadBuffer
  <2> DEFINE t == Head(fileStrand)
             h == Add(t, Buffer(t, pos'[t]), pos'[t] < BufferCount(t))
  <2>1. f' = f - 1
    BY <1>2, <1>t DEF ReadBuffer
  <2>2. d' = d /\ bufStrand' = Append(bufStrand, h)
    BY <1>2 DEF ReadBuffer
  <2>3. h \in Handlers
    <3>1. t \in Files /\ t \in Transfers
      BY <1>2, HandlerTypes DEF ReadBuffer, IInv, WorkTypeOK, ReadTypeOK
    <3>2. pos'[t] \in Nat
      BY <1>2, <3>1 DEF ReadBuffer, IInv, WorkTypeOK, ReadTypeOK
    <3>3. BufferCount(t) \in Nat /\ (pos'[t] < BufferCount(t)) \in BOOLEAN
      BY <3>1, DataSendAssumption DEF BufferCount
    <3>4. Buffer(t, pos'[t]) \in Buffers
      BY <3>1, <3>2, HandlerTypes
    <3> QED
      BY <3>1, <3>3, <3>4, HandlerTypes, Zenon
  <2> HIDE DEF h
  <2>4. b' = b \/ b' = b + 1
    BY <1>t, <2>2, <2>3, CountAppend
  <2> HIDE DEF f, d, b
  <2>5. f' + d' + b' <= f + d + b
    BY <1>n, <2>1, <2>2, <2>4
  <2> QED
    BY <2>5 DEF Moving, f, d, b
<1>3. CASE PostEnd
  <2> DEFINE h == Add(ending, Null, FALSE)
  <2>1. f' = f /\ d' = d /\ bufStrand' = Append(bufStrand, h)
    BY <1>3 DEF PostEnd
  <2>2. h \in Handlers
    BY <1>3, HandlerTypes DEF PostEnd, IInv, WorkTypeOK, ReadTypeOK
  <2>3. h \notin Bringing
    BY WhoBrings
  <2> HIDE DEF h
  <2>4. b' = b
    BY <1>t, <2>1, <2>2, <2>3, CountAppend
  <2> HIDE DEF f, d, b
  <2>5. f' + d' + b' <= f + d + b
    BY <1>n, <2>1, <2>4
  <2> QED
    BY <2>5 DEF Moving, f, d, b
<1>4. CASE AddData
  <2> DEFINE h == Head(bufStrand)
             x == Write(h.of, h.more)
  <2>1. /\ bufStrand # <<>> /\ h \in Handlers /\ h.op = "add"
        /\ dataBuffer' = Append(dataBuffer, h.data) /\ f' = f
        /\ bufStrand' = Tail(bufStrand) \/ bufStrand' = Append(Tail(bufStrand), x)
    BY <1>4, <1>h DEF AddData, Runs, readVars
  <2>2. x \in Handlers /\ x \notin Bringing
    BY <2>1, HandlerTypes, WhoBrings
  <2>3. h.data \in Buffers \cup {Null} /\ (h \in Bringing <=> h.data \in Buffers)
    BY <2>1, HandlerTypes, WhoBrings
  <2> HIDE DEF x
  <2>4. b' \in Nat /\ b = IF h \in Bringing THEN b' + 1 ELSE b'
    BY <1>t, <2>1, <2>2, CountShift
  <2>5. d' = IF h.data \in Buffers THEN d + 1 ELSE d
    BY <1>t, <2>1, <2>3, CountAppend
  <2>7. f' = f
    BY <2>1
  <2> HIDE DEF f, d, b, h
  <2>8. CASE h \in Bringing
    <3>1. d' = d + 1 /\ b = b' + 1
      BY <2>3, <2>4, <2>5, <2>8
    <3> QED
      BY <1>n, <2>4, <2>7, <3>1 DEF Moving, f, d, b
  <2>9. CASE h \notin Bringing
    <3>1. d' = d /\ b = b'
      BY <2>3, <2>4, <2>5, <2>9
    <3> QED
      BY <1>n, <2>4, <2>7, <3>1 DEF Moving, f, d, b
  <2> QED
    BY <2>8, <2>9
<1>5. CASE WriteData
  <2> DEFINE h == Head(bufStrand)
  <2>1. /\ bufStrand # <<>> /\ h \in Handlers /\ h.op = "write"
        /\ f' = f /\ d' = d /\ bufStrand' = Tail(bufStrand)
    BY <1>5, <1>h DEF WriteData, Runs, readVars
  <2>2. h \notin Bringing
    BY <2>1 DEF Bringing
  <2> HIDE DEF h
  <2>3. b' = b
    BY <1>t, <2>1, <2>2, CountTail DEF h
  <2> HIDE DEF f, d, b
  <2>4. f' + d' + b' <= f + d + b
    BY <1>n, <2>1, <2>3
  <2> QED
    BY <2>4 DEF Moving, f, d, b
<1>6. CASE WriteEnd
  <2> DEFINE h == Head(bufStrand)
  <2>1. /\ bufStrand # <<>> /\ h \in Handlers /\ h.op = "write"
        /\ f' = f /\ bufStrand' = Tail(bufStrand)
        /\ dataBuffer' = Tail(dataBuffer) /\ Head(dataBuffer) = Null
    BY <1>6, <1>h DEF WriteEnd, Runs, readVars
  <2>2. h \notin Bringing /\ dataBuffer # <<>>
    BY <1>h, <1>t, <2>1 DEF Bringing, OneChain, InChain
  <2>3. Null \notin Buffers
    BY WhoBrings
  <2> HIDE DEF h
  <2>4. b' = b
    BY <1>t, <2>1, <2>2, CountTail DEF h
  <2>5. d' = d
    BY <1>t, <2>1, <2>2, <2>3, CountTail
  <2> HIDE DEF f, d, b
  <2>6. f' + d' + b' <= f + d + b
    BY <1>n, <2>1, <2>4, <2>5
  <2> QED
    BY <2>6 DEF Moving, f, d, b
<1>7. CASE WriteDone
  <2> DEFINE h == Head(bufStrand)
             x == Write(h.of, h.more)
  <2>1. /\ bufStrand # <<>> /\ h \in Handlers /\ h.op = "done"
        /\ dataBuffer' = Tail(dataBuffer)
        /\ bufStrand' = Tail(bufStrand) \/ bufStrand' = Append(Tail(bufStrand), x)
    BY <1>7, <1>h DEF WriteDone, Runs
  <2>2. x \in Handlers /\ x \notin Bringing
    BY <2>1, HandlerTypes, WhoBrings
  <2>3. h \notin Bringing
    BY <2>1 DEF Bringing
  <2>4. f' = f \/ f' = f + 1
    <3>1. h.more => h.of \in Files
      BY <2>1, HandlerTypes
    <3>2. fileStrand' = IF h.ok /\ h.more THEN Append(fileStrand, h.of) ELSE fileStrand
      BY <1>7 DEF WriteDone
    <3> HIDE DEF h
    <3> QED
      BY <1>t, <3>1, <3>2
  <2>5. dataBuffer # <<>> /\ Head(dataBuffer) # Null
    BY <1>h, <1>t, <2>1 DEF OneChain, InChain, WritesData
  <2>6. Head(dataBuffer) \in Buffers
    BY <1>t, <2>5
  <2> HIDE DEF x
  <2>7. b' = b
    BY <1>t, <2>1, <2>2, <2>3, CountShift
  <2>8. d' \in Nat /\ d = d' + 1
    <3>1. Tail(dataBuffer) \in Seq(Buffers \cup {Null})
      BY <1>t, <2>5
    <3>2. Count(Tail(dataBuffer), Buffers) \in Nat
      BY <3>1, PlacesFinite
    <3>3. d = Count(Tail(dataBuffer), Buffers) + 1
      BY <1>t, <2>5, <2>6, CountTail
    <3> QED
      BY <2>1, <3>2, <3>3
  <2> HIDE DEF f, d, b, h
  <2>9. f' + d' + b' <= f + d + b
    BY <1>n, <2>4, <2>7, <2>8
  <2> QED
    BY <2>9 DEF Moving, f, d, b
<1>8. ASSUME NEW w \in writing, WriteCompletes(w) PROVE Moving' <= Moving
  <2> DEFINE h == Done(w.of, w.more, w.of \notin broken)
  <2>1. f' = f /\ d' = d /\ bufStrand' = Append(bufStrand, h)
    BY <1>8 DEF WriteCompletes, readVars
  <2>2. h \in Handlers
    <3>1. w \in Writes /\ (w.of \notin broken) \in BOOLEAN
      BY DEF IInv, WorkTypeOK, ChainTypeOK
    <3> QED
      BY <3>1, HandlerTypes, Zenon
  <2>3. h \notin Bringing
    BY WhoBrings
  <2> HIDE DEF h
  <2>4. b' = b
    BY <1>t, <2>1, <2>2, <2>3, CountAppend
  <2> HIDE DEF f, d, b
  <2>5. f' + d' + b' <= f + d + b
    BY <1>n, <2>1, <2>4
  <2> QED
    BY <2>5 DEF Moving, f, d, b
<1> QED
  BY <1>1, <1>2, <1>3, <1>4, <1>5, <1>6, <1>7, <1>8 DEF FileStrand, BufStrand, Sockets

(* A call of an accept handler: a read to start becomes a read posted, a   *)
(* listing to post one that is.                                            *)
LEMMA StepPosted ==
  ASSUME IInv, MInv, NEW t \in Transfers, PostNext(t)
  PROVE  IsFiniteSet(Accepted)' /\ (Load <= Room)'
<1> DEFINE n == toPost[t]
<1>t. /\ toPost \in [Transfers -> 0 .. 3] /\ bufStrand \in Seq(Handlers)
      /\ fileStrand \in Seq(Files)
  BY DEF IInv, WorkTypeOK, AcceptTypeOK, ChainTypeOK, ReadTypeOK
<1>1. /\ n \in 1 .. 3 /\ toPost'[t] = n - 1
      /\ \A u \in Transfers : u # t => toPost'[u] = toPost[u]
      /\ UNCHANGED <<state, dataBuffer>>
  BY <1>t DEF PostNext
<1>2. Accepted' = Accepted /\ Room' = Room /\ IsFiniteSet(Accepted)'
  BY <1>1 DEF Accepted, Room, MInv
<1>3. PICK r \in Nat, l \in Nat, f \in Nat, d \in Nat, b \in Nat, m \in Nat, k \in Nat :
        /\ r = Cardinality(ReadsToStart) /\ l = Cardinality(Listings)
        /\ f = Len(fileStrand)
        /\ d = Count(dataBuffer, Buffers) /\ b = Count(bufStrand, Bringing)
        /\ m = Cardinality(Accepted \cap Files) /\ k = Cardinality(Accepted \ Files)
  BY Finite DEF IInv, WorkTypeOK, MInv
<1>4. r + f + l + d + b <= 3 * m + k
  BY <1>3 DEF MInv, Load, Room
<1>5. IsFiniteSet(ReadsToStart) /\ IsFiniteSet(Listings)
  BY Finite DEF IInv, WorkTypeOK, MInv
<1>6. Room' = 3 * m + k /\ Count(dataBuffer, Buffers)' = d
  BY <1>1, <1>2, <1>3 DEF Room
<1>7. CASE t \in Files
  <2>1. ReadsToStart' = ReadsToStart \ {<<t, n>>} /\ <<t, n>> \in ReadsToStart
    <3>1. \A u \in Files, i \in 1 .. 3 :
            (i <= toPost'[u]) <=> (i <= toPost[u] /\ ~(u = t /\ i = n))
      BY <1>t, <1>1, DataSendAssumption
    <3>2. ReadsToStart' = {q \in Files \X (1 .. 3) : q[2] <= toPost'[q[1]]}
      BY DEF ReadsToStart
    <3>3. \A q \in Files \X (1 .. 3) :
            /\ q[1] \in Files /\ q[2] \in 1 .. 3
            /\ q = <<t, n>> <=> q[1] = t /\ q[2] = n
      OBVIOUS
    <3>4. <<t, n>> \in Files \X (1 .. 3) /\ <<t, n>>[1] = t /\ <<t, n>>[2] = n /\ n <= n
      BY <1>1, <1>7
    <3> HIDE DEF n
    <3>5. ReadsToStart' = ReadsToStart \ {<<t, n>>}
      BY <3>1, <3>2, <3>3 DEF ReadsToStart
    <3>6. <<t, n>> \in ReadsToStart
      BY <3>4 DEF ReadsToStart, n
    <3> QED
      BY <3>5, <3>6
  <2>2. Cardinality(ReadsToStart)' = r - 1
    BY <1>3, <1>5, <2>1, FS_RemoveElement
  <2>3. Listings' = Listings
    BY <1>1, <1>7 DEF Listings
  <2>4. Len(fileStrand)' = f + 1 /\ bufStrand' = bufStrand
    BY <1>t, <1>3, <1>7 DEF PostNext
  <2>5. Load' = (r - 1) + (f + 1) + l + d + b
    BY <1>3, <1>6, <2>2, <2>3, <2>4 DEF Load
  <2>6. (r - 1) + (f + 1) + l + d + b = r + f + l + d + b
    OBVIOUS
  <2>7. Load' <= Room'
    BY <1>4, <1>6, <2>5, <2>6
  <2> QED
    BY <1>2, <2>7
<1>8. CASE t \notin Files
  <2>1. ReadsToStart' = ReadsToStart
    <3>1. \A u \in Files : toPost'[u] = toPost[u]
      BY <1>1, <1>8, DataSendAssumption
    <3>2. \A q \in Files \X (1 .. 3) : q[1] \in Files
      OBVIOUS
    <3> QED
      BY <3>1, <3>2 DEF ReadsToStart
  <2>2. fileStrand' = fileStrand
    BY <1>8 DEF PostNext
  <2>3. n = 1 \/ n = 2
    BY <1>1, <1>8 DEF MInv, Posting
  <2>4. CASE n = 1
    <3>1. bufStrand' = Append(bufStrand, Add(t, Null, FALSE))
      <4>1. toPost[t] # 2
        BY <2>4
      <4> QED
        BY <1>8, <4>1 DEF PostNext
    <3>2. Add(t, Null, FALSE) \in Handlers /\ Add(t, Null, FALSE) \notin Bringing
      BY HandlerTypes, WhoBrings
    <3>3. Count(bufStrand, Bringing)' = b
      <4> DEFINE h == Add(t, Null, FALSE)
      <4>1. h \in Handlers /\ h \notin Bringing /\ bufStrand' = Append(bufStrand, h)
        BY <3>1, <3>2
      <4> HIDE DEF h
      <4>2. Count(Append(bufStrand, h), Bringing) = Count(bufStrand, Bringing)
        BY <1>t, <4>1, CountAppend
      <4> QED
        BY <1>3, <4>1, <4>2
    <3>4. Listings' = Listings
      BY <1>1, <2>4 DEF Listings
    <3>5. Load' = r + f + l + d + b
      BY <1>3, <1>6, <2>1, <2>2, <3>3, <3>4 DEF Load
    <3> QED
      BY <1>2, <1>4, <1>6, <3>5
  <2>5. CASE n = 2
    <3>1. bufStrand' = Append(bufStrand, Add(t, Buffer(t, 1), FALSE))
      BY <1>8, <2>5 DEF PostNext
    <3>2. Add(t, Buffer(t, 1), FALSE) \in Handlers
      BY HandlerTypes
    <3>3. Count(bufStrand, Bringing)' = b \/ Count(bufStrand, Bringing)' = b + 1
      <4> DEFINE h == Add(t, Buffer(t, 1), FALSE)
      <4>1. h \in Handlers /\ bufStrand' = Append(bufStrand, h)
        BY <3>1, <3>2
      <4> HIDE DEF h
      <4>2. \/ Count(Append(bufStrand, h), Bringing) = Count(bufStrand, Bringing)
            \/ Count(Append(bufStrand, h), Bringing) = Count(bufStrand, Bringing) + 1
        BY <1>t, <4>1, CountAppend
      <4> QED
        BY <1>3, <4>1, <4>2
    <3>4. Listings' = Listings \ {t} /\ t \in Listings
      BY <1>1, <1>8, <2>5 DEF Listings
    <3>5. Cardinality(Listings)' = l - 1
      BY <1>3, <1>5, <3>4, FS_RemoveElement
    <3>6. Load' = r + f + (l - 1) + d + Count(bufStrand, Bringing)'
      BY <1>3, <1>6, <2>1, <2>2, <3>5 DEF Load
    <3>7. Load' = r + f + (l - 1) + d + b \/ Load' = r + f + (l - 1) + d + (b + 1)
      BY <3>3, <3>6
    <3>8. /\ r + f + (l - 1) + d + b <= 3 * m + k
          /\ r + f + (l - 1) + d + (b + 1) <= 3 * m + k
      BY <1>4
    <3>9. Load' <= Room'
      BY <1>6, <3>7, <3>8
    <3> QED
      BY <1>2, <3>9
  <2> QED
    BY <2>3, <2>4, <2>5
<1> QED
  BY <1>7, <1>8

(* An accept makes room for what its handler is about to post. *)
LEMMA StepAccepted ==
  ASSUME IInv, MInv, Accept
  PROVE  IsFiniteSet(Accepted)' /\ (Load <= Room)'
<1>t. /\ toPost \in [Transfers -> 0 .. 3] /\ state \in [Transfers -> States]
      /\ pending \in Seq(Transfers)
  BY DEF IInv, WorkTypeOK, AcceptTypeOK
<1>1. PICK t \in Transfers : t = Head(pending) /\ pending # <<>>
  BY <1>t DEF Accept
<1>2. state[t] = "accepting"
  <2>1. 1 \in DOMAIN pending /\ pending[1] = t
    BY <1>t, <1>1
  <2> QED
    BY <2>1 DEF MInv, PendingApart
<1>3. toPost[t] = 0
  BY <1>t, <1>2 DEF MInv, Posting
<1>4. /\ state' = [state EXCEPT ![t] = "accepted"]
      /\ toPost' = [toPost EXCEPT ![t] = IF t \in Files THEN 3 ELSE 2]
      /\ UNCHANGED <<fileStrand, dataBuffer, bufStrand>>
  BY <1>1 DEF Accept, readVars, chainVars
<1>5. Accepted' = Accepted \cup {t} /\ t \notin Accepted
  BY <1>t, <1>2, <1>4 DEF Accepted
<1>6. IsFiniteSet(Accepted)'
  BY <1>5, FS_AddElement DEF MInv
<1>7. PICK r \in Nat, l \in Nat, f \in Nat, d \in Nat, b \in Nat, m \in Nat, k \in Nat :
        /\ r = Cardinality(ReadsToStart) /\ l = Cardinality(Listings)
        /\ f = Len(fileStrand)
        /\ d = Count(dataBuffer, Buffers) /\ b = Count(bufStrand, Bringing)
        /\ m = Cardinality(Accepted \cap Files) /\ k = Cardinality(Accepted \ Files)
  BY Finite DEF IInv, WorkTypeOK, MInv
<1>8. r + f + l + d + b <= 3 * m + k
  BY <1>7 DEF MInv, Load, Room
<1>9. /\ IsFiniteSet(ReadsToStart) /\ IsFiniteSet(Listings)
      /\ IsFiniteSet(Accepted \cap Files) /\ IsFiniteSet(Accepted \ Files)
  BY Finite DEF IInv, WorkTypeOK, MInv
<1>10. CASE t \in Files
  <2>1. (Accepted \cap Files)' = (Accepted \cap Files) \cup {t}
        /\ (Accepted \ Files)' = Accepted \ Files /\ t \notin Accepted \cap Files
    BY <1>5, <1>10
  <2>2. Cardinality(Accepted \cap Files)' = m + 1
    BY <1>7, <1>9, <2>1, FS_AddElement
  <2>3. Room' = 3 * (m + 1) + k
    BY <1>7, <2>1, <2>2 DEF Room
  <2>4. Listings' = Listings
    BY <1>t, <1>4, <1>10 DEF Listings
  <2> DEFINE R1 == ReadsToStart \cup {<<t, 1>>}
             R2 == R1 \cup {<<t, 2>>}
             R3 == R2 \cup {<<t, 3>>}
  <2>5. /\ <<t, 1>> \notin ReadsToStart /\ <<t, 2>> \notin ReadsToStart
        /\ <<t, 3>> \notin ReadsToStart /\ ReadsToStart' = R3
    <3>1. \A u \in Files, i \in 1 .. 3 :
            /\ i <= toPost'[u] <=> i <= toPost[u] \/ u = t
            /\ u = t => ~(i <= toPost[u])
      BY <1>t, <1>3, <1>4, DataSendAssumption
    <3>2. ReadsToStart' = {q \in Files \X (1 .. 3) : q[2] <= toPost'[q[1]]}
      BY DEF ReadsToStart
    <3>3. \A q \in Files \X (1 .. 3) :
            /\ q[1] \in Files /\ q[2] \in 1 .. 3
            /\ q = <<t, 1>> \/ q = <<t, 2>> \/ q = <<t, 3>> <=> q[1] = t
      OBVIOUS
    <3>4. /\ <<t, 1>> \in Files \X (1 .. 3) /\ <<t, 2>> \in Files \X (1 .. 3)
          /\ <<t, 3>> \in Files \X (1 .. 3)
      BY <1>10
    <3>5. \A q \in ReadsToStart : q \in Files \X (1 .. 3) /\ q[1] # t
      BY <3>1, <3>3 DEF ReadsToStart
    <3>6. ReadsToStart' = R3
      <4>1. ASSUME NEW q \in R3 PROVE q \in ReadsToStart'
        <5>1. q \in Files \X (1 .. 3)
          BY <3>4, <3>5
        <5>2. q[2] <= toPost'[q[1]]
          <6>1. CASE q \in ReadsToStart
            BY <3>1, <3>3, <6>1, <5>1 DEF ReadsToStart
          <6>2. CASE q \in {<<t, 1>>, <<t, 2>>, <<t, 3>>}
            BY <3>1, <3>3, <6>2, <5>1
          <6> QED
            BY <6>1, <6>2
        <5> QED
          BY <3>2, <5>1, <5>2
      <4>2. ASSUME NEW q \in ReadsToStart' PROVE q \in R3
        <5>1. q \in Files \X (1 .. 3) /\ q[2] <= toPost'[q[1]]
          BY <3>2
        <5>2. q[2] <= toPost[q[1]] \/ q[1] = t
          BY <3>1, <3>3, <5>1
        <5> QED
          BY <3>3, <5>1, <5>2 DEF ReadsToStart
      <4> QED
        BY <4>1, <4>2
    <3>7. <<t, 1>>[1] = t /\ <<t, 2>>[1] = t /\ <<t, 3>>[1] = t
      OBVIOUS
    <3> QED
      BY <3>5, <3>6, <3>7
  <2>6. Cardinality(ReadsToStart)' = r + 3
    <3>1. IsFiniteSet(R1) /\ Cardinality(R1) = r + 1
      BY <1>7, <1>9, <2>5, FS_AddElement
    <3>2. <<t, 2>> \notin R1
      BY <2>5
    <3>3. <<t, 3>> \notin R2
      BY <2>5
    <3> HIDE DEF R1
    <3>4. IsFiniteSet(R2) /\ Cardinality(R2) = (r + 1) + 1
      BY <3>1, <3>2, FS_AddElement
    <3> HIDE DEF R2
    <3>5. IsFiniteSet(R3) /\ Cardinality(R3) = ((r + 1) + 1) + 1
      BY <3>3, <3>4, FS_AddElement
    <3> HIDE DEF R3
    <3>6. Cardinality(ReadsToStart)' = ((r + 1) + 1) + 1
      BY <2>5, <3>5
    <3>7. ((r + 1) + 1) + 1 = r + 3
      OBVIOUS
    <3> QED
      BY <3>6, <3>7
  <2>7. Load' = (r + 3) + f + l + d + b
    BY <1>4, <1>7, <2>4, <2>6 DEF Load
  <2>8. Load' <= Room'
    BY <1>8, <2>3, <2>7
  <2> QED
    BY <1>6, <2>8
<1>11. CASE t \notin Files
  <2>1. (Accepted \ Files)' = (Accepted \ Files) \cup {t}
        /\ (Accepted \cap Files)' = Accepted \cap Files /\ t \notin Accepted \ Files
    BY <1>5, <1>11
  <2>2. Cardinality(Accepted \ Files)' = k + 1
    BY <1>7, <1>9, <2>1, FS_AddElement
  <2>3. Room' = 3 * m + (k + 1)
    BY <1>7, <2>1, <2>2 DEF Room
  <2>4. Listings' = Listings \cup {t} /\ t \notin Listings
    BY <1>t, <1>3, <1>4, <1>11 DEF Listings
  <2>5. Cardinality(Listings)' = l + 1
    BY <1>7, <1>9, <2>4, FS_AddElement
  <2>6. ReadsToStart' = ReadsToStart
    <3>1. \A u \in Files : toPost'[u] = toPost[u]
      BY <1>t, <1>4, <1>11, DataSendAssumption
    <3>2. \A q \in Files \X (1 .. 3) : q[1] \in Files
      OBVIOUS
    <3> QED
      BY <3>1, <3>2 DEF ReadsToStart
  <2>7. Load' = r + f + (l + 1) + d + b
    BY <1>4, <1>7, <2>5, <2>6 DEF Load
  <2>8. Load' <= Room'
    BY <1>8, <2>3, <2>7
  <2> QED
    BY <1>6, <2>8
<1> QED
  BY <1>10, <1>11

(* The other steps accept nothing and hold nothing. *)
LEMMA StepIdle ==
  ASSUME IInv, MInv,
         \/ PASV \/ AcceptError \/ UNCHANGED workVars
         \/ \E t \in Transfers : RETR(t) \/ Refused(t) \/ LIST(t) \/ Break(t)
                                 \/ AcceptFailed(t)
  PROVE  IsFiniteSet(Accepted)' /\ (Load <= Room)'
<1>t. state \in [Transfers -> States] /\ pending \in Seq(Transfers)
  BY DEF IInv, WorkTypeOK, AcceptTypeOK
<1>1. UNCHANGED <<toPost, fileStrand, dataBuffer, bufStrand>>
  BY DEF PASV, AcceptError, RETR, Refused, RETRRefused, LISTRefused, Refuse, LIST,
         AsyncAccept, Break, AcceptFailed,
         workVars, acceptVars, readVars, chainVars
<1>2. Accepted' = Accepted
  <2>1. CASE PASV
    BY <1>t, <2>1 DEF PASV, Accepted
  <2>2. CASE AcceptError
    <3>1. Head(pending) \in Transfers /\ state[Head(pending)] = "accepting"
      <4>1. 1 \in DOMAIN pending /\ pending[1] = Head(pending) /\ Head(pending) \in Transfers
        BY <1>t, <2>2 DEF AcceptError
      <4> QED
        BY <4>1 DEF MInv, PendingApart
    <3> QED
      BY <1>t, <2>2, <3>1 DEF AcceptError, Accepted
  <2>3. CASE UNCHANGED workVars
    BY <2>3 DEF workVars, acceptVars, Accepted
  <2>4. ASSUME NEW t \in Transfers, RETR(t) \/ Refused(t) \/ LIST(t) \/ AcceptFailed(t)
        PROVE  Accepted' = Accepted
    <3>1. /\ state[t] \in {"unused", "failed"}
          /\ \E s \in {"accepting", "failed", "refused", "aborted"} :
               state' = [state EXCEPT ![t] = s]
      BY <2>4 DEF RETR, Refused, RETRRefused, LISTRefused, Refuse, LIST, MayIssue,
                  AsyncAccept, AcceptFailed
    <3> QED
      BY <1>t, <3>1 DEF Accepted
  <2>5. ASSUME NEW t \in Transfers, Break(t) PROVE Accepted' = Accepted
    BY <2>5 DEF Break, acceptVars, Accepted
  <2> QED
    BY <2>1, <2>2, <2>3, <2>4, <2>5
<1>3. Load' = Load /\ Room' = Room
  BY <1>1, <1>2 DEF Load, Room, ReadsToStart, Listings
<1> QED
  BY <1>2, <1>3 DEF MInv

LEMMA StepMInv == IInv /\ IInv' /\ MInv /\ [Work]_workVars => MInv'
<1> SUFFICES ASSUME IInv, IInv', MInv, [Work]_workVars PROVE MInv'
  OBVIOUS
<1>1. PendingApart' /\ Posting'
  BY StepPosting DEF MInv
<1>2. WritesData'
  BY StepWritesData DEF MInv
<1>3. IsFiniteSet(Accepted)' /\ (Load <= Room)'
  <2>1. CASE FileStrand \/ BufStrand \/ Sockets
    <3>1. UNCHANGED <<state, toPost>>
      BY <2>1 DEF FileStrand, ReadAtEof, ReadBuffer, PostEnd, BufStrand, AddData,
                  WriteData, WriteEnd, WriteDone, Sockets, WriteCompletes, acceptVars
    <3>2. Moving' <= Moving
      BY <2>1, StepFlow
    <3> QED
      BY <3>1, <3>2, StepMoving
  <2>2. ASSUME NEW t \in Transfers, PostNext(t)
        PROVE  IsFiniteSet(Accepted)' /\ (Load <= Room)'
    BY <2>2, StepPosted
  <2>3. CASE Accept
    BY <2>3, StepAccepted
  <2>4. CASE \/ PASV \/ AcceptError \/ UNCHANGED workVars
             \/ \E t \in Transfers : RETR(t) \/ Refused(t) \/ LIST(t) \/ Break(t)
                                     \/ AcceptFailed(t)
    BY <2>4, StepIdle
  <2> QED
    BY <2>1, <2>2, <2>3, <2>4 DEF Work, Client, Refused, AcceptHandlers
<1> QED
  BY <1>1, <1>2, <1>3 DEF MInv

(* What is counted is what MemoryBounded counts, and the listings to come. *)
LEMMA Bounded == IInv /\ MInv => MemoryBounded
<1> SUFFICES ASSUME IInv, MInv PROVE MemoryBounded
  OBVIOUS
<1>t. bufStrand \in Seq(Handlers) /\ dataBuffer \in Seq(Buffers \cup {Null})
  BY DEF IInv, WorkTypeOK, ChainTypeOK
<1>1. Cardinality(BuffersHeld) = Count(dataBuffer, Buffers)
  <2>1. \A i \in DOMAIN dataBuffer : dataBuffer[i] # Null <=> dataBuffer[i] \in Buffers
    BY <1>t, WhoBrings
  <2>2. BuffersHeld = Places(dataBuffer, Buffers)
    BY <2>1 DEF BuffersHeld, Places
  <2> QED
    BY <2>2 DEF Count
<1>2. Cardinality(BuffersToAdd) = Count(bufStrand, Bringing)
  <2>1. \A i \in DOMAIN bufStrand : bufStrand[i] \in Handlers
    BY <1>t
  <2>2. BuffersToAdd = Places(bufStrand, Bringing)
    BY <2>1 DEF BuffersToAdd, Places, Bringing
  <2> QED
    BY <2>2 DEF Count
<1>3. PICK r \in Nat, l \in Nat, f \in Nat, d \in Nat, b \in Nat, m \in Nat, k \in Nat :
        /\ r = Cardinality(ReadsToStart) /\ l = Cardinality(Listings)
        /\ f = Len(fileStrand)
        /\ d = Count(dataBuffer, Buffers) /\ b = Count(bufStrand, Bringing)
        /\ m = Cardinality(Accepted \cap Files) /\ k = Cardinality(Accepted \ Files)
  BY Finite DEF IInv, WorkTypeOK, MInv
<1>4. r + f + l + d + b <= 3 * m + k
  BY <1>3 DEF MInv, Load, Room
<1>5. r + f + d + b <= 3 * m + k
  BY <1>4
<1> QED
  BY <1>1, <1>2, <1>3, <1>5 DEF MemoryBounded

(* Whatever the client does and however slow or broken its connections     *)
(* are, the buffers a session holds and the reads it has still to make are *)
(* at most three for each file and one for each listing that it accepted:  *)
(* a buffer is fetched only when one is released.                          *)
THEOREM MemorySafe == Spec => []MemoryBounded
<1>1. Init => MInv
  BY InitMInv
<1>2. IInv /\ IInv' /\ MInv /\ [Work]_workVars => MInv'
  BY StepMInv
<1>3. Spec => []IInv
  BY Invariance
<1>4. IInv /\ MInv => MemoryBounded
  BY Bounded
<1> QED
  BY <1>1, <1>2, <1>3, <1>4, SpecWorks, PTL

-----------------------------------------------------------------------------
(* One transfer at a time.  From here on the client is Sequential and no   *)
(* connection breaks.  What the buffers of the transfer at hand go through *)
(* is one line: those sent, those in the deque, those the handlers of the  *)
(* strand bring, those not yet posted; after the last comes Null.          *)

(* The n-th thing a transfer adds to the deque. *)
Item(t, n) == IF n <= BufferCount(t) THEN Buffer(t, n) ELSE Null

(* How many it has added or posted. *)
Posted(t) ==
  IF t \in Files
  THEN IF pos[t] = BufferCount(t) /\ ending # t THEN pos[t] + 1 ELSE pos[t]
  ELSE 2 - toPost[t]

Asked(t) == state[t] # "unused" /\ finals[t] = <<>>
Sending(t) == state[t] = "accepted" /\ finals[t] = <<>>

OneAsked == \A t, u \in Transfers : Asked(t) /\ Asked(u) => t = u

(* How far the transfers are, before and after they are at hand... *)
Stages ==
  \A t \in Transfers :
    /\ state[t] \in {"unused", "accepting", "failed"} => finals[t] = <<>>
    /\ state[t] # "accepted" => sent[t] = <<>> /\ pos[t] = 0 /\ toPost[t] = 0
    /\ t \in Files => pos[t] <= BufferCount(t)
    /\ t \notin Files => toPost[t] <= 2
    /\ state[t] = "accepted" /\ finals[t] # <<>> =>
         /\ t \in Files => pos[t] = BufferCount(t)
         /\ t \notin Files => toPost[t] = 0

(* ...whose turn it is to be accepted and read... *)
Turns ==
  /\ Len(pending) <= 1
  /\ \A i \in DOMAIN pending : state[pending[i]] = "accepting"
  /\ \A i \in DOMAIN fileStrand : state[fileStrand[i]] = "accepted"
  /\ ending # Null => Sending(ending) /\ pos[ending] = BufferCount(ending)

(* ...and that there is nothing to write when none is at hand. *)
Quiet ==
  (\A t \in Transfers : ~Sending(t)) =>
    bufStrand = <<>> /\ dataBuffer = <<>> /\ writing = {}

SentSoFar ==
  \A t \in Transfers : \A i \in DOMAIN sent[t] :
    i <= BufferCount(t) /\ sent[t][i] = Buffer(t, i)

(* The line of transfer t: p buffers have left the deque; the chain, if it *)
(* is in the strand, is its c-th handler.                                  *)
Chained(c) == c \in DOMAIN bufStrand
JustSent(c) == Chained(c) /\ bufStrand[c].op = "done"

Deque(t, p) == \A i \in DOMAIN dataBuffer : dataBuffer[i] = Item(t, p + i)

Posts(t, p, c) ==
  \A i \in DOMAIN bufStrand :
    /\ bufStrand[i].of = t
    /\ InChain(bufStrand[i]) <=> i = c
    /\ i < c => bufStrand[i].data = Item(t, p + Len(dataBuffer) + i)
    /\ i > c => bufStrand[i].data = Item(t, p + Len(dataBuffer) + i - 1)
    /\ bufStrand[i].op = "done" => bufStrand[i].ok

Total(t, p, c) ==
  /\ Chained(c) => p + Len(dataBuffer) + Len(bufStrand) = Posted(t) + 1
  /\ ~Chained(c) => p + Len(dataBuffer) + Len(bufStrand) = Posted(t)

Written(t, p, c) ==
  /\ \A w \in writing : w.of = t /\ w.data = dataBuffer[1] /\ w.data # Null
  /\ Len(sent[t]) = IF JustSent(c) THEN p + 1 ELSE p
  /\ dataBuffer # <<>> => Chained(c) \/ writing # {}

Flow(t, p, c) ==
  Deque(t, p) /\ Posts(t, p, c) /\ Total(t, p, c) /\ Written(t, p, c)

Flows ==
  \A t \in Transfers : Sending(t) =>
    \E p \in 0 .. Len(sent[t]), c \in 1 .. Len(bufStrand) + 1 : Flow(t, p, c)

SInv ==
  /\ OneAsked /\ Stages /\ Turns
  /\ Quiet /\ SentSoFar /\ Flows
  /\ broken = {}

(* What a transfer adds, and how much there is to add. *)
LEMMA Items ==
  ASSUME NEW t \in Transfers
  PROVE  /\ BufferCount(t) \in Nat \ {0}
         /\ \A n \in Nat : /\ n <= BufferCount(t) => Item(t, n) = Buffer(t, n)
                           /\ n > BufferCount(t) => Item(t, n) = Null
                           /\ Buffer(t, n) # Null
<1>1. \A n \in Nat : Buffer(t, n) \in [of : Transfers, no : Nat]
  BY DEF Buffer
<1>2. \A n \in Nat : Buffer(t, n) # Null
  BY <1>1, DataSendAssumption
<1>3. BufferCount(t) \in Nat \ {0}
  BY DataSendAssumption DEF BufferCount
<1> QED
  BY <1>2, <1>3 DEF Item

LEMMA PostedType ==
  ASSUME NEW t \in Transfers, AcceptTypeOK, ReadTypeOK, Stages
  PROVE  Posted(t) \in 0 .. (BufferCount(t) + 1)
<1>1. CASE t \in Files
  <2>1. pos[t] \in Nat /\ pos[t] <= BufferCount(t)
    BY <1>1 DEF ReadTypeOK, Stages
  <2> QED
    BY <1>1, <2>1, Items DEF Posted
<1>2. CASE t \notin Files
  <2>1. toPost[t] \in 0 .. 2
    BY <1>2 DEF AcceptTypeOK, Stages
  <2>2. BufferCount(t) = 1
    BY <1>2 DEF BufferCount
  <2> QED
    BY <1>2, <2>1, <2>2 DEF Posted
<1> QED
  BY <1>1, <1>2

(* Whoever keeps the strand or the deque busy is at hand, and alone. *)
LEMMA Busy ==
  ASSUME OneAsked, Quiet, Flows,
         bufStrand # <<>> \/ dataBuffer # <<>> \/ writing # {}
  PROVE  \E t \in Transfers :
           /\ Sending(t)
           /\ \A u \in Transfers : Sending(u) => u = t
           /\ \E p \in 0 .. Len(sent[t]), c \in 1 .. Len(bufStrand) + 1 : Flow(t, p, c)
<1>1. PICK t \in Transfers : Sending(t)
  BY DEF Quiet
<1>2. \A u \in Transfers : Sending(u) => u = t
  BY <1>1 DEF OneAsked, Sending, Asked
<1> QED
  BY <1>1, <1>2 DEF Flows

(* Posting the next thing to add lengthens the line at its end. *)
LEMMA FlowPosted ==
  ASSUME ChainTypeOK, NEW t \in Transfers, NEW p \in Nat,
         NEW c \in 1 .. Len(bufStrand) + 1, Flow(t, p, c),
         Posted(t) \in Nat, Posted(t)' = Posted(t) + 1,
         NEW more \in BOOLEAN,
         bufStrand' = Append(bufStrand, Add(t, Item(t, Posted(t) + 1), more)),
         UNCHANGED <<dataBuffer, writing, sent>>
  PROVE  \E c2 \in 1 .. Len(bufStrand') + 1 : Flow(t, p, c2)'
<1> DEFINE L == Len(bufStrand)
           a == Add(t, Item(t, Posted(t) + 1), more)
<1>1. /\ Len(bufStrand') = L + 1 /\ L \in Nat
      /\ DOMAIN bufStrand = 1 .. L /\ DOMAIN bufStrand' = 1 .. (L + 1)
      /\ \A i \in 1 .. L : bufStrand'[i] = bufStrand[i]
      /\ bufStrand'[L + 1] = a
      /\ Len(dataBuffer) \in Nat
  BY DEF ChainTypeOK
<1>2. a.of = t /\ ~InChain(a) /\ a.data = Item(t, Posted(t) + 1) /\ a.op # "done"
  BY DEF Add, InChain
<1> HIDE DEF a, L
<1>3. CASE c \in 1 .. L
  <2>1. Chained(c) /\ Chained(c)' /\ bufStrand'[c] = bufStrand[c]
    BY <1>1, <1>3 DEF Chained
  <2>2. p + Len(dataBuffer) + (L + 1) - 1 = Posted(t) + 1
    BY <1>1, <2>1 DEF Flow, Total, L
  <2>3. Posts(t, p, c)'
    <3>1. \A i \in 1 .. L :
            /\ bufStrand[i].of = t
            /\ InChain(bufStrand[i]) <=> i = c
            /\ i < c => bufStrand[i].data = Item(t, p + Len(dataBuffer) + i)
            /\ i > c => bufStrand[i].data = Item(t, p + Len(dataBuffer) + i - 1)
            /\ bufStrand[i].op = "done" => bufStrand[i].ok
      BY <1>1 DEF Flow, Posts
    <3>2. a.data = Item(t, p + Len(dataBuffer) + (L + 1) - 1)
      BY <1>2, <2>2
    <3>3. \A i \in 1 .. (L + 1) :
            /\ bufStrand'[i].of = t
            /\ InChain(bufStrand'[i]) <=> i = c
            /\ i < c => bufStrand'[i].data = Item(t, p + Len(dataBuffer) + i)
            /\ i > c => bufStrand'[i].data = Item(t, p + Len(dataBuffer) + i - 1)
            /\ bufStrand'[i].op = "done" => bufStrand'[i].ok
      <4> TAKE i \in 1 .. (L + 1)
      <4>1. CASE i \in 1 .. L
        BY <1>1, <1>3, <3>1, <4>1
      <4>2. CASE i = L + 1
        BY <1>1, <1>2, <1>3, <3>2, <4>2
      <4>3. i \in 1 .. L \/ i = L + 1
        BY <1>1
      <4> QED
        BY <4>1, <4>2, <4>3, Zenon
    <3> QED
      BY <1>1, <3>3 DEF Posts, InChain, Item, Buffer, BufferCount
  <2>4. Deque(t, p)'
    BY DEF Flow, Deque, Item, Buffer, BufferCount
  <2>5. Total(t, p, c)'
    BY <1>1, <2>1 DEF Flow, Total, L
  <2>6. Written(t, p, c)'
    BY <2>1 DEF Flow, Written, JustSent
  <2> QED
    BY <1>1, <2>3, <2>4, <2>5, <2>6 DEF Flow, L
<1>4. CASE c = L + 1
  <2>1. ~Chained(c) /\ ~Chained(c + 1)'
    BY <1>1, <1>4 DEF Chained
  <2>2. p + Len(dataBuffer) + (L + 1) = Posted(t) + 1
    BY <1>1, <2>1 DEF Flow, Total, L
  <2>3. Posts(t, p, (c + 1))'
    <3>1. \A i \in 1 .. L :
            /\ bufStrand[i].of = t
            /\ InChain(bufStrand[i]) <=> i = c
            /\ i < c => bufStrand[i].data = Item(t, p + Len(dataBuffer) + i)
            /\ i > c => bufStrand[i].data = Item(t, p + Len(dataBuffer) + i - 1)
            /\ bufStrand[i].op = "done" => bufStrand[i].ok
      BY <1>1 DEF Flow, Posts
    <3>2. a.data = Item(t, p + Len(dataBuffer) + (L + 1))
      BY <1>2, <2>2
    <3>3. \A i \in 1 .. (L + 1) :
            /\ bufStrand'[i].of = t
            /\ InChain(bufStrand'[i]) <=> i = (c + 1)
            /\ i < (c + 1) => bufStrand'[i].data = Item(t, p + Len(dataBuffer) + i)
            /\ i > (c + 1) => bufStrand'[i].data = Item(t, p + Len(dataBuffer) + i - 1)
            /\ bufStrand'[i].op = "done" => bufStrand'[i].ok
      <4> TAKE i \in 1 .. (L + 1)
      <4>1. CASE i \in 1 .. L
        BY <1>1, <1>4, <3>1, <4>1
      <4>2. CASE i = L + 1
        BY <1>1, <1>2, <1>4, <3>2, <4>2
      <4>3. i \in 1 .. L \/ i = L + 1
        BY <1>1
      <4> QED
        BY <4>1, <4>2, <4>3, Zenon
    <3> QED
      BY <1>1, <3>3 DEF Posts, InChain, Item, Buffer, BufferCount
  <2>4. Deque(t, p)'
    BY DEF Flow, Deque, Item, Buffer, BufferCount
  <2>5. Total(t, p, c + 1)'
    BY <1>1, <2>1 DEF Flow, Total, L
  <2>6. Written(t, p, c + 1)'
    BY <2>1 DEF Flow, Written, JustSent
  <2> QED
    BY <1>1, <1>4, <2>3, <2>4, <2>5, <2>6 DEF Flow, L
<1> QED
  BY <1>1, <1>3, <1>4 DEF L

(* A step that leaves the line alone. *)
LEMMA FlowKept ==
  ASSUME NEW t \in Transfers, NEW p, NEW c, Flow(t, p, c), Posted(t)' = Posted(t),
         UNCHANGED <<bufStrand, dataBuffer, writing, sent>>
  PROVE  Flow(t, p, c)'
BY DEF Flow, Deque, Posts, Total, Written, Chained, JustSent, Item, Buffer,
       BufferCount, InChain

(* A strand without the chain brings one item after the other. *)
Adds(t, q, n) ==
  \A i \in DOMAIN q :
    q[i].of = t /\ ~InChain(q[i]) /\ q[i].data = Item(t, n + i)

LEMMA AddsBehindChain ==
  ASSUME ChainTypeOK, NEW t \in Transfers, NEW p \in Nat, NEW c, Posts(t, p, c),
         bufStrand # <<>>, InChain(Head(bufStrand))
  PROVE  c = 1 /\ Adds(t, Tail(bufStrand), p + Len(dataBuffer))
<1>1. /\ 1 \in DOMAIN bufStrand /\ bufStrand[1] = Head(bufStrand)
      /\ Len(dataBuffer) \in Nat
  BY StrandShift DEF ChainTypeOK
<1>2. c = 1
  BY <1>1 DEF Posts
<1>3. \A i \in DOMAIN Tail(bufStrand) :
        /\ i \in Nat /\ i + 1 \in DOMAIN bufStrand /\ i + 1 > 1
        /\ Tail(bufStrand)[i] = bufStrand[i + 1]
        /\ p + Len(dataBuffer) + (i + 1) - 1 = p + Len(dataBuffer) + i
  BY <1>1 DEF ChainTypeOK
<1>4. ASSUME NEW i \in DOMAIN Tail(bufStrand)
      PROVE  /\ Tail(bufStrand)[i].of = t /\ ~InChain(Tail(bufStrand)[i])
             /\ Tail(bufStrand)[i].data = Item(t, (p + Len(dataBuffer)) + i)
  <2>1. /\ bufStrand[i + 1].of = t
        /\ InChain(bufStrand[i + 1]) <=> i + 1 = 1
        /\ bufStrand[i + 1].data = Item(t, p + Len(dataBuffer) + (i + 1) - 1)
    BY <1>2, <1>3 DEF Posts
  <2> QED
    BY <1>3, <2>1
<1> QED
  BY <1>2, <1>4 DEF Adds

LEMMA AddsWithoutChain ==
  ASSUME ChainTypeOK, NEW t \in Transfers, NEW p \in Nat,
         NEW c \in 1 .. Len(bufStrand) + 1, Posts(t, p, c),
         \A i \in DOMAIN bufStrand : ~InChain(bufStrand[i])
  PROVE  c = Len(bufStrand) + 1 /\ Adds(t, bufStrand, p + Len(dataBuffer))
<1>1. DOMAIN bufStrand = 1 .. Len(bufStrand) /\ Len(bufStrand) \in Nat
  BY DEF ChainTypeOK
<1>2. c \notin DOMAIN bufStrand
  BY DEF Posts
<1>3. c = Len(bufStrand) + 1 /\ \A i \in DOMAIN bufStrand : i < c
  BY <1>1, <1>2
<1> QED
  BY <1>3 DEF Adds, Posts

LEMMA PostsOfAdds ==
  ASSUME NEW t \in Transfers, NEW p \in Nat, NEW q \in Seq(Handlers),
         Adds(t, q, p + Len(dataBuffer')), bufStrand' = q
  PROVE  Posts(t, p, Len(q) + 1)' /\ ~Chained(Len(q) + 1)' /\ ~JustSent(Len(q) + 1)'
<1>1. DOMAIN q = 1 .. Len(q) /\ Len(q) \in Nat
  OBVIOUS
<1>2. \A i \in DOMAIN q : i < Len(q) + 1 /\ i # Len(q) + 1 /\ ~(i > Len(q) + 1)
  BY <1>1
<1>3. Len(q) + 1 \notin DOMAIN q
  BY <1>1
<1>4. \A i \in DOMAIN q : q[i].op # "done"
  BY DEF Adds, InChain
<1> QED
  BY <1>2, <1>3, <1>4
     DEF Adds, Posts, Chained, JustSent, InChain, Item, Buffer, BufferCount

LEMMA PostsOfChain ==
  ASSUME NEW t \in Transfers, NEW p \in Nat, NEW q \in Seq(Handlers),
         Adds(t, q, p + Len(dataBuffer')), NEW h \in Handlers,
         InChain(h), h.of = t, h.op = "done" => h.ok,
         bufStrand' = Append(q, h)
  PROVE  /\ Posts(t, p, Len(q) + 1)'
         /\ Chained(Len(q) + 1)'
         /\ JustSent(Len(q) + 1)' <=> h.op = "done"
<1>1. /\ DOMAIN q = 1 .. Len(q) /\ Len(q) \in Nat
      /\ DOMAIN bufStrand' = 1 .. (Len(q) + 1)
      /\ \A i \in 1 .. Len(q) : bufStrand'[i] = q[i]
      /\ bufStrand'[Len(q) + 1] = h
  OBVIOUS
<1> DEFINE L == Len(q)
<1>2. \A i \in 1 .. L : /\ q[i].of = t /\ ~InChain(q[i]) /\ q[i].op # "done"
                        /\ q[i].data = Item(t, p + Len(dataBuffer') + i)
  BY <1>1 DEF Adds, InChain
<1>3. L \in Nat /\ \A i \in 1 .. (L + 1) : i \in 1 .. L \/ i = L + 1
  BY <1>1
<1>4. ASSUME NEW i \in 1 .. (L + 1)
      PROVE  /\ bufStrand'[i].of = t
             /\ InChain(bufStrand'[i]) <=> i = L + 1
             /\ i < L + 1 => bufStrand'[i].data = Item(t, p + Len(dataBuffer') + i)
             /\ i > L + 1 => bufStrand'[i].data = Item(t, p + Len(dataBuffer') + i - 1)
             /\ bufStrand'[i].op = "done" => bufStrand'[i].ok
  <2>1. CASE i \in 1 .. L
    BY <1>1, <1>2, <1>3, <2>1
  <2>2. CASE i = L + 1
    BY <1>1, <1>3, <2>2
  <2> QED
    BY <1>3, <2>1, <2>2, Zenon
<1>5. Posts(t, p, Len(q) + 1)'
  BY <1>1, <1>4 DEF Posts, InChain, Item, Buffer, BufferCount
<1> QED
  BY <1>1, <1>5 DEF Chained, JustSent

(* The handlers of the strand and the socket move the line on. *)
LEMMA FlowAdd ==
  ASSUME ChainTypeOK, OneChain, NEW t \in Transfers, NEW p \in Nat,
         NEW c \in 1 .. Len(bufStrand) + 1, Flow(t, p, c), AddData,
         Posted(t)' = Posted(t), Posted(t) \in Nat
  PROVE  \E c2 \in 1 .. Len(bufStrand') + 1 : Flow(t, p, c2)'
<1> DEFINE h == Head(bufStrand)
<1>L. PICK L \in Nat, D \in Nat : L = Len(bufStrand) /\ D = Len(dataBuffer)
  BY DEF ChainTypeOK
<1>1. /\ bufStrand # <<>> /\ bufStrand[1] = h /\ h \in Handlers
      /\ h.op = "add" /\ ~InChain(h) /\ h.data \in Buffers \cup {Null}
      /\ Tail(bufStrand) \in Seq(Handlers) /\ Len(Tail(bufStrand)) = L - 1
      /\ L \in Nat \ {0} /\ DOMAIN bufStrand = 1 .. L
      /\ L = Len(bufStrand) /\ D = Len(dataBuffer)
  BY <1>L, StrandShift, HandlerTypes DEF AddData, Runs, ChainTypeOK, InChain
<1>2. /\ D \in Nat /\ Len(dataBuffer') = D + 1
      /\ DOMAIN dataBuffer = 1 .. D /\ DOMAIN dataBuffer' = 1 .. (D + 1)
      /\ \A i \in 1 .. D : dataBuffer'[i] = dataBuffer[i]
      /\ dataBuffer'[D + 1] = h.data
      /\ dataBuffer' # <<>>
  BY <1>L, <1>1 DEF AddData, ChainTypeOK
<1>3. /\ c > 1 /\ h.of = t /\ h.data = Item(t, p + D + 1)
      /\ \A i \in DOMAIN Tail(bufStrand) :
           /\ i \in Nat /\ i + 1 \in DOMAIN bufStrand
           /\ Tail(bufStrand)[i] = bufStrand[i + 1]
  <2>1. /\ 1 \in DOMAIN bufStrand /\ bufStrand[1].of = t /\ 1 # c
        /\ 1 < c => bufStrand[1].data = Item(t, p + D + 1)
    BY <1>1 DEF Flow, Posts
  <2>2. c > 1
    BY <1>1, <2>1
  <2>3. \A i \in DOMAIN Tail(bufStrand) :
          /\ i \in Nat /\ i + 1 \in DOMAIN bufStrand
          /\ Tail(bufStrand)[i] = bufStrand[i + 1]
    BY <1>1 DEF ChainTypeOK
  <2> QED
    BY <1>1, <2>1, <2>2, <2>3
<1>4. Deque(t, p)'
  <2>1. \A i \in 1 .. D : dataBuffer[i] = Item(t, p + i)
    BY <1>1, <1>2 DEF Flow, Deque
  <2>2. p + D + 1 = p + (D + 1)
    BY <1>2
  <2>3. \A i \in 1 .. (D + 1) : i \in 1 .. D \/ i = D + 1
    BY <1>2
  <2>4. \A i \in 1 .. (D + 1) : dataBuffer'[i] = Item(t, p + i)
    BY <1>2, <1>3, <2>1, <2>2, <2>3
  <2> QED
    BY <1>2, <2>4 DEF Deque, Item, Buffer, BufferCount
<1>5. UNCHANGED <<writing, sent>>
  BY DEF AddData
<1>6. CASE dataBuffer = <<>>
  <2>1. writing = {} /\ \A i \in DOMAIN bufStrand : ~InChain(bufStrand[i])
    BY <1>6 DEF OneChain
  <2>2. c = L + 1 /\ Adds(t, bufStrand, p + D)
    BY <1>L, <2>1, AddsWithoutChain DEF Flow
  <2>3. D = 0 /\ Len(dataBuffer') = 1
    BY <1>L, <1>2, <1>6
  <2>4. Adds(t, Tail(bufStrand), p + 1)
    <3>1. ASSUME NEW i \in DOMAIN Tail(bufStrand)
          PROVE  /\ Tail(bufStrand)[i].of = t /\ ~InChain(Tail(bufStrand)[i])
                 /\ Tail(bufStrand)[i].data = Item(t, p + 1 + i)
      <4>1. p + D + (i + 1) = p + 1 + i
        BY <1>3, <2>3
      <4> QED
        BY <1>3, <2>2, <4>1 DEF Adds
    <3> QED
      BY <3>1 DEF Adds
  <2>5. Write(h.of, h.more) \in Handlers /\ InChain(Write(h.of, h.more))
        /\ Write(h.of, h.more).of = t /\ Write(h.of, h.more).op = "write"
    BY <1>1, <1>3, HandlerTypes, ChainHandlers DEF Write
  <2>6. bufStrand' = Append(Tail(bufStrand), Write(h.of, h.more))
    BY <1>6 DEF AddData
  <2>7. Posts(t, p, L)' /\ Chained(L)' /\ ~JustSent(L)'
    <3>1. (L - 1) + 1 = L
      BY <1>1
    <3> HIDE DEF h
    <3>2. PICK q \in Seq(Handlers), w \in Handlers :
            /\ q = Tail(bufStrand) /\ w = Write(h.of, h.more)
      BY <1>1, <2>5
    <3>3. Len(q) + 1 = L
      BY <1>1, <3>1, <3>2
    <3>4. /\ Adds(t, q, p + Len(dataBuffer')) /\ bufStrand' = Append(q, w)
          /\ InChain(w) /\ w.of = t /\ w.op # "done"
      BY <2>3, <2>4, <2>5, <2>6, <3>2
    <3>5. /\ Posts(t, p, Len(q) + 1)'
          /\ Chained(Len(q) + 1)'
          /\ JustSent(Len(q) + 1)' <=> w.op = "done"
      BY <3>2, <3>4, PostsOfChain
    <3> QED
      BY <3>3, <3>4, <3>5
  <2>8. Len(bufStrand') = L
    BY <1>1, <2>5, <2>6
  <2>9. ~Chained(c) /\ ~JustSent(c)
    BY <1>1, <2>2 DEF Chained, JustSent
  <2>10. Total(t, p, L)'
    BY <1>1, <2>3, <2>7, <2>8, <2>9 DEF Flow, Total
  <2>11. Written(t, p, L)'
    BY <1>5, <2>1, <2>7, <2>9 DEF Flow, Written
  <2>12. L \in 1 .. Len(bufStrand') + 1
    BY <1>1, <2>8
  <2>13. Flow(t, p, L)'
    BY <1>4, <2>7, <2>10, <2>11 DEF Flow
  <2> QED
    BY <2>12, <2>13
<1>7. CASE dataBuffer # <<>>
  <2> DEFINE k == c - 1
  <2>1. bufStrand' = Tail(bufStrand) /\ Len(bufStrand') = L - 1
    BY <1>1, <1>7 DEF AddData
  <2>2. k \in 1 .. Len(bufStrand') + 1 /\ k + 1 = c
    BY <1>1, <1>3, <2>1
  <2>3. Posts(t, p, k)'
    <3>1. ASSUME NEW i \in DOMAIN Tail(bufStrand)
          PROVE  /\ Tail(bufStrand)[i].of = t
                 /\ InChain(Tail(bufStrand)[i]) <=> i = k
                 /\ i < k => Tail(bufStrand)[i].data = Item(t, p + (D + 1) + i)
                 /\ i > k => Tail(bufStrand)[i].data = Item(t, p + (D + 1) + i - 1)
                 /\ Tail(bufStrand)[i].op = "done" => Tail(bufStrand)[i].ok
      <4>1. /\ p + D + (i + 1) = p + (D + 1) + i
            /\ p + D + (i + 1) - 1 = p + (D + 1) + i - 1
            /\ (i + 1 = c) <=> (i = k)
            /\ (i + 1 < c) <=> (i < k)
            /\ (i + 1 > c) <=> (i > k)
        <5>1. i \in Nat /\ c \in Nat /\ D \in Nat
          BY <1>1, <1>2, <1>3
        <5> QED
          BY <5>1
      <4>2. /\ bufStrand[i + 1].of = t
            /\ InChain(bufStrand[i + 1]) <=> i + 1 = c
            /\ i + 1 < c => bufStrand[i + 1].data = Item(t, p + D + (i + 1))
            /\ i + 1 > c => bufStrand[i + 1].data = Item(t, p + D + (i + 1) - 1)
            /\ bufStrand[i + 1].op = "done" => bufStrand[i + 1].ok
        BY <1>1, <1>3 DEF Flow, Posts
      <4> HIDE DEF k
      <4> QED
        BY <1>3, <4>1, <4>2
    <3> QED
      BY <1>2, <2>1, <3>1 DEF Posts, InChain, Item, Buffer, BufferCount
  <2>4. /\ Chained(k)' <=> Chained(c)
        /\ JustSent(k)' <=> JustSent(c)
    <3>1. k \in DOMAIN Tail(bufStrand) <=> c \in DOMAIN bufStrand
      BY <1>1, <2>2
    <3>2. k \in DOMAIN Tail(bufStrand) => Tail(bufStrand)[k] = bufStrand[c]
      BY <1>3, <2>2
    <3> QED
      BY <2>1, <3>1, <3>2 DEF Chained, JustSent
  <2>5. Total(t, p, k)'
    BY <1>1, <1>2, <2>1, <2>4 DEF Flow, Total
  <2>6. dataBuffer'[1] = dataBuffer[1]
    BY <1>2, <1>7
  <2>7. Written(t, p, k)'
    BY <1>5, <1>7, <2>4, <2>6 DEF Flow, Written
  <2> QED
    BY <1>4, <2>2, <2>3, <2>5, <2>7 DEF Flow
<1> QED
  BY <1>6, <1>7

LEMMA FlowWrite ==
  ASSUME ChainTypeOK, OneChain, NEW t \in Transfers, NEW p \in Nat,
         NEW c \in 1 .. Len(bufStrand) + 1, Flow(t, p, c), WriteData,
         Posted(t)' = Posted(t), Posted(t) \in Nat
  PROVE  \E c2 \in 1 .. Len(bufStrand') + 1 : Flow(t, p, c2)'
<1> DEFINE h == Head(bufStrand)
<1>1. /\ bufStrand # <<>> /\ h \in Handlers /\ InChain(h) /\ h.op = "write"
      /\ bufStrand[1] = h /\ 1 \in DOMAIN bufStrand
  BY StrandShift DEF WriteData, Runs, ChainTypeOK, InChain
<1>2. writing = {} /\ dataBuffer # <<>>
  BY <1>1, HeadIsTheChain DEF ChainTypeOK
<1>3. c = 1 /\ Adds(t, Tail(bufStrand), p + Len(dataBuffer))
  BY <1>1, AddsBehindChain DEF Flow
<1>4. PICK q \in Seq(Handlers) : q = Tail(bufStrand)
  BY StrandShift, <1>1 DEF ChainTypeOK
<1>5. /\ Len(q) \in Nat /\ Len(bufStrand) = Len(q) + 1
  BY <1>1, <1>4 DEF ChainTypeOK
<1>6. bufStrand' = q /\ UNCHANGED <<dataBuffer, sent>>
  BY <1>4 DEF WriteData
<1>7. /\ Posts(t, p, Len(q) + 1)' /\ ~Chained(Len(q) + 1)'
      /\ ~JustSent(Len(q) + 1)'
  <2>1. Adds(t, q, p + Len(dataBuffer'))
    BY <1>3, <1>4, <1>6
  <2> QED
    BY <1>6, <2>1, PostsOfAdds
<1>8. Chained(c) /\ ~JustSent(c) /\ h.of = t
  BY <1>1, <1>3 DEF Chained, JustSent, Flow, Posts
<1>9. Deque(t, p)'
  BY <1>6 DEF Flow, Deque, Item, Buffer, BufferCount
<1>10. Total(t, p, Len(q) + 1)'
  <2>1. p + Len(dataBuffer) + Len(bufStrand) = Posted(t) + 1
    BY <1>8 DEF Flow, Total
  <2>2. Len(dataBuffer) \in Nat
    BY DEF ChainTypeOK
  <2>3. p + Len(dataBuffer) + Len(q) + 1 = Posted(t) + 1
    BY <1>5, <2>1, <2>2
  <2>4. Posted(t) = p + Len(dataBuffer) + Len(q)
    <3>1. \A a, b, d, e \in Nat : a + b + d + 1 = e + 1 => e = a + b + d
      OBVIOUS
    <3> QED
      BY <1>5, <2>2, <2>3, <3>1
  <2> QED
    BY <1>6, <1>7, <2>4 DEF Total
<1>11. Written(t, p, Len(q) + 1)'
  <2>1. writing' = {[of |-> t, data |-> dataBuffer[1], more |-> h.more]}
        /\ dataBuffer[1] # Null
    BY <1>2, <1>8 DEF WriteData
  <2>2. Len(sent[t]) = p
    BY <1>8 DEF Flow, Written
  <2> QED
    BY <1>6, <1>7, <2>1, <2>2 DEF Written
<1>12. Len(q) + 1 \in 1 .. Len(bufStrand') + 1
  BY <1>5, <1>6
<1>13. Flow(t, p, Len(q) + 1)'
  BY <1>7, <1>9, <1>10, <1>11 DEF Flow
<1> QED
  BY <1>12, <1>13

LEMMA FlowSent ==
  ASSUME ChainTypeOK, OneChain, broken = {}, NEW t \in Transfers, NEW p \in Nat,
         NEW c \in 1 .. Len(bufStrand) + 1, Flow(t, p, c),
         NEW w \in writing, WriteCompletes(w), Posted(t)' = Posted(t)
  PROVE  /\ \E c2 \in 1 .. Len(bufStrand') + 1 : Flow(t, p, c2)'
         /\ w.of = t /\ w.data = Item(t, p + 1) /\ w.data # Null /\ Len(sent[t]) = p
         /\ sent' = [sent EXCEPT ![t] = Append(@, w.data)]
<1>1. /\ \A i \in DOMAIN bufStrand : ~InChain(bufStrand[i])
      /\ \A x \in writing : x = w
      /\ dataBuffer # <<>>
  BY DEF OneChain
<1>2. c = Len(bufStrand) + 1 /\ Adds(t, bufStrand, p + Len(dataBuffer))
  BY <1>1, AddsWithoutChain DEF Flow
<1>3. /\ Len(bufStrand) \in Nat /\ bufStrand \in Seq(Handlers)
      /\ ~Chained(c) /\ ~JustSent(c)
  BY <1>2 DEF ChainTypeOK, Chained, JustSent
<1>4. /\ w.of = t /\ w.data = dataBuffer[1] /\ w.data # Null /\ Len(sent[t]) = p
      /\ w \in Writes
  BY <1>3 DEF Flow, Written, ChainTypeOK
<1>5. w.data = Item(t, p + 1)
  BY <1>1, <1>4 DEF Flow, Deque, ChainTypeOK
<1>6. sent' = [sent EXCEPT ![t] = Append(@, w.data)] /\ writing' = {}
      /\ dataBuffer' = dataBuffer
  BY <1>1, <1>4 DEF WriteCompletes
<1>7. PICK h \in Handlers : h = Done(t, w.more, TRUE)
  BY <1>4, HandlerTypes
<1>8. InChain(h) /\ h.of = t /\ h.op = "done" /\ h.ok
  BY <1>7 DEF InChain, Done
<1>9. bufStrand' = Append(bufStrand, h)
  <2>1. (w.of \notin broken) = TRUE
    OBVIOUS
  <2> QED
    BY <1>4, <1>7, <2>1 DEF WriteCompletes
<1>10. PICK L \in Nat : L = Len(bufStrand)
  BY <1>3
<1>11. Posts(t, p, L + 1)' /\ Chained(L + 1)' /\ JustSent(L + 1)'
  <2>1. PICK q \in Seq(Handlers) : q = bufStrand
    BY <1>3
  <2>2. Adds(t, q, p + Len(dataBuffer')) /\ bufStrand' = Append(q, h) /\ L = Len(q)
    BY <1>2, <1>6, <1>9, <1>10, <2>1
  <2> QED
    BY <1>8, <2>2, PostsOfChain
<1>12. Len(bufStrand') = L + 1
  BY <1>3, <1>9, <1>10
<1>13. Total(t, p, L + 1)'
  BY <1>3, <1>6, <1>10, <1>11, <1>12 DEF Flow, Total, ChainTypeOK
<1>14. Len(sent'[t]) = p + 1
  <2>1. sent[t] \in Seq(Buffers) /\ w.data \in Buffers
    BY <1>4, HandlerTypes DEF ChainTypeOK
  <2>2. sent'[t] = Append(sent[t], w.data)
    BY <1>6 DEF ChainTypeOK
  <2> QED
    BY <1>4, <2>1, <2>2
<1>15. Written(t, p, L + 1)'
  BY <1>6, <1>11, <1>14 DEF Written
<1>16. Deque(t, p)'
  BY <1>6 DEF Flow, Deque, Item, Buffer, BufferCount
<1>17. Flow(t, p, L + 1)'
  BY <1>11, <1>13, <1>15, <1>16 DEF Flow
<1>18. L + 1 \in 1 .. Len(bufStrand') + 1
  BY <1>12
<1> QED
  BY <1>4, <1>5, <1>6, <1>17, <1>18

LEMMA FlowDone ==
  ASSUME ChainTypeOK, OneChain, NEW t \in Transfers, NEW p \in Nat,
         NEW c \in 1 .. Len(bufStrand) + 1, Flow(t, p, c), WriteDone,
         Posted(t)' = Posted(t), Posted(t) \in Nat
  PROVE  /\ \E c2 \in 1 .. Len(bufStrand') + 1 : Flow(t, p + 1, c2)'
         /\ Len(sent[t]) = p + 1
<1> DEFINE h == Head(bufStrand)
<1>1. /\ bufStrand # <<>> /\ h \in Handlers /\ InChain(h) /\ h.op = "done"
      /\ bufStrand[1] = h /\ 1 \in DOMAIN bufStrand
  BY StrandShift DEF WriteDone, Runs, ChainTypeOK, InChain
<1>2. writing = {} /\ dataBuffer # <<>>
  BY <1>1, HeadIsTheChain DEF ChainTypeOK
<1>3. c = 1 /\ Adds(t, Tail(bufStrand), p + Len(dataBuffer))
  BY <1>1, AddsBehindChain DEF Flow
<1>4. PICK q \in Seq(Handlers) : q = Tail(bufStrand)
  BY StrandShift, <1>1 DEF ChainTypeOK
<1>5. PICK n \in Nat : n = Len(q)
  BY <1>4
<1>6. Len(bufStrand) = n + 1
  BY <1>1, <1>4, <1>5 DEF ChainTypeOK
<1>7. Chained(c) /\ JustSent(c) /\ h.of = t /\ h.ok
  BY <1>1, <1>3 DEF Chained, JustSent, Flow, Posts
<1>8. Len(sent[t]) = p + 1
  BY <1>7 DEF Flow, Written
<1>9. /\ dataBuffer' = Tail(dataBuffer) /\ UNCHANGED <<writing, sent>>
  BY DEF WriteDone
<1>10. PICK D \in Nat : D = Len(dataBuffer') /\ Len(dataBuffer) = D + 1
  BY <1>2, <1>9, StrandTail DEF ChainTypeOK
<1>12. Deque(t, p + 1)'
  <2>1. \A i \in DOMAIN Tail(dataBuffer) :
          /\ i \in Nat /\ i + 1 \in DOMAIN dataBuffer
          /\ Tail(dataBuffer)[i] = dataBuffer[i + 1]
    BY <1>2, StrandTail DEF ChainTypeOK
  <2>2. ASSUME NEW i \in DOMAIN Tail(dataBuffer)
        PROVE  Tail(dataBuffer)[i] = Item(t, p + 1 + i)
    <3>1. dataBuffer[i + 1] = Item(t, p + (i + 1))
      BY <2>1 DEF Flow, Deque
    <3>2. p + (i + 1) = p + 1 + i
      BY <2>1
    <3> QED
      BY <2>1, <3>1, <3>2
  <2> QED
    BY <1>9, <2>2 DEF Deque, Item, Buffer, BufferCount
<1>13. Adds(t, q, (p + 1) + Len(dataBuffer'))
  <2>1. p + Len(dataBuffer) = (p + 1) + Len(dataBuffer')
    BY <1>10
  <2> QED
    BY <1>3, <1>4, <2>1
<1>14. p + 1 + D + n = Posted(t)
  <2>1. p + Len(dataBuffer) + Len(bufStrand) = Posted(t) + 1
    BY <1>7 DEF Flow, Total
  <2> QED
    <3>1. \A a, b, d, e \in Nat :
            a + (b + 1) + (d + 1) = e + 1 => a + 1 + b + d = e
      OBVIOUS
    <3>2. p + (D + 1) + (n + 1) = Posted(t) + 1
      BY <1>6, <1>10, <2>1
    <3> QED
      BY <3>1, <3>2
<1>15. CASE dataBuffer' = <<>>
  <2>1. bufStrand' = q
    BY <1>4, <1>15 DEF WriteDone
  <2>2. Posts(t, p + 1, n + 1)' /\ ~Chained(n + 1)' /\ ~JustSent(n + 1)'
    BY <1>5, <1>13, <2>1, PostsOfAdds
  <2>3. Total(t, p + 1, n + 1)'
    BY <1>5, <1>10, <1>14, <2>1, <2>2 DEF Total
  <2>4. Written(t, p + 1, n + 1)'
    BY <1>2, <1>8, <1>9, <1>15, <2>2 DEF Written
  <2>5. Flow(t, p + 1, n + 1)'
    BY <1>12, <2>2, <2>3, <2>4 DEF Flow
  <2>6. n + 1 \in 1 .. Len(bufStrand') + 1
    BY <1>5, <2>1
  <2> QED
    BY <1>8, <2>5, <2>6
<1>16. CASE dataBuffer' # <<>>
  <2>1. PICK w \in Handlers : w = Write(t, h.more)
    BY <1>1, <1>7, HandlerTypes
  <2>2. InChain(w) /\ w.of = t /\ w.op # "done"
    BY <2>1 DEF InChain, Write
  <2>3. bufStrand' = Append(q, w)
    BY <1>4, <1>7, <1>16, <2>1 DEF WriteDone
  <2>4. Posts(t, p + 1, n + 1)' /\ Chained(n + 1)' /\ ~JustSent(n + 1)'
    <3>1. /\ Posts(t, p + 1, Len(q) + 1)' /\ Chained(Len(q) + 1)'
          /\ JustSent(Len(q) + 1)' <=> w.op = "done"
      <4>1. p + 1 \in Nat /\ (w.op = "done" => w.ok)
        BY <2>2
      <4> QED
        BY <1>13, <2>2, <2>3, <4>1, PostsOfChain
    <3> QED
      BY <1>5, <2>2, <3>1
  <2>5. Len(bufStrand') = n + 1
    BY <1>5, <2>3
  <2>6. Total(t, p + 1, n + 1)'
    BY <1>10, <1>14, <2>4, <2>5 DEF Total
  <2>7. Written(t, p + 1, n + 1)'
    BY <1>2, <1>8, <1>9, <2>4 DEF Written
  <2>8. Flow(t, p + 1, n + 1)'
    BY <1>12, <2>4, <2>6, <2>7 DEF Flow
  <2>9. n + 1 \in 1 .. Len(bufStrand') + 1
    BY <2>5
  <2> QED
    BY <1>8, <2>8, <2>9
<1> QED
  BY <1>15, <1>16

LEMMA FlowsKept ==
  ASSUME Flows, UNCHANGED <<bufStrand, dataBuffer, writing, sent>>,
         \A t \in Transfers : Sending(t)' => Sending(t) /\ Posted(t)' = Posted(t)
  PROVE  Flows'
<1> SUFFICES ASSUME NEW t \in Transfers, Sending(t)'
             PROVE  \E p \in 0 .. Len(sent'[t]), c \in 1 .. Len(bufStrand') + 1 :
                      Flow(t, p, c)'
  BY DEF Flows
<1>1. PICK p \in 0 .. Len(sent[t]), c \in 1 .. Len(bufStrand) + 1 : Flow(t, p, c)
  BY DEF Flows
<1>2. Flow(t, p, c)'
  BY <1>1, FlowKept
<1> QED
  BY <1>2

LEMMA QuietKept ==
  ASSUME Quiet, UNCHANGED <<bufStrand, dataBuffer, writing>>,
         \A t \in Transfers : Sending(t) => Sending(t)'
  PROVE  Quiet'
BY DEF Quiet

(* No command is taken while a transfer is at hand, so that the one taken  *)
(* is the only one... *)
LEMMA StepCommand ==
  ASSUME Sequential, IInv, SInv, NEW t \in Transfers,
         RETR(t) \/ Refused(t) \/ LIST(t)
  PROVE  SInv'
<1>1. /\ state[t] = "unused" /\ finals[t] = <<>>
      /\ \A u \in Transfers : ~Asked(u)
      /\ UNCHANGED <<toPost, pos, fileStrand, ending, bufStrand, dataBuffer,
                     writing, broken, sent>>
  BY DEF SInv, Stages, Asked, RETR, Refused, RETRRefused, LISTRefused, Refuse, LIST,
         MayIssue, AsyncAccept, readVars, chainVars
<1>2. state \in [Transfers -> States] /\ pending \in Seq(Transfers)
  BY DEF IInv, WorkTypeOK, AcceptTypeOK
<1>3. pending = <<>>
  <2>1. \A i \in DOMAIN pending : FALSE
    BY <1>1, <1>2 DEF SInv, Turns, Stages, Asked
  <2> QED
    BY <1>2, <2>1, StrandShift
<1>4. /\ state'[t] \in {"accepting", "failed", "refused"}
      /\ state' = [state EXCEPT ![t] = state'[t]]
      /\ \A u \in Transfers \ {t} : finals'[u] = finals[u]
      /\ state'[t] \in {"accepting", "failed"} => finals' = finals
      /\ \/ pending' = <<>>
         \/ pending' = <<t>> /\ state'[t] = "accepting"
  <2>1. finals \in [Transfers -> Seq(Finals)]
    BY DEF IInv, WorkTypeOK, FinalsTypeOK
  <2>2. CASE Refused(t)
    BY <1>2, <1>3, <2>1, <2>2 DEF Refused, RETRRefused, LISTRefused, Refuse, SendFinal
  <2>3. CASE RETR(t) \/ LIST(t)
    <3>1. AsyncAccept(t)
      BY <2>3 DEF RETR, LIST
    <3>2. Append(pending, t) = <<t>>
      BY <1>3
    <3> QED
      BY <1>2, <1>3, <3>1, <3>2 DEF AsyncAccept
  <2> QED
    BY <2>2, <2>3
<1>5. \A u \in Transfers : u # t => state'[u] = state[u] /\ finals'[u] = finals[u]
  BY <1>2, <1>4
<1>6. \A u \in Transfers : /\ ~Sending(u) /\ ~Sending(u)'
                           /\ Asked(u)' => u = t
  BY <1>1, <1>4, <1>5 DEF Sending, Asked
<1>7. OneAsked'
  BY <1>6 DEF OneAsked
<1>8. Stages'
  BY <1>1, <1>4, <1>5 DEF SInv, Stages, BufferCount
<1>9. Turns'
  <2>1. /\ Len(pending') <= 1
        /\ \A i \in DOMAIN pending' : state'[pending'[i]] = "accepting"
    <3>1. CASE pending' = <<>>
      BY <3>1
    <3>2. CASE pending' = <<t>> /\ state'[t] = "accepting"
      BY <3>2
    <3> QED
      BY <1>4, <3>1, <3>2
  <2>2. \A i \in DOMAIN fileStrand : fileStrand[i] # t /\ fileStrand[i] \in Transfers
    BY <1>1, HandlerTypes DEF SInv, Turns, IInv, WorkTypeOK, ReadTypeOK
  <2>3. ending = Null
    BY <1>6, HandlerTypes DEF SInv, Turns, IInv, WorkTypeOK, ReadTypeOK
  <2> QED
    BY <1>1, <1>5, <2>1, <2>2, <2>3 DEF SInv, Turns
<1>10. Quiet' /\ Flows'
  BY <1>1, <1>6, QuietKept, FlowsKept DEF SInv
<1>11. SentSoFar' /\ broken' = {}
  BY <1>1 DEF SInv, SentSoFar, Buffer, BufferCount
<1> QED
  BY <1>7, <1>8, <1>9, <1>10, <1>11 DEF SInv

(* ...and is accepted, or fails, before anything is read or written for it. *)
LEMMA StepAccept ==
  ASSUME IInv, SInv,
         PASV \/ Accept \/ AcceptError \/ \E t \in Transfers : AcceptFailed(t)
  PROVE  SInv'
<1>1. /\ state \in [Transfers -> States] /\ pending \in Seq(Transfers)
      /\ toPost \in [Transfers -> 0 .. 3]
      /\ finals \in [Transfers -> Seq(Finals)]
  BY DEF IInv, WorkTypeOK, AcceptTypeOK, FinalsTypeOK
<1>2. UNCHANGED <<pos, fileStrand, ending, bufStrand, dataBuffer, writing, broken, sent>>
  BY DEF PASV, Accept, AcceptError, AcceptFailed, readVars, chainVars
<1>3. SentSoFar' /\ broken' = {}
  BY <1>2 DEF SInv, SentSoFar, Buffer, BufferCount
<1>4. /\ \A i \in DOMAIN fileStrand :
           fileStrand[i] \in Transfers /\ state[fileStrand[i]] = "accepted"
      /\ ending # Null => ending \in Transfers /\ Sending(ending)
  BY HandlerTypes DEF SInv, Turns, IInv, WorkTypeOK, ReadTypeOK
<1>5. CASE PASV
  <2>1. /\ pending' = <<>> /\ UNCHANGED <<toPost, finals>>
        /\ \A t \in Transfers :
             state'[t] = IF state[t] = "accepting" THEN "failed" ELSE state[t]
    BY <1>1, <1>5 DEF PASV
  <2>2. \A t \in Transfers : /\ Sending(t)' <=> Sending(t)
                             /\ Asked(t)' <=> Asked(t)
                             /\ Posted(t)' = Posted(t)
    BY <1>2, <2>1 DEF Sending, Asked, Posted, BufferCount
  <2>3. OneAsked' /\ Quiet' /\ Flows'
    BY <1>2, <2>2, QuietKept, FlowsKept DEF SInv, OneAsked
  <2>4. Stages'
    BY <1>2, <2>1 DEF SInv, Stages, BufferCount
  <2>5. Turns'
    BY <1>2, <1>4, <2>1, <2>2 DEF SInv, Turns, BufferCount, Sending
  <2> QED
    BY <1>3, <2>3, <2>4, <2>5 DEF SInv
<1>6. CASE Accept \/ AcceptError
  <2>1. PICK t \in Transfers : /\ pending # <<>> /\ t = Head(pending)
                               /\ state[t] = "accepting"
    BY <1>1, <1>6, StrandShift DEF Accept, AcceptError, SInv, Turns
  <2>2. pending' = <<>>
    BY <1>1, <1>6, <2>1, StrandTail DEF Accept, AcceptError, SInv, Turns
  <2>3. /\ finals' = finals
        /\ \A u \in Transfers : u # t => state'[u] = state[u] /\ toPost'[u] = toPost[u]
    BY <1>1, <1>6, <2>1 DEF Accept, AcceptError
  <2>4. /\ finals[t] = <<>> /\ sent[t] = <<>> /\ pos[t] = 0
        /\ Asked(t)
    BY <2>1 DEF SInv, Stages, Asked
  <2>5. /\ \A u \in Transfers : ~Sending(u)
        /\ \A u \in Transfers : Asked(u) => u = t
    BY <2>1, <2>4 DEF SInv, OneAsked, Sending, Asked
  <2>6. /\ bufStrand = <<>> /\ dataBuffer = <<>> /\ writing = {} /\ ending = Null
    BY <1>4, <2>5 DEF SInv, Quiet
  <2>7. OneAsked'
    BY <2>3, <2>5 DEF OneAsked, Asked
  <2>8. /\ \A i \in DOMAIN fileStrand' : state'[fileStrand'[i]] = "accepted"
    BY <1>2, <1>4, <2>1, <2>3
  <2>9. Turns'
    BY <1>2, <2>2, <2>6, <2>8 DEF Turns
  <2>10. CASE AcceptError
    <3>1. state'[t] = "failed" /\ toPost' = toPost
      BY <1>1, <2>1, <2>10 DEF AcceptError
    <3>2. \A u \in Transfers : ~Sending(u)'
      BY <2>3, <2>5, <3>1 DEF Sending
    <3>3. Quiet' /\ Flows'
      BY <1>2, <2>5, <3>2, QuietKept, FlowsKept DEF SInv
    <3>4. Stages'
      BY <1>2, <2>1, <2>3, <2>4, <3>1 DEF SInv, Stages, BufferCount
    <3> QED
      BY <1>3, <2>7, <2>9, <3>3, <3>4 DEF SInv
  <2>11. CASE Accept
    <3>1. state'[t] = "accepted" /\ toPost'[t] = IF t \in Files THEN 3 ELSE 2
      BY <1>1, <2>1, <2>11 DEF Accept
    <3>2. \A u \in Transfers : Sending(u)' <=> u = t
      BY <2>3, <2>4, <2>5, <3>1 DEF Sending
    <3>3. Stages'
      BY <1>2, <2>1, <2>3, <2>4, <3>1, Items DEF SInv, Stages, BufferCount
    <3>4. Posted(t)' = 0
      BY <1>2, <2>4, <3>1, Items DEF Posted, BufferCount
    <3>5. Flow(t, 0, 1)'
      BY <1>2, <2>4, <2>6, <3>4
         DEF Flow, Deque, Posts, Total, Written, Chained, JustSent
    <3>6. 0 \in 0 .. Len(sent'[t]) /\ 1 \in 1 .. Len(bufStrand') + 1
      BY <1>2, <2>4, <2>6
    <3>7. Flows'
      BY <3>2, <3>5, <3>6 DEF Flows
    <3>8. Quiet'
      BY <3>2 DEF Quiet
    <3> QED
      BY <1>3, <2>7, <2>9, <3>3, <3>7, <3>8 DEF SInv
  <2> QED
    BY <1>6, <2>10, <2>11
<1>7. ASSUME NEW t \in Transfers, AcceptFailed(t) PROVE SInv'
  <2>1. /\ state[t] = "failed" /\ state'[t] = "aborted" /\ finals'[t] # <<>>
        /\ UNCHANGED <<pending, toPost>>
        /\ \A u \in Transfers : u # t => state'[u] = state[u] /\ finals'[u] = finals[u]
    BY <1>1, <1>7 DEF AcceptFailed, SendFinal
  <2>2. \A u \in Transfers : /\ Sending(u)' <=> Sending(u)
                             /\ Asked(u)' => Asked(u)
                             /\ Posted(u)' = Posted(u)
    BY <1>2, <2>1 DEF Sending, Asked, Posted, BufferCount
  <2>3. OneAsked' /\ Quiet' /\ Flows'
    BY <1>2, <2>2, QuietKept, FlowsKept DEF SInv, OneAsked
  <2>4. Stages'
    BY <1>2, <2>1 DEF SInv, Stages, BufferCount
  <2>5. \A i \in DOMAIN pending : state'[pending[i]] = "accepting"
    BY <1>1, <2>1 DEF SInv, Turns
  <2>6. \A i \in DOMAIN fileStrand : state'[fileStrand[i]] = "accepted"
    BY <1>4, <2>1
  <2>7. Turns'
    BY <1>2, <1>4, <2>1, <2>2, <2>5, <2>6 DEF SInv, Turns, BufferCount, Sending
  <2> QED
    BY <1>3, <2>3, <2>4, <2>7 DEF SInv
<1> QED
  BY <1>5, <1>6, <1>7

(* The line of the transfer at hand has moved on. *)
LEMMA LineMoved ==
  ASSUME OneAsked, UNCHANGED <<state, finals>>, NEW t \in Transfers, Sending(t),
         NEW p \in Nat, \E c \in 1 .. Len(bufStrand') + 1 : Flow(t, p, c)'
  PROVE  OneAsked' /\ Quiet' /\ Flows'
<1>1. \A u \in Transfers : Sending(u)' <=> u = t
  BY DEF OneAsked, Asked, Sending
<1>2. p \in 0 .. Len(sent'[t])
  BY DEF Flow, Written
<1>3. Flows'
  BY <1>1, <1>2 DEF Flows
<1>4. Quiet'
  BY <1>1 DEF Quiet
<1>5. OneAsked'
  BY DEF OneAsked, Asked
<1> QED
  BY <1>3, <1>4, <1>5

(* The accept handler posts a read, which moves nothing, or the next item  *)
(* of a listing.                                                           *)
LEMMA StepPostNext ==
  ASSUME IInv, SInv, NEW t \in Transfers, PostNext(t)
  PROVE  SInv'
<1>1. /\ toPost \in [Transfers -> 0 .. 3] /\ fileStrand \in Seq(Files)
      /\ ChainTypeOK /\ AcceptTypeOK /\ ReadTypeOK
      /\ Files \subseteq Transfers
  BY HandlerTypes DEF IInv, WorkTypeOK, AcceptTypeOK, ReadTypeOK
<1>2. /\ toPost[t] > 0 /\ toPost'[t] = toPost[t] - 1
      /\ \A u \in Transfers : u # t => toPost'[u] = toPost[u]
      /\ UNCHANGED <<acceptor, pending, state, pos, ending, dataBuffer, writing,
                     broken, sent, finals>>
  BY <1>1 DEF PostNext
<1>3. state[t] = "accepted"
  BY <1>1, <1>2 DEF SInv, Stages
<1>4. \A u \in Transfers : Sending(u)' <=> Sending(u)
  BY <1>2 DEF Sending
<1>5. SentSoFar' /\ broken' = {} /\ OneAsked'
  BY <1>2 DEF SInv, SentSoFar, Buffer, BufferCount, OneAsked, Asked
<1>6. Stages'
  <2>1. \A u \in Transfers : toPost'[u] <= toPost[u] /\ toPost'[u] \in Nat
    BY <1>1, <1>2
  <2>2. \A u \in Transfers : (toPost[u] = 0 => toPost'[u] = 0)
                             /\ (toPost[u] <= 2 => toPost'[u] <= 2)
    BY <1>1, <2>1
  <2> QED
    BY <1>2, <2>2 DEF SInv, Stages, BufferCount
<1>7. CASE t \in Files
  <2>1. fileStrand' = Append(fileStrand, t) /\ bufStrand' = bufStrand
    BY <1>7 DEF PostNext
  <2>2. \A i \in DOMAIN fileStrand' : state[fileStrand'[i]] = "accepted"
    BY <1>1, <1>3, <1>7, <2>1, StrandAppend DEF SInv, Turns
  <2>3. Turns'
    BY <1>2, <2>2 DEF SInv, Turns, BufferCount, Sending
  <2>4. \A u \in Transfers : Posted(u)' = Posted(u)
    BY <1>2, <1>7 DEF Posted, BufferCount
  <2>5. Quiet' /\ Flows'
    BY <1>2, <1>4, <2>1, <2>4, QuietKept, FlowsKept DEF SInv
  <2> QED
    BY <1>5, <1>6, <2>3, <2>5 DEF SInv
<1>8. CASE t \notin Files
  <2>1. Sending(t)
    BY <1>2, <1>3, <1>8 DEF SInv, Stages, Sending
  <2>2. PICK p \in 0 .. Len(sent[t]), c \in 1 .. Len(bufStrand) + 1 : Flow(t, p, c)
    BY <2>1 DEF SInv, Flows
  <2>3. toPost[t] \in 1 .. 2
    BY <1>1, <1>2, <1>8 DEF SInv, Stages
  <2>4. /\ Posted(t) = 2 - toPost[t] /\ Posted(t)' = 2 - toPost'[t]
        /\ Posted(t) \in Nat /\ Posted(t)' = Posted(t) + 1
    BY <1>2, <1>8, <2>3 DEF Posted
  <2>5. Item(t, Posted(t) + 1) = IF toPost[t] = 2 THEN Buffer(t, 1) ELSE Null
    BY <1>8, <2>3, <2>4 DEF Item, BufferCount
  <2>6. bufStrand' = Append(bufStrand, Add(t, Item(t, Posted(t) + 1), FALSE))
    BY <1>8, <2>5 DEF PostNext
  <2>7. \E c2 \in 1 .. Len(bufStrand') + 1 : Flow(t, p, c2)'
    <3>1. PICK more \in BOOLEAN : more = FALSE
      OBVIOUS
    <3>2. bufStrand' = Append(bufStrand, Add(t, Item(t, Posted(t) + 1), more))
      BY <2>6, <3>1, Zenon
    <3>3. p \in Nat
      BY <1>1 DEF ChainTypeOK
    <3> QED
      BY <1>1, <1>2, <2>2, <2>4, <3>2, <3>3, FlowPosted
  <2>8. Quiet' /\ Flows'
    BY <1>2, <2>1, <2>2, <2>7, LineMoved DEF SInv
  <2>9. Turns'
    BY <1>2, <1>8 DEF PostNext, SInv, Turns, BufferCount, Sending
  <2> QED
    BY <1>5, <1>6, <2>8, <2>9 DEF SInv
<1> QED
  BY <1>7, <1>8

(* The reads: of a file that is read to its end nothing more comes. *)
LEMMA StepFileStrand ==
  ASSUME IInv, SInv, FileStrand
  PROVE  SInv'
<1>1. /\ fileStrand \in Seq(Files) /\ Files \subseteq Transfers
      /\ pos \in [Transfers -> Nat] /\ ending \in Files \cup {Null}
      /\ ChainTypeOK /\ AcceptTypeOK /\ ReadTypeOK /\ Null \notin Transfers
  BY HandlerTypes DEF IInv, WorkTypeOK, ReadTypeOK
<1>2. UNCHANGED <<acceptor, pending, state, toPost, dataBuffer, writing, broken,
                  sent, finals>>
  BY DEF FileStrand, ReadAtEof, ReadBuffer, PostEnd, acceptVars, chainVars
<1>3. SentSoFar' /\ broken' = {} /\ OneAsked'
  BY <1>2 DEF SInv, SentSoFar, Buffer, BufferCount, OneAsked, Asked
<1>4. CASE ReadAtEof
  <2>1. UNCHANGED <<pos, ending, bufStrand>> /\ fileStrand' = Tail(fileStrand)
        /\ fileStrand # <<>>
    BY <1>4 DEF ReadAtEof, chainVars
  <2>2. \A i \in DOMAIN fileStrand' : state'[fileStrand'[i]] = "accepted"
    BY <1>1, <1>2, <2>1, StrandTail DEF SInv, Turns
  <2>3. \A u \in Transfers : /\ Sending(u)' <=> Sending(u)
                             /\ Posted(u)' = Posted(u)
    BY <1>2, <2>1 DEF Sending, Posted, BufferCount
  <2>4. Quiet' /\ Flows'
    BY <1>2, <2>1, <2>3, QuietKept, FlowsKept DEF SInv
  <2>5. Turns' /\ Stages'
    BY <1>2, <2>1, <2>2 DEF SInv, Turns, Stages, BufferCount, Sending
  <2> QED
    BY <1>3, <2>4, <2>5 DEF SInv
<1>5. CASE ReadBuffer
  <2>1. PICK t \in Files : t = Head(fileStrand) /\ t \in Transfers
    BY <1>1, <1>5, StrandShift DEF ReadBuffer
  <2>2. /\ fileStrand # <<>> /\ fileStrand' = Tail(fileStrand) /\ ending = Null
        /\ pos[t] < BufferCount(t) /\ pos' = [pos EXCEPT ![t] = pos[t] + 1]
        /\ bufStrand' = Append(bufStrand,
              Add(t, Buffer(t, pos'[t]), pos'[t] < BufferCount(t)))
        /\ ending' = IF pos'[t] = BufferCount(t) THEN t ELSE Null
    BY <1>5, <2>1 DEF ReadBuffer
  <2>3. /\ state[t] = "accepted" /\ pos[t] \in Nat /\ pos'[t] = pos[t] + 1
        /\ BufferCount(t) \in Nat
        /\ \A u \in Transfers : u # t => pos'[u] = pos[u]
    BY <1>1, <2>1, <2>2, StrandShift, Items DEF SInv, Turns
  <2>4. Sending(t)
    BY <2>1, <2>2, <2>3 DEF SInv, Stages, Sending
  <2>5. PICK p \in 0 .. Len(sent[t]), c \in 1 .. Len(bufStrand) + 1 : Flow(t, p, c)
    BY <2>1, <2>4 DEF SInv, Flows
  <2>6. Posted(t) = pos[t] /\ Posted(t)' = pos[t] + 1
    BY <1>1, <2>1, <2>2, <2>3 DEF Posted, BufferCount
  <2>7. Buffer(t, pos'[t]) = Item(t, Posted(t) + 1)
    BY <2>1, <2>2, <2>3, <2>6, Items
  <2>8. PICK more \in BOOLEAN : more = (pos'[t] < BufferCount(t))
    <3>1. (pos'[t] < BufferCount(t)) \in BOOLEAN
      OBVIOUS
    <3> QED
      BY <3>1, Zenon
  <2>9. bufStrand' = Append(bufStrand, Add(t, Item(t, Posted(t) + 1), more))
    BY <2>2, <2>7, <2>8
  <2>10. \E c2 \in 1 .. Len(bufStrand') + 1 : Flow(t, p, c2)'
    BY <1>1, <1>2, <2>1, <2>3, <2>5, <2>6, <2>9, FlowPosted
  <2>11. Quiet' /\ Flows'
    BY <1>2, <2>1, <2>4, <2>5, <2>10, LineMoved DEF SInv
  <2>12. \A i \in DOMAIN fileStrand' : state'[fileStrand'[i]] = "accepted"
    BY <1>1, <1>2, <2>2, StrandTail DEF SInv, Turns
  <2>13. ending' # Null => Sending(ending)' /\ pos'[ending'] = BufferCount(ending)'
    BY <1>1, <1>2, <2>1, <2>2, <2>4 DEF Sending, BufferCount
  <2>14. Turns'
    BY <1>2, <2>12, <2>13 DEF SInv, Turns
  <2>15. Stages'
    <3>1. pos'[t] <= BufferCount(t)
      BY <2>2, <2>3
    <3>2. finals[t] = <<>>
      BY <2>4 DEF Sending
    <3> QED
      BY <1>2, <2>1, <2>3, <3>1, <3>2 DEF SInv, Stages, BufferCount
  <2> QED
    BY <1>3, <2>11, <2>14, <2>15 DEF SInv
<1>6. CASE PostEnd
  <2>1. PICK t \in Files : t = ending /\ t \in Transfers
    BY <1>1, <1>6 DEF PostEnd
  <2>2. /\ bufStrand' = Append(bufStrand, Add(t, Null, FALSE)) /\ ending' = Null
        /\ UNCHANGED <<pos, fileStrand>>
    BY <1>6, <2>1 DEF PostEnd
  <2>3. Sending(t) /\ pos[t] = BufferCount(t) /\ BufferCount(t) \in Nat
    BY <1>1, <2>1, Items DEF SInv, Turns
  <2>4. PICK p \in 0 .. Len(sent[t]), c \in 1 .. Len(bufStrand) + 1 : Flow(t, p, c)
    BY <2>1, <2>3 DEF SInv, Flows
  <2>5. Posted(t) = BufferCount(t) /\ Posted(t)' = BufferCount(t) + 1
    BY <1>1, <2>1, <2>2, <2>3 DEF Posted, BufferCount
  <2>6. Item(t, Posted(t) + 1) = Null
    BY <2>1, <2>3, <2>5, Items
  <2>7. \E c2 \in 1 .. Len(bufStrand') + 1 : Flow(t, p, c2)'
    <3>1. PICK more \in BOOLEAN : more = FALSE
      OBVIOUS
    <3>2. bufStrand' = Append(bufStrand, Add(t, Item(t, Posted(t) + 1), more))
      BY <2>2, <2>6, <3>1, Zenon
    <3>3. p \in Nat /\ Posted(t) \in Nat /\ Posted(t)' = Posted(t) + 1
      BY <1>1, <2>1, <2>3, <2>5 DEF ChainTypeOK
    <3> QED
      BY <1>1, <1>2, <2>1, <2>4, <3>2, <3>3, FlowPosted
  <2>8. Quiet' /\ Flows'
    BY <1>2, <2>1, <2>3, <2>4, <2>7, LineMoved DEF SInv
  <2>9. Turns' /\ Stages'
    BY <1>2, <2>2 DEF SInv, Turns, Stages, BufferCount
  <2> QED
    BY <1>3, <2>8, <2>9 DEF SInv
<1> QED
  BY <1>4, <1>5, <1>6 DEF FileStrand

(* The writes, up to the null pointer. *)
LEMMA StepWrites ==
  ASSUME IInv, SInv,
         AddData \/ WriteData \/ WriteDone \/ \E w \in writing : WriteCompletes(w)
  PROVE  SInv'
<1>1. /\ ChainTypeOK /\ AcceptTypeOK /\ ReadTypeOK /\ OneChain
      /\ OneAsked /\ Quiet /\ Flows /\ Stages
  BY DEF IInv, WorkTypeOK, SInv
<1>2. UNCHANGED <<acceptor, pending, state, toPost, pos, ending, broken, finals>>
  BY DEF AddData, WriteData, WriteDone, WriteCompletes, acceptVars, readVars
<1>3. bufStrand # <<>> \/ dataBuffer # <<>> \/ writing # {}
  BY DEF AddData, WriteData, WriteDone, WriteCompletes, Runs
<1>4. PICK t \in Transfers :
        /\ Sending(t)
        /\ \E p \in 0 .. Len(sent[t]), c \in 1 .. Len(bufStrand) + 1 : Flow(t, p, c)
  BY <1>1, <1>3, Busy
<1>5. PICK p \in Nat, c \in 1 .. Len(bufStrand) + 1 : Flow(t, p, c)
  BY <1>1, <1>4 DEF ChainTypeOK
<1>6. Posted(t) \in Nat /\ Posted(t)' = Posted(t)
  BY <1>1, <1>2, PostedType DEF Posted, BufferCount
<1>7. broken = {} /\ broken' = {}
  BY <1>2 DEF SInv
<1>8. ASSUME UNCHANGED <<fileStrand, sent>>, NEW q \in Nat,
             \E c2 \in 1 .. Len(bufStrand') + 1 : Flow(t, q, c2)'
      PROVE  SInv'
  <2>1. OneAsked' /\ Quiet' /\ Flows'
    BY <1>1, <1>2, <1>4, <1>8, LineMoved
  <2>2. Stages' /\ Turns' /\ SentSoFar'
    BY <1>2, <1>8 DEF SInv, Stages, Turns, SentSoFar, Sending, Buffer, BufferCount
  <2> QED
    BY <1>7, <2>1, <2>2 DEF SInv
<1>9. CASE AddData
  <2>1. UNCHANGED <<fileStrand, sent>>
    BY <1>9 DEF AddData, readVars
  <2> QED
    BY <1>1, <1>5, <1>6, <1>8, <1>9, <2>1, FlowAdd
<1>10. CASE WriteData
  <2>1. UNCHANGED <<fileStrand, sent>>
    BY <1>10 DEF WriteData, readVars
  <2> QED
    BY <1>1, <1>5, <1>6, <1>8, <1>10, <2>1, FlowWrite
<1>11. CASE WriteDone
  <2>1. sent' = sent
    BY <1>11 DEF WriteDone
  <2>2. \E c2 \in 1 .. Len(bufStrand') + 1 : Flow(t, p + 1, c2)'
    BY <1>1, <1>5, <1>6, <1>11, FlowDone
  <2>3. OneAsked' /\ Quiet' /\ Flows'
    BY <1>1, <1>2, <1>4, <2>2, LineMoved
  <2>4. Head(bufStrand).of = t /\ Head(bufStrand) \in Handlers
    BY <1>5, <1>11, StrandShift, <1>1 DEF Flow, Posts, WriteDone, Runs, ChainTypeOK
  <2>5. \A i \in DOMAIN fileStrand' : state'[fileStrand'[i]] = "accepted"
    <3>1. fileStrand \in Seq(Files) /\ state[t] = "accepted"
      BY <1>1, <1>4 DEF ReadTypeOK, Sending
    <3>2. CASE fileStrand' = fileStrand
      BY <1>2, <3>2 DEF SInv, Turns
    <3>3. CASE t \in Files /\ fileStrand' = Append(fileStrand, t)
      BY <1>2, <3>1, <3>3, StrandAppend DEF SInv, Turns
    <3>4. \/ fileStrand' = fileStrand
          \/ t \in Files /\ fileStrand' = Append(fileStrand, t)
      BY <1>11, <2>4, HandlerTypes DEF WriteDone
    <3> QED
      BY <3>2, <3>3, <3>4
  <2>6. Stages' /\ Turns' /\ SentSoFar'
    BY <1>2, <2>1, <2>5
       DEF SInv, Stages, Turns, SentSoFar, Sending, Buffer, BufferCount
  <2> QED
    BY <1>7, <2>3, <2>6 DEF SInv
<1>12. ASSUME NEW w \in writing, WriteCompletes(w) PROVE SInv'
  <2>1. /\ \E c2 \in 1 .. Len(bufStrand') + 1 : Flow(t, p, c2)'
        /\ w.data = Item(t, p + 1) /\ w.data # Null /\ Len(sent[t]) = p
        /\ sent' = [sent EXCEPT ![t] = Append(@, w.data)]
    BY <1>1, <1>5, <1>6, <1>7, <1>12, FlowSent
  <2>2. OneAsked' /\ Quiet' /\ Flows'
    BY <1>1, <1>2, <1>4, <2>1, LineMoved
  <2>3. p + 1 <= BufferCount(t) /\ w.data = Buffer(t, p + 1) /\ w.data \in Buffers
    BY <2>1, Items, HandlerTypes
  <2>4. sent[t] \in Seq(Buffers) /\ sent'[t] = Append(sent[t], w.data)
        /\ \A u \in Transfers : u # t => sent'[u] = sent[u]
    BY <1>1, <2>1 DEF ChainTypeOK
  <2>5. SentSoFar'
    <3>1. \A i \in DOMAIN sent'[t] :
            i <= BufferCount(t) /\ sent'[t][i] = Buffer(t, i)
      BY <2>1, <2>3, <2>4, StrandAppend DEF SInv, SentSoFar
    <3>2. \A u \in Transfers : u # t =>
            \A i \in DOMAIN sent'[u] : i <= BufferCount(u) /\ sent'[u][i] = Buffer(u, i)
      BY <2>4 DEF SInv, SentSoFar
    <3>3. \A u \in Transfers :
            \A i \in DOMAIN sent'[u] : i <= BufferCount(u) /\ sent'[u][i] = Buffer(u, i)
      BY <3>1, <3>2
    <3> QED
      BY <3>3 DEF SentSoFar
  <2>6. fileStrand' = fileStrand
    BY <1>12 DEF WriteCompletes, readVars
  <2>7. Stages' /\ Turns'
    BY <1>2, <1>4, <2>4, <2>6 DEF SInv, Stages, Turns, Sending, BufferCount
  <2> QED
    BY <1>7, <2>2, <2>5, <2>7 DEF SInv
<1> QED
  BY <1>9, <1>10, <1>11, <1>12

(* The null pointer comes when everything was written, and nothing is      *)
(* behind it.                                                              *)
LEMMA LastItem ==
  ASSUME IInv, SInv, WriteEnd
  PROVE  \E t \in Transfers :
           /\ t = Head(bufStrand).of /\ Sending(t)
           /\ Len(sent[t]) = BufferCount(t) /\ Posted(t) = BufferCount(t) + 1
           /\ bufStrand' = <<>> /\ dataBuffer' = <<>> /\ writing' = {}
<1>1. /\ ChainTypeOK /\ AcceptTypeOK /\ ReadTypeOK /\ OneChain
      /\ OneAsked /\ Quiet /\ Flows /\ Stages
  BY DEF IInv, WorkTypeOK, SInv
<1> DEFINE h == Head(bufStrand)
<1>2. /\ bufStrand # <<>> /\ h.op = "write" /\ InChain(h) /\ h \in Handlers
      /\ bufStrand[1] = h /\ 1 \in DOMAIN bufStrand
  BY <1>1, StrandShift DEF WriteEnd, Runs, ChainTypeOK, InChain
<1>3. writing = {} /\ dataBuffer # <<>>
  BY <1>1, <1>2, HeadIsTheChain DEF ChainTypeOK
<1>4. PICK t \in Transfers :
        /\ Sending(t)
        /\ \E p \in 0 .. Len(sent[t]), c \in 1 .. Len(bufStrand) + 1 : Flow(t, p, c)
  BY <1>1, <1>2, Busy
<1>5. PICK p \in Nat, c \in 1 .. Len(bufStrand) + 1 : Flow(t, p, c)
  BY <1>1, <1>4 DEF ChainTypeOK
<1>6. c = 1 /\ Chained(c) /\ ~JustSent(c) /\ h.of = t
  BY <1>1, <1>2, <1>5, AddsBehindChain DEF Flow, Posts, Chained, JustSent
<1>7. dataBuffer[1] = Null /\ dataBuffer[1] = Item(t, p + 1)
  BY <1>1, <1>3, <1>5 DEF WriteEnd, Flow, Deque, ChainTypeOK
<1>8. p + 1 > BufferCount(t) /\ BufferCount(t) \in Nat
  BY <1>7, Items
<1>9. PICK B \in Nat, L \in Nat, D \in Nat :
        /\ B = BufferCount(t)
        /\ Len(bufStrand) = L + 1 /\ Len(dataBuffer) = D + 1
        /\ Len(Tail(bufStrand)) = L /\ Len(Tail(dataBuffer)) = D
  BY <1>1, <1>2, <1>3, <1>8, StrandTail DEF ChainTypeOK
<1>10. Posted(t) \in Nat /\ Posted(t) <= B + 1
  BY <1>1, <1>9, PostedType
<1>11. p + (D + 1) + (L + 1) = Posted(t) + 1
  BY <1>5, <1>6, <1>9 DEF Flow, Total
<1>12. L = 0 /\ D = 0 /\ p = B /\ Posted(t) = B + 1
  <2>1. \A a, b, d, l, n \in Nat :
          a + (d + 1) + (l + 1) = n + 1 /\ n <= b + 1 /\ a + 1 > b
            => l = 0 /\ d = 0 /\ a = b /\ n = b + 1
    OBVIOUS
  <2>2. p + 1 > B
    BY <1>8, <1>9
  <2> QED
    BY <1>10, <1>11, <2>1, <2>2
<1>13. Tail(bufStrand) = <<>> /\ Tail(dataBuffer) = <<>>
  BY <1>1, <1>2, <1>3, <1>9, <1>12, StrandShift DEF ChainTypeOK
<1>14. bufStrand' = <<>> /\ dataBuffer' = <<>> /\ writing' = {}
  BY <1>3, <1>13 DEF WriteEnd
<1>15. Len(sent[t]) = B
  BY <1>5, <1>6, <1>12 DEF Flow, Written
<1> QED
  BY <1>4, <1>6, <1>9, <1>12, <1>14, <1>15

LEMMA StepWriteEnd ==
  ASSUME IInv, SInv, WriteEnd
  PROVE  SInv'
<1>1. PICK t \in Transfers :
        /\ t = Head(bufStrand).of /\ Sending(t)
        /\ Len(sent[t]) = BufferCount(t) /\ Posted(t) = BufferCount(t) + 1
        /\ bufStrand' = <<>> /\ dataBuffer' = <<>> /\ writing' = {}
  BY LastItem
<1>2. /\ UNCHANGED <<acceptor, pending, state, toPost, pos, fileStrand, ending,
                     broken, sent>>
      /\ finals' = [finals EXCEPT ![t] = Append(@, 226)]
  BY <1>1 DEF WriteEnd, SendFinal, CLOSING_DATA_CONNECTION, acceptVars, readVars
<1>3. finals \in [Transfers -> Seq(Finals)] /\ ending \in Files \cup {Null}
      /\ toPost \in [Transfers -> 0 .. 3] /\ pos \in [Transfers -> Nat]
  BY DEF IInv, WorkTypeOK, FinalsTypeOK, ReadTypeOK, AcceptTypeOK
<1>4. finals'[t] # <<>> /\ \A u \in Transfers : u # t => finals'[u] = finals[u]
  BY <1>2, <1>3
<1>5. \A u \in Transfers : ~Sending(u)' /\ (Asked(u)' => Asked(u))
  BY <1>1, <1>2, <1>4 DEF SInv, OneAsked, Asked, Sending
<1>6. OneAsked' /\ Quiet' /\ Flows'
  BY <1>1, <1>5 DEF SInv, OneAsked, Quiet, Flows
<1>7. /\ t \in Files => pos[t] = BufferCount(t) /\ ending # t
      /\ t \notin Files => toPost[t] = 0
  <2>1. CASE t \in Files
    <3>1. pos[t] \in Nat /\ pos[t] <= BufferCount(t) /\ BufferCount(t) \in Nat
      BY <1>3, <2>1, Items DEF SInv, Stages
    <3> QED
      BY <1>1, <2>1, <3>1 DEF Posted
  <2>2. CASE t \notin Files
    <3>1. BufferCount(t) = 1 /\ toPost[t] \in 0 .. 3
      BY <1>3, <2>2 DEF BufferCount
    <3> QED
      BY <1>1, <2>2, <3>1 DEF Posted
  <2> QED
    BY <2>1, <2>2
<1>8. ending = Null
  <2>1. SUFFICES ASSUME ending # Null PROVE FALSE
    OBVIOUS
  <2>2. ending \in Files /\ ending \in Transfers /\ Sending(ending)
    BY <1>3, <2>1, HandlerTypes DEF SInv, Turns
  <2>3. ending = t
    BY <1>1, <2>2 DEF SInv, OneAsked, Asked, Sending
  <2> QED
    BY <1>7, <2>2, <2>3
<1>9. Turns'
  BY <1>2, <1>8 DEF SInv, Turns
<1>10. Stages'
  BY <1>1, <1>2, <1>4, <1>7 DEF SInv, Stages, BufferCount, Sending
<1>11. SentSoFar' /\ broken' = {}
  BY <1>2 DEF SInv, SentSoFar, Buffer, BufferCount
<1> QED
  BY <1>6, <1>9, <1>10, <1>11 DEF SInv

LEMMA InitSInv == Init => SInv
<1> SUFFICES ASSUME Init PROVE SInv
  OBVIOUS
<1>1. OneAsked /\ Quiet
  BY DEF Init, OneAsked, Asked, Quiet
<1>2. \A t \in Transfers : BufferCount(t) \in Nat \ {0}
  BY Items
<1>3. Stages
  BY <1>2 DEF Init, Stages
<1>4. Turns /\ SentSoFar
  BY DEF Init, Turns, SentSoFar
<1>5. Flows
  BY DEF Init, Flows, Sending
<1> QED
  BY <1>1, <1>3, <1>4, <1>5 DEF SInv, Init

LEMMA StepSInv ==
  ASSUME Sequential, ~PeersBreak, IInv, SInv, [Work]_workVars
  PROVE  SInv'
<1>1. CASE UNCHANGED workVars
  <2>1. UNCHANGED <<acceptor, pending, state, toPost, pos, fileStrand, ending,
                    bufStrand, dataBuffer, writing, broken, sent, finals>>
    BY <1>1 DEF workVars, acceptVars, readVars, chainVars
  <2>2. \A u \in Transfers : /\ Sending(u)' <=> Sending(u)
                             /\ Posted(u)' = Posted(u)
    BY <2>1 DEF Sending, Posted, BufferCount
  <2>3. Quiet' /\ Flows'
    BY <2>1, <2>2, QuietKept, FlowsKept DEF SInv
  <2> QED
    BY <2>1, <2>3 DEF SInv, OneAsked, Asked, Stages, Turns, SentSoFar, Sending,
       Buffer, BufferCount
<1>2. CASE Work
  <2>1. \A t \in Transfers : ~Break(t)
    BY DEF Break
  <2>2. \/ PASV \/ Accept \/ AcceptError \/ FileStrand
        \/ AddData \/ WriteData \/ WriteDone \/ WriteEnd
        \/ \E w \in writing : WriteCompletes(w)
        \/ \E t \in Transfers : \/ RETR(t) \/ Refused(t) \/ LIST(t)
                                \/ AcceptFailed(t) \/ PostNext(t)
    BY <1>2, <2>1 DEF Work, Client, Refused, AcceptHandlers, BufStrand, Sockets
  <2> QED
    BY <2>2, StepCommand, StepAccept, StepPostNext, StepFileStrand, StepWrites,
       StepWriteEnd
<1> QED
  BY <1>1, <1>2

LEMMA OneAtATime ==
  ASSUME Sequential, ~PeersBreak
  PROVE  Spec => [](IInv /\ SInv)
<1>1. SInv /\ IInv /\ [Work]_workVars => SInv'
  BY StepSInv
<1> QED
  BY InitSInv, <1>1, Invariance, SpecWorks, PTL

(* To a client that has one transfer at a time over connections that do    *)
(* not break, no buffer is left in the deque without a handler that is     *)
(* going to write it: addDataToBufferAndSend starts a chain when the deque *)
(* was empty, and the chain ends only at the null pointer, behind which    *)
(* there is nothing.                                                       *)
THEOREM NothingStrands ==
  ASSUME Sequential, ~PeersBreak
  PROVE  Spec => []BufferIsDrained
<1>1. IInv /\ SInv => BufferIsDrained
  <2> SUFFICES ASSUME IInv, SInv, dataBuffer # <<>>
               PROVE  writing # {} \/ \E i \in DOMAIN bufStrand : InChain(bufStrand[i])
    BY DEF BufferIsDrained
  <2>1. PICK t \in Transfers :
          \E p \in 0 .. Len(sent[t]), c \in 1 .. Len(bufStrand) + 1 : Flow(t, p, c)
    BY Busy DEF SInv
  <2>2. PICK p \in 0 .. Len(sent[t]), c \in 1 .. Len(bufStrand) + 1 : Flow(t, p, c)
    BY <2>1
  <2> QED
    BY <2>2 DEF Flow, Written, Posts, Chained
<1> QED
  BY <1>1, OneAtATime, PTL

(* What reaches a data connection is then a beginning of its own file or   *)
(* listing, in order, nothing lost and nothing twice.                      *)
THEOREM KeepsOrder ==
  ASSUME Sequential, ~PeersBreak
  PROVE  Spec => []SentInOrder
<1>1. IInv /\ SInv => SentInOrder
  <2> SUFFICES ASSUME IInv, SInv, NEW t \in Transfers
               PROVE  /\ Len(sent[t]) <= Len(Content[t])
                      /\ sent[t] = SubSeq(Content[t], 1, Len(sent[t]))
    BY DEF SentInOrder
  <2>1. /\ sent[t] \in Seq(Buffers)
        /\ \A i \in DOMAIN sent[t] : i <= BufferCount(t) /\ sent[t][i] = Buffer(t, i)
    BY DEF IInv, WorkTypeOK, ChainTypeOK, SInv, SentSoFar
  <2>2. PICK n \in Nat : n = Len(sent[t]) /\ DOMAIN sent[t] = 1 .. n
    BY <2>1
  <2>3. PICK b \in Nat : b = BufferCount(t)
    BY Items
  <2>4. /\ Content[t] = [i \in 1 .. b |-> Buffer(t, i)]
        /\ Content[t] \in Seq(Buffers) /\ Len(Content[t]) = b
    BY <2>3, HandlerTypes DEF Content
  <2>5. n <= b
    <3>1. CASE n = 0
      BY <2>3, <3>1
    <3>2. CASE n > 0
      BY <2>1, <2>2, <2>3, <3>2
    <3> QED
      BY <2>2, <3>1, <3>2
  <2>6. SubSeq(Content[t], 1, n) = [i \in 1 .. n |-> Content[t][i]]
    BY <2>4, <2>5
  <2>7. sent[t] = [i \in 1 .. n |-> sent[t][i]]
    BY <2>1, <2>2
  <2>8. \A i \in 1 .. n : sent[t][i] = Content[t][i]
    BY <2>1, <2>2, <2>4, <2>5
  <2> QED
    BY <2>2, <2>4, <2>5, <2>6, <2>7, <2>8
<1> QED
  BY <1>1, OneAtATime, PTL

-----------------------------------------------------------------------------
(* The session keeps the promise of DataStream, step by step: a write that *)
(* completes sends the next chunk, the null pointer comes when all were    *)
(* sent, an error reply when none was, and no other step shows.            *)

LEMMA StepPromised ==
  ASSUME Sequential, ~PeersBreak, IInv, SInv, [Work]_workVars
  PROVE  Stream!Next \/ UNCHANGED <<sent, finals>>
<1>1. /\ finals \in [Transfers -> Seq(Finals)]
      /\ sent \in [Transfers -> Seq(Buffers)]
  BY DEF IInv, WorkTypeOK, FinalsTypeOK, ChainTypeOK
<1>2. \A t \in Transfers : /\ Content[t] = [i \in 1 .. BufferCount(t) |-> Buffer(t, i)]
                           /\ Len(Content[t]) = BufferCount(t)
                           /\ BufferCount(t) \in Nat
  BY Items DEF Content
<1>3. ASSUME NEW t \in Transfers, finals[t] = <<>>, sent[t] = <<>>,
             NEW code \in {425, 426, 450, 451}, SendFinal(t, code), UNCHANGED sent
      PROVE  Stream!Next
  <2>1. Append(finals[t], code) = <<code>>
    BY <1>3
  <2>2. finals' = [finals EXCEPT ![t] = <<code>>]
    BY <1>3, <2>1 DEF SendFinal
  <2> QED
    <3>1. \E k \in {425, 426, 450, 451} : finals' = [finals EXCEPT ![t] = <<k>>]
      <4> DEFINE F(k) == [finals EXCEPT ![t] = <<k>>]
      <4>1. finals' = F(code)
        BY <2>2
      <4> HIDE DEF F
      <4>2. \E k \in {425, 426, 450, 451} : finals' = F(k)
        BY <1>3, <4>1
      <4> QED
        BY <4>2 DEF F
    <3>2. Stream!Fail(t)
      BY <1>3, <3>1 DEF Stream!Fail
    <3> QED
      BY <3>2 DEF Stream!Next
<1>4. ASSUME NEW t \in Transfers, Refused(t) PROVE Stream!Next
  <2>1. finals[t] = <<>> /\ sent[t] = <<>>
    BY <1>4 DEF Refused, RETRRefused, LISTRefused, Refuse, MayIssue, SInv, Stages
  <2>2. /\ SendFinal(t, 425) \/ SendFinal(t, 450) \/ SendFinal(t, 451)
        /\ UNCHANGED sent
    BY <1>4 DEF Refused, RETRRefused, LISTRefused, Refuse, chainVars,
         ERROR_OPENING_DATA_CONNECTION, FILE_ACTION_NOT_TAKEN,
         ACTION_ABORTED_LOCAL_ERROR
  <2> QED
    BY <1>3, <2>1, <2>2
<1>5. ASSUME NEW t \in Transfers, AcceptFailed(t) PROVE Stream!Next
  <2>1. finals[t] = <<>> /\ sent[t] = <<>>
    BY <1>5 DEF AcceptFailed, SInv, Stages
  <2>2. SendFinal(t, 426) /\ UNCHANGED sent
    BY <1>5 DEF AcceptFailed, TRANSFER_ABORTED, chainVars
  <2> QED
    BY <1>3, <2>1, <2>2
<1>6. ASSUME NEW w \in writing, WriteCompletes(w) PROVE Stream!Next
  <2>1. PICK t \in Transfers :
          /\ Sending(t)
          /\ \E p \in 0 .. Len(sent[t]), c \in 1 .. Len(bufStrand) + 1 : Flow(t, p, c)
    BY Busy DEF SInv
  <2>2. PICK p \in Nat, c \in 1 .. Len(bufStrand) + 1 : Flow(t, p, c)
    BY <1>1, <2>1
  <2>3. Posted(t)' = Posted(t) /\ UNCHANGED finals
    BY <1>6 DEF WriteCompletes, Posted, BufferCount, acceptVars, readVars
  <2>4. /\ w.data = Item(t, p + 1) /\ w.data # Null /\ Len(sent[t]) = p
        /\ sent' = [sent EXCEPT ![t] = Append(@, w.data)]
    BY <1>6, <2>2, <2>3, FlowSent DEF SInv, IInv, WorkTypeOK
  <2>5. p + 1 <= BufferCount(t) /\ w.data = Buffer(t, p + 1)
    BY <2>4, Items
  <2>6. Len(sent[t]) < Len(Content[t]) /\ w.data = Content[t][Len(sent[t]) + 1]
    <3>1. PICK b \in Nat : b = BufferCount(t)
      BY <1>2
    <3>2. /\ p + 1 \in 1 .. b /\ Len(sent[t]) = p /\ Len(Content[t]) = b
          /\ Content[t] = [i \in 1 .. b |-> Buffer(t, i)]
      BY <1>2, <2>4, <2>5, <3>1
    <3> QED
      BY <2>5, <3>2
  <2>7. sent' = [sent EXCEPT ![t] = Append(sent[t], Content[t][Len(sent[t]) + 1])]
    BY <1>1, <2>4, <2>6
  <2>8. Stream!Send(t)
    BY <1>1, <2>1, <2>3, <2>6, <2>7 DEF Stream!Send, Sending
  <2> QED
    BY <2>8 DEF Stream!Next
<1>7. CASE WriteEnd
  <2>1. PICK t \in Transfers : /\ t = Head(bufStrand).of /\ Sending(t)
                               /\ Len(sent[t]) = BufferCount(t)
    BY <1>7, LastItem
  <2>2. Append(finals[t], 226) = <<226>> /\ finals[t] = <<>>
    BY <2>1 DEF Sending
  <2>3. finals' = [finals EXCEPT ![t] = <<226>>] /\ UNCHANGED sent
    BY <1>7, <2>1, <2>2 DEF WriteEnd, SendFinal, CLOSING_DATA_CONNECTION
  <2>4. sent[t] = [i \in 1 .. BufferCount(t) |-> sent[t][i]]
    <3>1. sent[t] \in Seq(Buffers)
      BY <1>1
    <3>2. \A s \in Seq(Buffers) : s = [i \in 1 .. Len(s) |-> s[i]]
      OBVIOUS
    <3> QED
      BY <2>1, <3>1, <3>2
  <2>5. \A i \in 1 .. BufferCount(t) : sent[t][i] = Buffer(t, i)
    BY <1>1, <2>1 DEF SInv, SentSoFar
  <2>6. sent[t] = Content[t]
    BY <1>2, <2>4, <2>5
  <2> QED
    BY <2>2, <2>3, <2>6 DEF Stream!Next, Stream!Complete
<1>8. \/ UNCHANGED <<sent, finals>> \/ WriteEnd
      \/ \E w \in writing : WriteCompletes(w)
      \/ \E t \in Transfers : Refused(t) \/ AcceptFailed(t)
  BY DEF Work, Client, Refused, AcceptHandlers, FileStrand, BufStrand, Sockets, PASV,
         RETR, LIST, AsyncAccept, Accept, AcceptError, PostNext, Break,
         ReadAtEof, ReadBuffer, PostEnd, AddData, WriteData, WriteDone, workVars,
         chainVars
<1> QED
  BY <1>4, <1>5, <1>6, <1>7, <1>8

(* For a client that has one transfer at a time over connections that do   *)
(* not break, what RETR, LIST and NLST do implements DataStream: a         *)
(* transfer hands over all its chunks, each once and in order, and is      *)
(* answered once, with 226 when all are handed over, with the code of an    *)
(* error when none is.                                                     *)
THEOREM ImplementsDataStream ==
  ASSUME Sequential, ~PeersBreak
  PROVE  Spec => StreamSpec
<1>1. Init => Stream!Init
  BY DEF Init, Stream!Init
<1>2. IInv /\ SInv /\ [Work]_workVars => [Stream!Next]_<<sent, finals>>
  BY StepPromised
<1> QED
  BY <1>1, <1>2, OneAtATime, SpecWorks, PTL DEF StreamSpec, Stream!Spec

=============================================================================
