-------------------------- MODULE FTPClient_proofs --------------------------
(***************************************************************************)
(* For any number of commands, whatever the client calls and whenever the  *)
(* connection is lost: everything stays in its type; the session has one   *)
(* write of a reply under way at a time, which no reply waits without;     *)
(* client and server stay in step until a reply is dropped or a transfer   *)
(* abandoned; and, in step or not, commands are answered once each and in  *)
(* order, which implements the safety part of CommandReplies.              *)
(*                                                                         *)
(* The argument for the writes: the strand holds at most one completion of *)
(* a write, and none while a write is under way; the reply being written   *)
(* stays at the front of the queue until its completion has run.           *)
(*                                                                         *)
(* The argument for the step: what a call has brought about and not yet    *)
(* taken is counted over every place it can be in.  A handler moves the    *)
(* count from one place to another, only an accepted transfer command      *)
(* makes it two, and only when the client waits for its first reply; with  *)
(* a count of one, the place it is in says that all others are empty.      *)
(***************************************************************************)
EXTENDS FTPClient, FiniteSetTheorems, SequenceTheorems, TLAPS

(* The completion of a write is in q, and no other. *)
Has(q) == \E i \in DOMAIN q : q[i].op = "written"
Once(q) ==
  \A i, j \in DOMAIN q : q[i].op = "written" /\ q[j].op = "written" => i = j

Chain ==
  /\ writes <= 1
  /\ Once(strand)
  /\ Has(strand) => writes = 0
  /\ writes = 1 \/ Has(strand) => msgOutputQueue # <<>>
  /\ (up /\ msgOutputQueue # <<>>) => (writes = 1 \/ Has(strand))

HeardLines(q) == \A i \in DOMAIN q : q[i].op = "heard" => q[i].line \in Lines

(* A call that has another command to send may. *)
RoomLeft == awaiting \in {"USER", "PASV"} => lastNo < MaxCommands

Extra == HeardLines(strand) /\ RoomLeft

IInv == TypeOK /\ Extra /\ Chain

-----------------------------------------------------------------------------
(* The strand.                                                             *)

LEMMA Popped ==
  ASSUME NEW q \in Seq(Handlers), q # <<>>
  PROVE  /\ Tail(q) \in Seq(Handlers) /\ Head(q) \in Handlers
         /\ HeardLines(q) => HeardLines(Tail(q))
         /\ Once(q) => Once(Tail(q))
         /\ Head(q).op # "written" => (Has(Tail(q)) <=> Has(q))
         /\ Head(q).op = "written" => Has(q)
         /\ Head(q).op = "written" /\ Once(q) => ~Has(Tail(q))
<1>1. /\ Tail(q) \in Seq(Handlers) /\ Head(q) \in Handlers /\ Head(q) = q[1]
      /\ Len(q) \in Nat /\ Len(q) > 0 /\ DOMAIN q = 1 .. Len(q)
      /\ DOMAIN Tail(q) = 1 .. (Len(q) - 1)
      /\ \A i \in 1 .. (Len(q) - 1) : Tail(q)[i] = q[i + 1]
  BY HeadTailProperties, LenProperties, EmptySeq
<1>2. ASSUME NEW i \in DOMAIN Tail(q)
      PROVE  i + 1 \in DOMAIN q /\ i + 1 # 1 /\ Tail(q)[i] = q[i + 1]
  BY <1>1
<1>3. ASSUME NEW i \in DOMAIN q, i # 1
      PROVE  \E j \in DOMAIN Tail(q) : Tail(q)[j] = q[i]
  <2>1. i - 1 \in DOMAIN Tail(q) /\ (i - 1) + 1 = i BY <1>1, <1>3
  <2> QED BY <1>1, <2>1
<1>4. HeardLines(q) => HeardLines(Tail(q)) BY <1>2 DEF HeardLines
<1>5. Once(q) => Once(Tail(q))
  <2> SUFFICES ASSUME Once(q), NEW i \in DOMAIN Tail(q), NEW j \in DOMAIN Tail(q),
                      Tail(q)[i].op = "written", Tail(q)[j].op = "written"
               PROVE  i = j
    BY DEF Once
  <2>1. i + 1 = j + 1 BY <1>2 DEF Once
  <2> QED BY <1>1, <2>1
<1>6. Has(Tail(q)) => Has(q) BY <1>2 DEF Has
<1>7. Head(q).op # "written" /\ Has(q) => Has(Tail(q)) BY <1>1, <1>3 DEF Has
<1>8. Head(q).op = "written" => Has(q) BY <1>1 DEF Has
<1>9. Head(q).op = "written" /\ Once(q) => ~Has(Tail(q))
  <2> SUFFICES ASSUME q[1].op = "written", Once(q), NEW i \in DOMAIN Tail(q),
                      Tail(q)[i].op = "written"
               PROVE  FALSE
    BY <1>1 DEF Has
  <2>1. 1 \in DOMAIN q BY <1>1
  <2> QED BY <1>2, <2>1 DEF Once
<1> QED BY <1>1, <1>4, <1>5, <1>6, <1>7, <1>8, <1>9

LEMMA Pushed ==
  ASSUME NEW q \in Seq(Handlers), NEW h \in Handlers
  PROVE  /\ Append(q, h) \in Seq(Handlers)
         /\ HeardLines(q) /\ (h.op = "heard" => h.line \in Lines) => HeardLines(Append(q, h))
         /\ h.op # "written" => (Has(Append(q, h)) <=> Has(q))
         /\ h.op # "written" /\ Once(q) => Once(Append(q, h))
         /\ h.op = "written" => Has(Append(q, h))
         /\ ~Has(q) => Once(Append(q, h))
<1> DEFINE r == Append(q, h)
<1>1. /\ r \in Seq(Handlers) /\ Len(q) \in Nat /\ DOMAIN q = 1 .. Len(q)
      /\ DOMAIN r = 1 .. (Len(q) + 1)
      /\ \A i \in 1 .. Len(q) : r[i] = q[i]
      /\ r[Len(q) + 1] = h
  BY AppendProperties, LenProperties
<1> HIDE DEF r
<1>2. /\ \A i \in DOMAIN q : i \in DOMAIN r /\ r[i] = q[i]
      /\ \A i \in DOMAIN r : i \in DOMAIN q \/ i = Len(q) + 1
      /\ Len(q) + 1 \in DOMAIN r
  BY <1>1
<1>3. HeardLines(q) /\ (h.op = "heard" => h.line \in Lines) => HeardLines(r)
  BY <1>1, <1>2 DEF HeardLines
<1>4. h.op # "written" => (Has(r) <=> Has(q)) BY <1>1, <1>2 DEF Has
<1>5. h.op # "written" /\ Once(q) => Once(r) BY <1>1, <1>2 DEF Once
<1>6. h.op = "written" => Has(r) BY <1>1, <1>2 DEF Has
<1>7. ~Has(q) => Once(r) BY <1>1, <1>2 DEF Has, Once
<1> QED BY <1>1, <1>3, <1>4, <1>5, <1>6, <1>7 DEF r

-----------------------------------------------------------------------------
(* One write at a time.                                                    *)

LEMMA NextChain ==
  ASSUME TypeOK, Chain, [Next]_vars
  PROVE  Chain'
<1>0. /\ strand \in Seq(Handlers) /\ msgOutputQueue \in Seq(Replies) /\ writes \in Nat
      /\ Len(msgOutputQueue) \in Nat
  BY LenProperties DEF TypeOK, ChannelTypeOK
<1>1. ASSUME UNCHANGED <<strand, writes, msgOutputQueue>>, up' = up \/ up' = FALSE
      PROVE  Chain'
  BY <1>1 DEF Chain
<1>2. ASSUME NEW h \in Handlers, h.op # "written", strand' = Append(strand, h),
             UNCHANGED <<writes, msgOutputQueue, up>>
      PROVE  Chain'
  <2>1. (Has(strand') <=> Has(strand)) /\ Once(strand') BY <1>0, <1>2, Pushed DEF Chain
  <2> QED BY <1>2, <2>1 DEF Chain
<1>3. ASSUME NEW op \in {"heard", "post"}, Run(op), strand' = Tail(strand),
             UNCHANGED <<writes, msgOutputQueue, up>>
      PROVE  Chain'
  <2>1. strand # <<>> /\ Head(strand).op # "written" BY <1>3 DEF Run
  <2>2. (Has(strand') <=> Has(strand)) /\ Once(strand')
    BY <1>0, <1>3, <2>1, Popped DEF Chain
  <2> QED BY <1>3, <2>2 DEF Chain
<1>4. CASE PostReply
  <2>1. /\ strand # <<>> /\ Head(strand).op = "post" /\ strand' = Tail(strand)
        /\ msgOutputQueue' = Append(msgOutputQueue, Head(strand).msg) /\ up' = up
    BY <1>4 DEF PostReply, Run
  <2>2. (Has(strand') <=> Has(strand)) /\ Once(strand')
    BY <1>0, <2>1, Popped DEF Chain
  <2>3. msgOutputQueue' # <<>>
    <3>1. Head(strand).msg \in Replies BY <1>0, <2>1, Popped DEF Handlers
    <3> QED BY <1>0, <2>1, <3>1, AppendProperties
  <2>4. CASE msgOutputQueue = <<>>
    <3>1. writes' = 1 /\ ~Has(strand)
      BY <1>0, <1>4, <2>4 DEF PostReply, startSendingMsgs, Chain
    <3> QED BY <2>2, <2>3, <3>1 DEF Chain
  <2>5. CASE msgOutputQueue # <<>>
    <3>1. writes' = writes BY <1>4, <2>5 DEF PostReply
    <3> QED BY <2>1, <2>2, <2>3, <2>5, <3>1 DEF Chain
  <2> QED BY <2>4, <2>5
<1>5. CASE WriteReply
  <2>1. /\ writes > 0 /\ writes' = writes - 1 /\ strand' = Append(strand, Written)
        /\ msgOutputQueue' = msgOutputQueue
    BY <1>5 DEF WriteReply
  <2>2. writes = 1 /\ writes' = 0 /\ ~Has(strand) /\ msgOutputQueue # <<>>
    BY <1>0, <2>1 DEF Chain
  <2>3. Written \in Handlers /\ Written.op = "written"
    BY ControlAssumption DEF Written, Handlers, Greeting, Reply, Replies, Codes
  <2>4. Has(strand') /\ Once(strand') BY <1>0, <2>1, <2>2, <2>3, Pushed
  <2> QED BY <2>1, <2>2, <2>4 DEF Chain
<1>6. CASE WriteFails
  <2>1. /\ writes > 0 /\ ~up /\ writes' = writes - 1
        /\ UNCHANGED <<strand, msgOutputQueue, up>>
    BY <1>6 DEF WriteFails
  <2>2. writes' = 0 /\ ~Has(strand) BY <1>0, <2>1 DEF Chain
  <2> QED BY <2>1, <2>2 DEF Chain
<1>7. CASE WriteDone
  <2>1. /\ strand # <<>> /\ Head(strand).op = "written" /\ strand' = Tail(strand)
        /\ msgOutputQueue' = Tail(msgOutputQueue)
    BY <1>7 DEF WriteDone, Run
  <2>2. Has(strand) /\ ~Has(strand') /\ Once(strand') BY <1>0, <2>1, Popped DEF Chain
  <2>3. writes = 0 BY <2>2 DEF Chain
  <2>4. CASE Tail(msgOutputQueue) = <<>>
    <3>1. writes' = 0 BY <1>7, <2>3, <2>4 DEF WriteDone
    <3> QED BY <2>1, <2>2, <2>4, <3>1 DEF Chain
  <2>5. CASE Tail(msgOutputQueue) # <<>>
    <3>1. writes' = 1 BY <1>7, <2>3, <2>5 DEF WriteDone, startSendingMsgs
    <3> QED BY <2>1, <2>2, <2>5, <3>1 DEF Chain
  <2> QED BY <2>4, <2>5
<1>8. CASE HandleCommand
  BY <1>3, <1>8 DEF HandleCommand, writeVars
<1>9. ASSUME NEW m \in Replies, sendFTPMsg(m), UNCHANGED <<writes, msgOutputQueue, up>>
      PROVE  Chain'
  <2>1. Post(m) \in Handlers /\ Post(m).op # "written" BY DEF Post, Handlers
  <2> QED BY <1>2, <1>9, <2>1 DEF sendFTPMsg
<1>10. CASE FinishCommand
  <2>1. Reply(code, handling.no) \in Replies
    <3>1. handling \in Lines BY <1>10 DEF FinishCommand, TypeOK, ChannelTypeOK
    <3>2. handling.no \in 0 .. MaxCommands BY <3>1, ControlAssumption DEF Lines, Numbers
    <3> QED BY <3>2 DEF Reply, Replies, TypeOK, ChannelTypeOK
  <2> QED BY <1>9, <1>10, <2>1 DEF FinishCommand, writeVars
<1>11. ASSUME NEW t \in transfers PROVE \A c \in {226, 426} : Reply(c, t.no) \in Replies
  <2>1. t.no \in 0 .. MaxCommands
    BY ControlAssumption DEF TypeOK, ChannelTypeOK, Transfers, Numbers
  <2> QED BY <2>1
        DEF Reply, Replies, Codes, CLOSING_DATA_CONNECTION, TRANSFER_ABORTED
<1>12. ASSUME NEW t \in transfers, EndTransfer(t) PROVE Chain'
  <2>1. CASE AcceptFails(t)
    BY <1>9, <1>11, <2>1 DEF AcceptFails, TRANSFER_ABORTED, writeVars
  <2>2. CASE Complete(t, Peer(t), PeerReads(t))
    BY <1>9, <1>11, <2>2 DEF Complete, CLOSING_DATA_CONNECTION, writeVars
  <2>3. CASE SendFails(t, Peer(t)) BY <1>1, <2>3 DEF SendFails, writeVars
  <2> QED BY <1>12, <2>1, <2>2, <2>3 DEF EndTransfer
<1>13. ASSUME NEW t \in transfers, Accept(t) PROVE Chain'
  BY <1>1, <1>13 DEF Accept, writeVars
<1>14. CASE ReadLines
  <2>1. lines \in Seq(Lines) /\ lines # <<>>
    BY <1>14, EmptySeq DEF ReadLines, TypeOK, ChannelTypeOK
  <2>2. Heard(Head(lines)) \in Handlers /\ Heard(Head(lines)).op # "written"
    <3>1. Head(lines) \in Lines BY <2>1, HeadTailProperties
    <3>2. Greeting \in Replies BY ControlAssumption DEF Greeting, Reply, Replies, Codes
    <3> QED BY <3>1, <3>2 DEF Heard, Handlers
  <2> QED BY <1>2, <1>14, <2>2 DEF ReadLines, writeVars
<1>15. CASE ReadFails BY <1>1, <1>15 DEF ReadFails, writeVars
<1>16. CASE ClientReads
  BY <1>1, <1>16
     DEF ClientReads, LastReply, UserReply, PasvReply, OpeningReply, EndOfData,
         ServerUnchanged, writeVars
<1>17. CASE ClientCalls
  BY <1>1, <1>17 DEF ClientCalls, OneCommand, Login, Transfer, ServerUnchanged, writeVars
<1>18. CASE Abandon BY <1>1, <1>18 DEF Abandon, ServerUnchanged, writeVars
<1>19. CASE Disconnect BY <1>1, <1>19 DEF Disconnect, writeVars
<1>20. CASE UNCHANGED vars BY <1>1, <1>20 DEF vars, channelVars, writeVars
<1> QED
  BY <1>4, <1>5, <1>6, <1>7, <1>8, <1>10, <1>12, <1>13, <1>14, <1>15, <1>16, <1>17,
     <1>18, <1>19, <1>20
  DEF Next, Server, Strand, Socket

-----------------------------------------------------------------------------
(* Types.                                                                  *)

LEMMA Tables ==
  /\ Greeting \in Replies
  /\ \A v \in Verbs : Accepted[v] \in Codes
  /\ {SERVICE_READY, NOT_LOGGED_IN} \subseteq Codes
  /\ \A m \in Replies : Post(m) \in Handlers /\ Post(m).op = "post"
  /\ \A l \in Lines : Heard(l) \in Handlers /\ Heard(l).op = "heard" /\ Heard(l).line = l
  /\ Written \in Handlers /\ Written.op = "written"
<1>1. Greeting \in Replies BY ControlAssumption DEF Greeting, Reply, Replies, Codes
<1>2. \A v \in Verbs : Accepted[v] \in Codes BY DEF Codes
<1>3. {SERVICE_READY, NOT_LOGGED_IN} \subseteq Codes BY DEF Codes
<1>4. \A m \in Replies : Post(m) \in Handlers /\ Post(m).op = "post" BY DEF Post, Handlers
<1>5. \A l \in Lines : Heard(l) \in Handlers /\ Heard(l).op = "heard" /\ Heard(l).line = l
  BY <1>1 DEF Heard, Handlers
<1>6. Written \in Handlers /\ Written.op = "written" BY <1>1 DEF Written, Handlers
<1> QED BY <1>1, <1>2, <1>3, <1>4, <1>5, <1>6

LEMMA InitIInv == Init => IInv
<1> SUFFICES ASSUME Init PROVE IInv OBVIOUS
<1> DEFINE p == Post(Greeting)
<1>1. p \in Handlers /\ p.op = "post" BY Tables
<1> HIDE DEF p
<1>2. strand = <<p>> BY DEF Init, ChannelInit, p
<1>3. DOMAIN strand = {1} /\ strand[1] = p /\ strand \in Seq(Handlers) BY <1>1, <1>2
<1>4. ChannelTypeOK
  BY <1>3, Tables, ControlAssumption DEF Init, ChannelInit, ChannelTypeOK
<1>5. ClientTypeOK
  BY Tables, ControlAssumption DEF Init, ClientTypeOK, Awaiting, Calls, NoCall
<1>6. Chain BY <1>1, <1>3 DEF Init, ChannelInit, Chain, Once, Has
<1>7. Extra BY <1>1, <1>3 DEF Init, Extra, HeardLines, RoomLeft
<1> QED BY <1>4, <1>5, <1>6, <1>7 DEF IInv, TypeOK

(* The steps that leave all to the server's strand, or take from it. *)
LEMMA StrandTypes ==
  ASSUME TypeOK, HeardLines(strand)
  PROVE  /\ \A m \in Replies : sendFTPMsg(m) =>
              strand' \in Seq(Handlers) /\ HeardLines(strand')
         /\ \A op \in {"heard", "post", "written"} : Run(op) /\ strand' = Tail(strand) =>
              /\ strand' \in Seq(Handlers) /\ HeardLines(strand')
              /\ Head(strand) \in Handlers
              /\ op = "heard" => Head(strand).line \in Lines
<1>1. strand \in Seq(Handlers) BY DEF TypeOK, ChannelTypeOK
<1>2. ASSUME NEW m \in Replies, sendFTPMsg(m)
      PROVE  strand' \in Seq(Handlers) /\ HeardLines(strand')
  BY <1>1, <1>2, Tables, Pushed DEF sendFTPMsg
<1>3. ASSUME NEW op \in {"heard", "post", "written"}, Run(op), strand' = Tail(strand)
      PROVE  /\ strand' \in Seq(Handlers) /\ HeardLines(strand')
             /\ Head(strand) \in Handlers
             /\ op = "heard" => Head(strand).line \in Lines
  <2>1. strand # <<>> /\ Head(strand).op = op BY <1>3 DEF Run
  <2>2. /\ Tail(strand) \in Seq(Handlers) /\ HeardLines(Tail(strand))
        /\ Head(strand) \in Handlers
    BY <1>1, <2>1, Popped
  <2>3. 1 \in DOMAIN strand /\ Head(strand) = strand[1]
    BY <1>1, <2>1, HeadTailProperties, LenProperties, EmptySeq
  <2> QED BY <1>3, <2>1, <2>2, <2>3 DEF HeardLines
<1> QED BY <1>2, <1>3

LEMMA ServerTypes ==
  ASSUME TypeOK, Extra, Chain, Server
  PROVE  TypeOK' /\ Extra'
<1> USE DEF TypeOK, Extra
<1>0. HeardLines(strand) OBVIOUS
<1>1. ClientTypeOK' /\ RoomLeft' BY DEF Server, clientVars, ClientTypeOK, RoomLeft
<1>2. SUFFICES ChannelTypeOK' /\ HeardLines(strand') BY <1>1
<1>3. CASE HandleCommand
  <2>1. PICK line : line = Head(strand).line OBVIOUS
  <2>2. /\ Run("heard") /\ strand' = Tail(strand) /\ handling' = line
        /\ heard' = Append(heard, line.no) /\ UNCHANGED <<lines, reading, writeVars, up>>
    BY <1>3, <2>1 DEF HandleCommand
  <2>3. strand' \in Seq(Handlers) /\ HeardLines(strand') /\ line \in Lines
    BY <1>0, <2>1, <2>2, StrandTypes
  <2>4. line.no \in Numbers /\ line.verb \in Verbs /\ line.big \in BOOLEAN
    BY <2>3 DEF Lines
  <2>5. heard' \in Seq(Numbers) BY <2>2, <2>4, AppendProperties DEF ChannelTypeOK
  <2>6. code' \in Codes
    <3>1. code' = NOT_LOGGED_IN \/ code' = Accepted[line.verb]
      BY <1>3, <2>1 DEF HandleCommand
    <3> QED BY <2>4, <3>1, Tables
  <2>7. /\ port' \in 0 .. MaxCommands
        /\ conn' \in [Numbers -> {"none", "backlog", "served", "shut"}]
        /\ transfers' \subseteq Transfers
    <3>1. CASE UNCHANGED dataVars BY <3>1 DEF dataVars, ChannelTypeOK
    <3>2. ASSUME NEW no \in 0 .. MaxCommands, ReopenAcceptor(no)
          PROVE  /\ port' \in 0 .. MaxCommands
                 /\ conn' \in [Numbers -> {"none", "backlog", "served", "shut"}]
                 /\ transfers' \subseteq Transfers
      <4>1. port' \in 0 .. MaxCommands BY <3>2 DEF ReopenAcceptor
      <4>2. conn' \in [Numbers -> {"none", "backlog", "served", "shut"}]
        BY <3>2 DEF ReopenAcceptor, ChannelTypeOK
      <4>3. ASSUME NEW t \in Transfers PROVE [t EXCEPT !.stage = "aborted"] \in Transfers
        BY DEF Transfers
      <4>4. transfers' \subseteq Transfers BY <3>2, <4>3 DEF ReopenAcceptor, ChannelTypeOK
      <4> QED BY <4>1, <4>2, <4>4
    <3>3. CASE line.verb \in {"RETR", "STOR"} /\ StartAccept(line)
      <4>1. ASSUME NEW stage \in {"accepting", "aborted"}
            PROVE  [no |-> line.no, verb |-> line.verb, big |-> line.big,
                    stage |-> stage, conn |-> 0] \in Transfers
        BY <2>4, <3>3, ControlAssumption DEF Transfers
      <4> QED BY <3>3, <4>1 DEF StartAccept, ChannelTypeOK
    <3>4. line.no \in 0 .. MaxCommands /\ 0 \in 0 .. MaxCommands
      BY <2>4, ControlAssumption DEF Numbers
    <3> QED BY <1>3, <2>1, <3>1, <3>2, <3>3, <3>4 DEF HandleCommand
  <2> QED BY <2>2, <2>3, <2>5, <2>6, <2>7 DEF ChannelTypeOK, writeVars
<1>4. CASE FinishCommand
  <2>1. Reply(code, handling.no) \in Replies
    <3>1. handling \in Lines BY <1>4 DEF FinishCommand, ChannelTypeOK
    <3>2. handling.no \in 0 .. MaxCommands BY <3>1, ControlAssumption DEF Lines, Numbers
    <3> QED BY <3>2 DEF Reply, Replies, ChannelTypeOK
  <2>2. strand' \in Seq(Handlers) /\ HeardLines(strand')
    BY <1>0, <1>4, <2>1, StrandTypes DEF FinishCommand
  <2> QED BY <1>4, <2>2 DEF FinishCommand, ChannelTypeOK, writeVars, dataVars
<1>5. CASE PostReply
  <2>1. /\ Run("post") /\ strand' = Tail(strand)
        /\ msgOutputQueue' = Append(msgOutputQueue, Head(strand).msg)
        /\ writes' = writes \/ writes' = writes + 1
        /\ UNCHANGED <<readVars, sent, dataVars, up>>
    BY <1>5 DEF PostReply, startSendingMsgs
  <2>2. strand' \in Seq(Handlers) /\ HeardLines(strand') /\ Head(strand) \in Handlers
    BY <1>0, <2>1, StrandTypes
  <2>3. Head(strand).msg \in Replies BY <2>2 DEF Handlers
  <2>4. msgOutputQueue' \in Seq(Replies)
    BY <2>1, <2>3, AppendProperties DEF ChannelTypeOK
  <2>5. writes' \in Nat
    <3>1. writes \in Nat BY DEF ChannelTypeOK
    <3> QED BY <2>1, <3>1
  <2> QED BY <2>1, <2>2, <2>4, <2>5 DEF ChannelTypeOK, readVars, dataVars
<1>6. CASE WriteDone
  <2>1. /\ Run("written") /\ strand' = Tail(strand)
        /\ msgOutputQueue' = Tail(msgOutputQueue)
        /\ writes' = writes \/ writes' = writes + 1
        /\ UNCHANGED <<readVars, sent, dataVars, up>>
    BY <1>6 DEF WriteDone, startSendingMsgs
  <2>2. strand' \in Seq(Handlers) /\ HeardLines(strand') BY <1>0, <2>1, StrandTypes
  <2>3. msgOutputQueue # <<>>
    <3>1. Has(strand) BY <2>1, Popped DEF Run, ChannelTypeOK
    <3> QED BY <3>1 DEF Chain
  <2>4. msgOutputQueue' \in Seq(Replies)
    BY <2>1, <2>3, HeadTailProperties DEF ChannelTypeOK
  <2>5. writes' \in Nat
    <3>1. writes \in Nat BY DEF ChannelTypeOK
    <3> QED BY <2>1, <3>1
  <2> QED BY <2>1, <2>2, <2>4, <2>5 DEF ChannelTypeOK, readVars, dataVars
<1>7. CASE ReadLines
  <2>1. PICK n \in 1 .. Len(lines) : lines' = SubSeq(lines, n + 1, Len(lines))
    BY <1>7 DEF ReadLines
  <2>2. lines \in Seq(Lines) /\ Len(lines) \in Nat BY LenProperties DEF ChannelTypeOK
  <2>3. lines' \in Seq(Lines)
    <3>1. \A i \in (n + 1) .. Len(lines) : lines[i] \in Lines
      <4>1. \A i \in (n + 1) .. Len(lines) : i \in 1 .. Len(lines) BY <2>2
      <4> QED BY <2>2, <4>1, ElementOfSeq
    <3>2. n + 1 \in Int /\ Len(lines) \in Int BY <2>2
    <3> QED BY <2>1, <3>1, <3>2, SubSeqProperties
  <2>4. Head(lines) \in Lines
    <3>1. lines # <<>> BY <2>1, <2>2, EmptySeq
    <3> QED BY <2>2, <3>1, HeadTailProperties
  <2>5. strand' \in Seq(Handlers) /\ HeardLines(strand')
    <3>1. strand' = Append(strand, Heard(Head(lines))) BY <1>7 DEF ReadLines
    <3> QED BY <1>0, <2>4, <3>1, Tables, Pushed DEF ChannelTypeOK
  <2> QED BY <1>7, <2>3, <2>5 DEF ReadLines, ChannelTypeOK, writeVars, dataVars
<1>8. CASE ReadFails
  BY <1>8 DEF ReadFails, ChannelTypeOK, writeVars, dataVars
<1>9. CASE WriteReply
  <2>1. /\ writes > 0 /\ writes' = writes - 1
        /\ sent' = Append(sent, Head(msgOutputQueue)) /\ strand' = Append(strand, Written)
        /\ UNCHANGED <<readVars, msgOutputQueue, dataVars, up>>
    BY <1>9 DEF WriteReply
  <2>2. writes' \in Nat BY <2>1 DEF ChannelTypeOK
  <2>3. msgOutputQueue # <<>> BY <2>1 DEF Chain, ChannelTypeOK
  <2>4. Head(msgOutputQueue) \in Replies BY <2>3, HeadTailProperties DEF ChannelTypeOK
  <2>5. sent' \in Seq(Replies) BY <2>1, <2>4, AppendProperties DEF ChannelTypeOK
  <2>6. strand' \in Seq(Handlers) /\ HeardLines(strand')
    BY <1>0, <2>1, Tables, Pushed DEF ChannelTypeOK
  <2> QED BY <2>1, <2>2, <2>5, <2>6 DEF ChannelTypeOK, readVars, dataVars
<1>10. CASE WriteFails
  BY <1>10 DEF WriteFails, ChannelTypeOK, readVars, dataVars
<1>11. ASSUME NEW t \in transfers
       PROVE  /\ t \in Transfers /\ t.no \in 0 .. MaxCommands
              /\ \A c \in {226, 426} : Reply(c, t.no) \in Replies
  <2>1. t \in Transfers BY DEF ChannelTypeOK
  <2>2. t.no \in 0 .. MaxCommands BY <2>1, ControlAssumption DEF Transfers, Numbers
  <2> QED BY <2>1, <2>2
        DEF Reply, Replies, Codes, CLOSING_DATA_CONNECTION, TRANSFER_ABORTED
<1>12. ASSUME NEW t \in transfers, Accept(t) PROVE ChannelTypeOK' /\ HeardLines(strand')
  <2>1. [no |-> t.no, verb |-> t.verb, big |-> t.big, stage |-> "moving", conn |-> port]
          \in Transfers
    BY <1>11 DEF Transfers, ChannelTypeOK
  <2>2. transfers' \subseteq Transfers BY <1>12, <2>1 DEF Accept, ChannelTypeOK
  <2>3. conn' \in [Numbers -> {"none", "backlog", "served", "shut"}]
    BY <1>12 DEF Accept, ChannelTypeOK
  <2> QED BY <1>12, <2>2, <2>3 DEF Accept, ChannelTypeOK, readVars, writeVars
<1>13. ASSUME NEW t \in transfers, Close(t)
       PROVE  /\ transfers' \subseteq Transfers
              /\ conn' \in [Numbers -> {"none", "backlog", "served", "shut"}]
  BY <1>13 DEF Close, ChannelTypeOK
<1>14. ASSUME NEW t \in transfers, EndTransfer(t) PROVE ChannelTypeOK' /\ HeardLines(strand')
  <2>1. CASE AcceptFails(t)
    <3>1. strand' \in Seq(Handlers) /\ HeardLines(strand')
      BY <1>0, <1>11, <2>1, StrandTypes DEF AcceptFails, TRANSFER_ABORTED
    <3> QED BY <2>1, <3>1 DEF AcceptFails, ChannelTypeOK, readVars, writeVars
  <2>2. CASE Complete(t, Peer(t), PeerReads(t))
    <3>1. strand' \in Seq(Handlers) /\ HeardLines(strand')
      BY <1>0, <1>11, <2>2, StrandTypes DEF Complete, CLOSING_DATA_CONNECTION
    <3> QED BY <1>13, <2>2, <3>1 DEF Complete, ChannelTypeOK, readVars, writeVars
  <2>3. CASE SendFails(t, Peer(t))
    BY <1>13, <2>3 DEF SendFails, ChannelTypeOK, readVars, writeVars
  <2> QED BY <1>14, <2>1, <2>2, <2>3 DEF EndTransfer
<1> QED
  BY <1>3, <1>4, <1>5, <1>6, <1>7, <1>8, <1>9, <1>10, <1>12, <1>14
  DEF Server, Strand, Socket

LEMMA Received ==
  ASSUME TypeOK, Ready
  PROVE  /\ Head(Available) \in Replies
         /\ \A next \in Awaiting : recvFTPMsg(next) =>
              /\ taken' \in Nat /\ used' \in Replies /\ awaiting' = next
              /\ astray' \subseteq {"dropped", "abandoned"}
<1>1. sent \in Seq(Replies) /\ Len(sent) \in Nat /\ taken \in Nat
  BY LenProperties DEF TypeOK, ChannelTypeOK, ClientTypeOK
<1>2. \A i \in (taken + 1) .. Len(sent) : sent[i] \in Replies
  <2>1. \A i \in (taken + 1) .. Len(sent) : i \in 1 .. Len(sent) BY <1>1
  <2> QED BY <1>1, <2>1, ElementOfSeq
<1>3. Available \in Seq(Replies)
  <2>1. taken + 1 \in Int /\ Len(sent) \in Int BY <1>1
  <2> QED BY <1>2, <2>1, SubSeqProperties DEF Available
<1>4. Available # <<>> BY DEF Ready
<1>5. Head(Available) \in Replies BY <1>3, <1>4, HeadTailProperties
<1>6. ASSUME NEW next \in Awaiting, recvFTPMsg(next)
      PROVE  /\ taken' \in Nat /\ used' \in Replies /\ awaiting' = next
             /\ astray' \subseteq {"dropped", "abandoned"}
  <2>1. Len(Available) \in Nat BY <1>3, LenProperties
  <2>2. PICK k : k = Len(Available) OBVIOUS
  <2>3. PICK n \in 1 .. k :
          /\ taken' = taken + n
          /\ astray' = IF n > 1 THEN astray \cup {"dropped"} ELSE astray
    BY <1>6, <2>2 DEF recvFTPMsg
  <2>4. taken' \in Nat BY <1>1, <2>1, <2>2, <2>3
  <2>5. astray' \subseteq {"dropped", "abandoned"} BY <2>3 DEF TypeOK, ClientTypeOK
  <2>6. used' = Head(Available) /\ awaiting' = next BY <1>6 DEF recvFTPMsg
  <2> QED BY <1>5, <2>4, <2>5, <2>6
<1> QED BY <1>5, <1>6

LEMMA Sent ==
  ASSUME TypeOK, lastNo < MaxCommands,
         NEW verb \in Verbs, NEW big \in BOOLEAN, sendCmd(verb, big)
  PROVE  lines' \in Seq(Lines) /\ lastNo' \in 0 .. MaxCommands /\ lastNo' = lastNo + 1
<1>1. lastNo' = lastNo + 1 /\ lines' = Append(lines, [no |-> lastNo', verb |-> verb, big |-> big])
  BY DEF sendCmd
<1>2. lastNo \in 0 .. MaxCommands BY DEF TypeOK, ClientTypeOK
<1>3. lastNo' \in 0 .. MaxCommands /\ lastNo' \in 1 .. MaxCommands
  BY <1>1, <1>2, ControlAssumption
<1>4. [no |-> lastNo', verb |-> verb, big |-> big] \in Lines BY <1>3 DEF Lines, Numbers
<1>5. lines' \in Seq(Lines)
  BY <1>1, <1>4, AppendProperties DEF TypeOK, ChannelTypeOK
<1> QED BY <1>1, <1>3, <1>5

LEMMA ClientTypes ==
  ASSUME TypeOK, Extra, ClientReads \/ ClientCalls \/ Abandon \/ Disconnect
  PROVE  TypeOK' /\ Extra'
<1>1. /\ HeardLines(strand) /\ RoomLeft /\ lastNo \in 0 .. MaxCommands
      /\ call \in Calls /\ dataSocket \in 0 .. MaxCommands
  BY DEF Extra, TypeOK, ClientTypeOK
<1>2. \A v \in {"PASS", "MKD", "USER", "PASV"} : v \in Verbs BY DEF Verbs
<1>3. call.verb \in Verbs /\ call.big \in BOOLEAN BY <1>1 DEF Calls, Verbs
<1>4. ASSUME ServerUnchanged, lines' \in Seq(Lines), ClientTypeOK', RoomLeft',
             UNCHANGED dataVars
      PROVE  TypeOK' /\ Extra'
  BY <1>1, <1>4
  DEF ServerUnchanged, TypeOK, ChannelTypeOK, Extra, HeardLines, writeVars, dataVars
<1>5. lines \in Seq(Lines) BY DEF TypeOK, ChannelTypeOK
<1>6. CASE LastReply
  <2>1. /\ taken' \in Nat /\ used' \in Replies /\ awaiting' = "idle"
        /\ astray' \subseteq {"dropped", "abandoned"}
    BY <1>6, Received DEF LastReply, Awaiting
  <2>2. ClientTypeOK' /\ RoomLeft'
    BY <1>1, <1>6, <2>1 DEF LastReply, ClientTypeOK, RoomLeft, Awaiting
  <2> QED BY <1>4, <1>5, <1>6, <2>2 DEF LastReply
<1>7. CASE UserReply
  <2>1. CASE recvFTPMsg("PASS") /\ sendCmd("PASS", FALSE)
    <3>1. /\ taken' \in Nat /\ used' \in Replies /\ awaiting' = "PASS"
          /\ astray' \subseteq {"dropped", "abandoned"}
      BY <1>7, <2>1, Received DEF UserReply, Awaiting
    <3>2. lastNo < MaxCommands BY <1>1, <1>7 DEF UserReply, RoomLeft
    <3>3. lines' \in Seq(Lines) /\ lastNo' \in 0 .. MaxCommands
      BY <1>2, <2>1, <3>2, Sent
    <3>4. ClientTypeOK' /\ RoomLeft'
      BY <1>1, <1>7, <3>1, <3>3 DEF UserReply, ClientTypeOK, RoomLeft, Awaiting
    <3> QED BY <1>4, <1>7, <3>3, <3>4 DEF UserReply
  <2>2. CASE recvFTPMsg("idle") /\ UNCHANGED <<lines, lastNo>>
    <3>1. /\ taken' \in Nat /\ used' \in Replies /\ awaiting' = "idle"
          /\ astray' \subseteq {"dropped", "abandoned"}
      BY <1>7, <2>2, Received DEF UserReply, Awaiting
    <3>2. ClientTypeOK' /\ RoomLeft'
      BY <1>1, <1>7, <2>2, <3>1 DEF UserReply, ClientTypeOK, RoomLeft, Awaiting
    <3> QED BY <1>4, <1>5, <1>7, <2>2, <3>2 DEF UserReply
  <2> QED BY <1>7, <2>1, <2>2 DEF UserReply
<1>8. CASE PasvReply
  <2>1. PICK m : m = Head(Available) OBVIOUS
  <2>2. m \in Replies BY <1>8, <2>1, Received DEF PasvReply
  <2>3. m.no \in 0 .. MaxCommands BY <2>2 DEF Replies
  <2>4. /\ awaiting = "PASV" /\ Ready /\ ServerUnchanged /\ call' = call
        /\ \/ m.no = port /\ recvFTPMsg("opening") /\ Connect(m.no) /\ sendCmd(call.verb, call.big)
           \/ recvFTPMsg("idle") /\ dataSocket' = 0 /\ UNCHANGED <<lines, lastNo, dataVars>>
           \/ recvFTPMsg("idle") /\ UNCHANGED <<lines, lastNo, dataVars, dataSocket>>
    BY <1>8, <2>1 DEF PasvReply
  <2>5. CASE /\ m.no = port /\ recvFTPMsg("opening") /\ Connect(m.no)
             /\ sendCmd(call.verb, call.big)
    <3>1. /\ taken' \in Nat /\ used' \in Replies /\ awaiting' = "opening"
          /\ astray' \subseteq {"dropped", "abandoned"}
      BY <2>4, <2>5, Received DEF Awaiting
    <3>2. lastNo < MaxCommands BY <1>1, <2>4 DEF RoomLeft
    <3>3. lines' \in Seq(Lines) /\ lastNo' \in 0 .. MaxCommands
      BY <1>3, <2>5, <3>2, Sent
    <3>4. ClientTypeOK' /\ RoomLeft'
      BY <1>1, <2>3, <2>4, <2>5, <3>1, <3>3 DEF Connect, ClientTypeOK, RoomLeft, Awaiting
    <3>5. conn' \in [Numbers -> {"none", "backlog", "served", "shut"}]
      BY <2>5 DEF Connect, TypeOK, ChannelTypeOK
    <3>6. ChannelTypeOK'
      BY <2>4, <2>5, <3>3, <3>5
      DEF Connect, ServerUnchanged, TypeOK, ChannelTypeOK, writeVars
    <3> QED BY <1>1, <2>4, <3>4, <3>6 DEF TypeOK, Extra, HeardLines, ServerUnchanged
  <2>6. ASSUME recvFTPMsg("idle"), dataSocket' = 0 \/ dataSocket' = dataSocket,
               UNCHANGED <<lines, lastNo, dataVars>>
        PROVE  TypeOK' /\ Extra'
    <3>1. /\ taken' \in Nat /\ used' \in Replies /\ awaiting' = "idle"
          /\ astray' \subseteq {"dropped", "abandoned"}
      BY <2>4, <2>6, Received DEF Awaiting
    <3>2. dataSocket' \in 0 .. MaxCommands BY <1>1, <2>6, ControlAssumption
    <3>3. ClientTypeOK' /\ RoomLeft'
      BY <1>1, <2>4, <2>6, <3>1, <3>2 DEF ClientTypeOK, RoomLeft, Awaiting
    <3> QED BY <1>4, <1>5, <2>4, <2>6, <3>3
  <2> QED BY <2>4, <2>5, <2>6
<1>9. CASE OpeningReply
  <2>1. PICK next \in {"idle", "data"} : recvFTPMsg(next) BY <1>9 DEF OpeningReply
  <2>2. /\ taken' \in Nat /\ used' \in Replies /\ awaiting' = next
        /\ astray' \subseteq {"dropped", "abandoned"}
    BY <1>9, <2>1, Received DEF OpeningReply, Awaiting
  <2>3. ClientTypeOK' /\ RoomLeft'
    BY <1>1, <1>9, <2>2 DEF OpeningReply, ClientTypeOK, RoomLeft, Awaiting
  <2> QED BY <1>4, <1>5, <1>9, <2>3 DEF OpeningReply
<1>10. CASE EndOfData
  <2>1. 0 \in 0 .. MaxCommands BY ControlAssumption
  <2>2. ClientTypeOK' /\ RoomLeft'
    BY <1>10, <2>1 DEF EndOfData, TypeOK, ClientTypeOK, RoomLeft, Awaiting
  <2> QED BY <1>4, <1>5, <1>10, <2>2 DEF EndOfData
<1>11. ASSUME NEW verb \in Verbs, sendCmd(verb, FALSE), MayCall(1),
              call' \in Calls, awaiting' \in {"reply", "USER", "PASV"},
              awaiting' # "reply" => MayCall(2),
              ServerUnchanged, UNCHANGED <<dataVars, dataSocket, taken, used, astray>>
       PROVE  TypeOK' /\ Extra'
  <2>1. lastNo < MaxCommands BY <1>1, <1>11, ControlAssumption DEF MayCall
  <2>2. /\ lines' \in Seq(Lines) /\ lastNo' \in 0 .. MaxCommands
        /\ lastNo' = lastNo + 1
    BY <1>11, <2>1, Sent
  <2>3. awaiting' # "reply" => lastNo' < MaxCommands
    BY <1>1, <1>11, <2>2, ControlAssumption DEF MayCall
  <2>4. RoomLeft' BY <1>11, <2>3 DEF RoomLeft
  <2>5. ClientTypeOK'
    BY <1>11, <2>2 DEF TypeOK, ClientTypeOK, Awaiting
  <2> QED BY <1>4, <1>11, <2>2, <2>4, <2>5
<1>12. MayCall(2) => MayCall(1) BY <1>1, ControlAssumption DEF MayCall
<1>13. CASE OneCommand
  BY <1>1, <1>2, <1>11, <1>13 DEF OneCommand
<1>14. CASE Login
  BY <1>1, <1>2, <1>11, <1>12, <1>14 DEF Login
<1>15. ASSUME NEW verb \in {"RETR", "STOR"}, NEW big \in BOOLEAN, Transfer(verb, big)
       PROVE  TypeOK' /\ Extra'
  <2>1. call' \in Calls BY <1>15 DEF Transfer, Calls
  <2> QED BY <1>2, <1>11, <1>12, <1>15, <2>1 DEF Transfer
<1>16. CASE Abandon
  <2>1. ClientTypeOK' /\ RoomLeft'
    BY <1>16 DEF Abandon, TypeOK, ClientTypeOK, RoomLeft, Awaiting
  <2> QED BY <1>4, <1>5, <1>16, <2>1 DEF Abandon
<1>17. CASE Disconnect
  <2>1. 0 \in 0 .. MaxCommands BY ControlAssumption
  <2>2. taken' \in Nat /\ used' \in Replies
    <3>1. Available # <<>> => Head(Available) \in Replies
      BY <1>17, Received DEF Ready, Disconnect
    <3> QED BY <1>17, <3>1 DEF Disconnect, TypeOK, ClientTypeOK
  <2>3. ClientTypeOK' /\ RoomLeft'
    BY <1>17, <2>1, <2>2 DEF Disconnect, TypeOK, ClientTypeOK, RoomLeft, Awaiting
  <2> QED
    BY <1>1, <1>17, <2>3
    DEF Disconnect, TypeOK, ChannelTypeOK, Extra, HeardLines, readVars, writeVars, dataVars
<1> QED
  BY <1>6, <1>7, <1>8, <1>9, <1>10, <1>13, <1>14, <1>15, <1>16, <1>17
  DEF ClientReads, ClientCalls

-----------------------------------------------------------------------------
(* In step.  While no reply was dropped and no transfer abandoned, what a  *)
(* call has brought about and not yet taken is its load: its line, the     *)
(* line's handler, its replies on their way and its transfer.  (A reply    *)
(* that is written and still waits for its completion is on no way.)  The  *)
(* load is one reply, two when a transfer has been opened; all of it is    *)
(* the load of the last command; and a second reply means no refusal.      *)

Hears(q) == \E i \in DOMAIN q : q[i].op = "heard"
HearsOnce(q) == \A i, j \in DOMAIN q : q[i].op = "heard" /\ q[j].op = "heard" => i = j

Lagging(q) == IF Has(q) THEN 1 ELSE 0
Heards(q) == IF Hears(q) THEN 1 ELSE 0
Busy == IF handling = NoLine THEN 0 ELSE 1
Moving == IF transfers = {} THEN 0 ELSE 1

Sum(l, s, b, q, a, m, w) == (l + s + b + q + a + m) - 2 * w

Load == Sum(Len(lines), Len(strand), Busy, Len(msgOutputQueue), Len(sent) - taken,
            Moving, Lagging(strand))

(* All replies on their way to the client are in S. *)
PostsIn(q, S) == \A i \in DOMAIN q : q[i].op = "post" => q[i].msg \in S
QueueIn(r, written, S) == \A i \in DOMAIN r : i > 1 \/ ~written => r[i] \in S
SentIn(S) == \A i \in (taken + 1) .. Len(sent) : sent[i] \in S
HandlingIn(S) == handling # NoLine => Reply(code, handling.no) \in S

Within(S) ==
  /\ PostsIn(strand, S) /\ QueueIn(msgOutputQueue, Has(strand), S)
  /\ SentIn(S) /\ HandlingIn(S)

Own == {m \in Replies : m.no = lastNo /\ (Load > 1 => ~isNegative(m))}
OwnLine(l) ==
  l.no = lastNo /\ (l.verb \in {"RETR", "STOR"} => awaiting = "opening" /\ port # 0)
Coming == lines # <<>> \/ Hears(strand)
Expected == IF Coming THEN 1 ELSE 0

(* The session reads, or has a line in hand. *)
Turn ==
  /\ taken <= Len(sent)
  /\ HearsOnce(strand)
  /\ up => \/ reading /\ ~Hears(strand) /\ handling = NoLine
           \/ ~reading /\ Hears(strand) /\ handling = NoLine
           \/ ~reading /\ ~Hears(strand) /\ handling # NoLine

Lock ==
  up /\ astray = {} =>
    /\ \A i \in DOMAIN lines : OwnLine(lines[i])
    /\ \A i \in DOMAIN strand : strand[i].op = "heard" => OwnLine(strand[i].line)
    /\ Within(Own)
    /\ \A t \in transfers : t.no = lastNo /\ t.stage # "aborted"
    /\ \A s, t \in transfers : s = t
    /\ awaiting = "idle" => Load <= 0
    /\ awaiting # "opening" => Load <= 1
    /\ Load <= 2
    /\ Coming => Load <= 1 /\ awaiting \notin {"data", "final"}

FInv == IInv /\ Turn /\ Lock

LEMMA HeardPopped ==
  ASSUME NEW q \in Seq(Handlers), q # <<>>, NEW S
  PROVE  /\ Len(Tail(q)) = Len(q) - 1 /\ Len(q) \in Nat
         /\ HearsOnce(q) => HearsOnce(Tail(q))
         /\ Hears(Tail(q)) => Hears(q)
         /\ Head(q).op # "heard" => (Hears(Tail(q)) <=> Hears(q))
         /\ Head(q).op = "heard" => Hears(q) /\ (HearsOnce(q) => ~Hears(Tail(q)))
         /\ PostsIn(q, S) => PostsIn(Tail(q), S) /\ (Head(q).op = "post" => Head(q).msg \in S)
         /\ 1 \in DOMAIN q /\ Head(q) = q[1]
         /\ \A i \in DOMAIN Tail(q) : i + 1 \in DOMAIN q /\ Tail(q)[i] = q[i + 1]
<1>1. /\ Head(q) = q[1] /\ Len(q) \in Nat /\ Len(q) > 0 /\ DOMAIN q = 1 .. Len(q)
      /\ Len(Tail(q)) = Len(q) - 1
      /\ DOMAIN Tail(q) = 1 .. (Len(q) - 1)
      /\ \A i \in 1 .. (Len(q) - 1) : Tail(q)[i] = q[i + 1]
  BY HeadTailProperties, LenProperties, EmptySeq
<1>2. ASSUME NEW i \in DOMAIN Tail(q)
      PROVE  i \in Nat /\ i + 1 \in DOMAIN q /\ i + 1 # 1 /\ Tail(q)[i] = q[i + 1]
  BY <1>1
<1>3. ASSUME NEW i \in DOMAIN q, i # 1
      PROVE  \E j \in DOMAIN Tail(q) : Tail(q)[j] = q[i]
  <2>1. i - 1 \in DOMAIN Tail(q) /\ (i - 1) + 1 = i BY <1>1, <1>3
  <2> QED BY <1>1, <2>1
<1>4. 1 \in DOMAIN q BY <1>1
<1>5. HearsOnce(q) => HearsOnce(Tail(q))
  <2> SUFFICES ASSUME HearsOnce(q), NEW i \in DOMAIN Tail(q), NEW j \in DOMAIN Tail(q),
                      Tail(q)[i].op = "heard", Tail(q)[j].op = "heard"
               PROVE  i = j
    BY DEF HearsOnce
  <2>1. i + 1 = j + 1 BY <1>2 DEF HearsOnce
  <2> QED BY <1>2, <2>1
<1>6. Hears(Tail(q)) => Hears(q) BY <1>2 DEF Hears
<1>7. Head(q).op # "heard" /\ Hears(q) => Hears(Tail(q)) BY <1>1, <1>3 DEF Hears
<1>8. Head(q).op = "heard" => Hears(q) BY <1>1, <1>4 DEF Hears
<1>9. Head(q).op = "heard" /\ HearsOnce(q) => ~Hears(Tail(q))
  <2> SUFFICES ASSUME q[1].op = "heard", HearsOnce(q), NEW i \in DOMAIN Tail(q),
                      Tail(q)[i].op = "heard"
               PROVE  FALSE
    BY <1>1 DEF Hears
  <2> QED BY <1>2, <1>4 DEF HearsOnce
<1>10. PostsIn(q, S) => PostsIn(Tail(q), S) /\ (Head(q).op = "post" => Head(q).msg \in S)
  BY <1>1, <1>2, <1>4 DEF PostsIn
<1> QED BY <1>1, <1>2, <1>4, <1>5, <1>6, <1>7, <1>8, <1>9, <1>10

LEMMA HeardPushed ==
  ASSUME NEW q \in Seq(Handlers), NEW h \in Handlers, NEW S
  PROVE  /\ Len(Append(q, h)) = Len(q) + 1 /\ Len(q) \in Nat
         /\ h.op # "heard" => (Hears(Append(q, h)) <=> Hears(q))
         /\ h.op # "heard" /\ HearsOnce(q) => HearsOnce(Append(q, h))
         /\ h.op = "heard" => Hears(Append(q, h))
         /\ ~Hears(q) => HearsOnce(Append(q, h))
         /\ PostsIn(q, S) /\ (h.op = "post" => h.msg \in S) => PostsIn(Append(q, h), S)
         /\ \A i \in DOMAIN Append(q, h) : \/ i \in DOMAIN q /\ Append(q, h)[i] = q[i]
                                           \/ Append(q, h)[i] = h
<1> DEFINE r == Append(q, h)
<1>1. /\ Len(q) \in Nat /\ DOMAIN q = 1 .. Len(q) /\ Len(r) = Len(q) + 1
      /\ DOMAIN r = 1 .. (Len(q) + 1)
      /\ \A i \in 1 .. Len(q) : r[i] = q[i]
      /\ r[Len(q) + 1] = h
  BY AppendProperties, LenProperties
<1> HIDE DEF r
<1>2. /\ \A i \in DOMAIN q : i \in DOMAIN r /\ r[i] = q[i]
      /\ \A i \in DOMAIN r : i \in DOMAIN q \/ i = Len(q) + 1
      /\ Len(q) + 1 \in DOMAIN r
  BY <1>1
<1>3. h.op # "heard" => (Hears(r) <=> Hears(q)) BY <1>1, <1>2 DEF Hears
<1>4. h.op # "heard" /\ HearsOnce(q) => HearsOnce(r) BY <1>1, <1>2 DEF HearsOnce
<1>5. h.op = "heard" => Hears(r) BY <1>1, <1>2 DEF Hears
<1>6. ~Hears(q) => HearsOnce(r) BY <1>1, <1>2 DEF Hears, HearsOnce
<1>7. PostsIn(q, S) /\ (h.op = "post" => h.msg \in S) => PostsIn(r, S)
  BY <1>1, <1>2 DEF PostsIn
<1> QED BY <1>1, <1>2, <1>3, <1>4, <1>5, <1>6, <1>7 DEF r

(* One handler each is in the strand for what it holds. *)
LEMMA StrandHolds ==
  ASSUME NEW q \in Seq(Handlers)
  PROVE  /\ Len(q) \in Nat
         /\ Len(q) >= Lagging(q) + Heards(q)
         /\ ~PostsIn(q, {}) => Len(q) >= Lagging(q) + Heards(q) + 1
<1>0. Len(q) \in Nat BY LenProperties
<1>1. DOMAIN q = 1 .. Len(q) BY LenProperties
<1>2. \A n \in Nat : \A i, j, k \in 1 .. n : /\ n >= 1
                                             /\ i # j => n >= 2
                                             /\ i # j /\ j # k /\ i # k => n >= 3
  OBVIOUS
<1>3. PICK n \in Nat : n = Len(q) BY <1>0
<1>4. Has(q) => \E i \in 1 .. n : q[i].op = "written" BY <1>1, <1>3 DEF Has
<1>5. Hears(q) => \E i \in 1 .. n : q[i].op = "heard" BY <1>1, <1>3 DEF Hears
<1>6. ~PostsIn(q, {}) => \E i \in 1 .. n : q[i].op = "post" BY <1>1, <1>3 DEF PostsIn
<1>7. /\ Has(q) \/ Hears(q) \/ ~PostsIn(q, {}) => n >= 1
      /\ Has(q) /\ Hears(q) => n >= 2
      /\ Has(q) /\ ~PostsIn(q, {}) => n >= 2
      /\ Hears(q) /\ ~PostsIn(q, {}) => n >= 2
      /\ Has(q) /\ Hears(q) /\ ~PostsIn(q, {}) => n >= 3
  BY <1>2, <1>4, <1>5, <1>6
<1> QED BY <1>3, <1>7 DEF Lagging, Heards

(* What the load is made of. *)
LEMMA Parts ==
  ASSUME TypeOK, Chain, Turn
  PROVE  /\ Len(lines) \in Nat /\ Len(strand) \in Nat /\ Len(msgOutputQueue) \in Nat
         /\ Len(sent) \in Nat /\ taken \in Nat /\ taken <= Len(sent)
         /\ Lagging(strand) \in 0 .. 1 /\ Busy \in 0 .. 1
         /\ Moving \in 0 .. 1 /\ Heards(strand) \in 0 .. 1
         /\ Len(strand) >= Lagging(strand) + Heards(strand)
         /\ Len(msgOutputQueue) >= Lagging(strand)
         /\ Lagging(strand) \in Nat /\ Busy \in Nat /\ Moving \in Nat /\ Heards(strand) \in Nat
         /\ Len(sent) - taken \in Nat
         /\ Load \in Int
<1>1. /\ Len(lines) \in Nat /\ Len(strand) \in Nat /\ Len(msgOutputQueue) \in Nat
      /\ Len(sent) \in Nat /\ taken \in Nat
  BY LenProperties DEF TypeOK, ChannelTypeOK, ClientTypeOK
<1>2. taken <= Len(sent) BY DEF Turn
<1>3. /\ Lagging(strand) \in 0 .. 1 /\ Busy \in 0 .. 1
      /\ Moving \in 0 .. 1 /\ Heards(strand) \in 0 .. 1
  BY DEF Lagging, Busy, Moving, Heards
<1>4. Len(strand) >= Lagging(strand) + Heards(strand)
  BY StrandHolds DEF TypeOK, ChannelTypeOK
<1>5. Len(msgOutputQueue) >= Lagging(strand)
  <2>1. Has(strand) => Len(msgOutputQueue) # 0
    BY EmptySeq DEF Chain, TypeOK, ChannelTypeOK
  <2> QED BY <1>1, <2>1 DEF Lagging
<1>6. Load \in Int
  <2>1. \A l, s, g, q, a, k, m, w \in Nat : Sum(l, s, g, q, a - k, m, w) \in Int
    BY DEF Sum
  <2>2. /\ Lagging(strand) \in Nat /\ Busy \in Nat
        /\ Moving \in Nat
    BY <1>3
  <2> QED BY <1>1, <2>1, <2>2 DEF Load
<1> QED BY <1>1, <1>2, <1>3, <1>4, <1>5, <1>6

(* Where the load is n besides the line that comes and the replies that    *)
(* have come, nothing else is on its way.                                  *)
LEMMA Nothing ==
  ASSUME TypeOK, Chain, Turn, NEW S,
         Load <= Len(lines) + Heards(strand) + (Len(sent) - taken)
  PROVE  /\ PostsIn(strand, S) /\ QueueIn(msgOutputQueue, Has(strand), S) /\ HandlingIn(S)
         /\ handling = NoLine /\ transfers = {}
<1> DEFINE w == Lagging(strand)
           h == Heards(strand)
           g == Busy
           m == Moving
           a == Len(sent) - taken
<1>1. /\ Len(lines) \in Nat /\ Len(strand) \in Nat /\ Len(msgOutputQueue) \in Nat
      /\ a \in Nat /\ w \in 0 .. 1 /\ g \in 0 .. 1 /\ m \in 0 .. 1 /\ h \in 0 .. 1
      /\ Len(strand) >= w + h /\ Len(msgOutputQueue) >= w
  <2>1. taken \in Nat /\ Len(sent) \in Nat /\ taken <= Len(sent) BY Parts
  <2>2. a \in Nat BY <2>1
  <2> QED BY <2>2, Parts
<1>2. Load = (Len(lines) + Len(strand) + g + Len(msgOutputQueue) + a + m) - 2 * w
  BY DEF Load, Sum
<1>3. Load <= Len(lines) + h + a OBVIOUS
<1> HIDE DEF w, h, g, m, a
<1>4. \A l, s, q, x, y, z, k, r \in Nat :
        /\ s >= x + y /\ q >= x /\ (l + s + z + q + k + r) - 2 * x <= l + y + k
        => s = x + y /\ q = x /\ z = 0 /\ r = 0
  OBVIOUS
<1>5. w \in Nat /\ h \in Nat /\ g \in Nat /\ m \in Nat BY <1>1
<1>6. Len(strand) = w + h /\ Len(msgOutputQueue) = w /\ g = 0 /\ m = 0
  BY <1>1, <1>2, <1>3, <1>4, <1>5
<1>7. handling = NoLine /\ transfers = {} BY <1>6 DEF g, m, Busy, Moving
<1>8. PostsIn(strand, {})
  <2>1. ~PostsIn(strand, {}) => Len(strand) >= w + h + 1
    BY StrandHolds DEF w, h, TypeOK, ChannelTypeOK
  <2> QED BY <1>1, <1>6, <2>1
<1>9. QueueIn(msgOutputQueue, Has(strand), S)
  <2>1. DOMAIN msgOutputQueue = 1 .. w
    BY <1>6, LenProperties DEF TypeOK, ChannelTypeOK
  <2>2. Has(strand) => w = 1 BY DEF w, Lagging
  <2>3. ~Has(strand) => w = 0 BY DEF w, Lagging
  <2> QED BY <2>1, <2>2, <2>3 DEF QueueIn
<1> QED BY <1>7, <1>8, <1>9 DEF PostsIn, HandlingIn

(* A line that comes is the only load, and with no load no line comes.     *)
LEMMA Alone ==
  ASSUME TypeOK, Chain, Turn, NEW S,
         Load <= Expected
  PROVE  /\ Within(S) /\ handling = NoLine /\ transfers = {} /\ taken = Len(sent)
         /\ Len(lines) + Heards(strand) = Expected
         /\ Len(strand) = Lagging(strand) + Heards(strand)
         /\ Len(msgOutputQueue) = Lagging(strand)
         /\ Load = Expected
<1> DEFINE w == Lagging(strand)
           h == Heards(strand)
           g == Busy
           m == Moving
           a == Len(sent) - taken
           c == Expected
<1>1. /\ Len(lines) \in Nat /\ Len(strand) \in Nat /\ Len(msgOutputQueue) \in Nat
      /\ a \in Nat /\ w \in 0 .. 1 /\ g \in 0 .. 1 /\ m \in 0 .. 1 /\ h \in 0 .. 1
      /\ Len(strand) >= w + h /\ Len(msgOutputQueue) >= w
      /\ taken \in Nat /\ Len(sent) \in Nat
  <2>1. taken \in Nat /\ Len(sent) \in Nat /\ taken <= Len(sent) BY Parts
  <2>2. a \in Nat BY <2>1
  <2> QED BY <2>1, <2>2, Parts
<1>2. Load = (Len(lines) + Len(strand) + g + Len(msgOutputQueue) + a + m) - 2 * w
  BY DEF Load, Sum
<1>3. Load <= c /\ c \in 0 .. 1 BY DEF Expected
<1>4. Len(lines) + h >= c
  <2>1. lines # <<>> => Len(lines) >= 1
    BY <1>1, EmptySeq DEF TypeOK, ChannelTypeOK
  <2>2. Hears(strand) => h = 1 BY DEF h, Heards
  <2>3. Coming => Len(lines) + h >= 1 BY <1>1, <2>1, <2>2 DEF Coming
  <2> QED BY <1>1, <2>3 DEF c, Expected
<1> HIDE DEF w, h, g, m, a, c
<1>5. \A l, s, q, x, y, z, k, r, n \in Nat :
        /\ s >= x + y /\ q >= x /\ (l + s + z + q + k + r) - 2 * x <= n /\ l + y >= n
        => s = x + y /\ q = x /\ z = 0 /\ r = 0 /\ k = 0 /\ l + y = n
           /\ (l + s + z + q + k + r) - 2 * x = n
  OBVIOUS
<1>6. w \in Nat /\ h \in Nat /\ g \in Nat /\ m \in Nat /\ c \in Nat BY <1>1, <1>3
<1>7. /\ Len(strand) = w + h /\ Len(msgOutputQueue) = w /\ g = 0 /\ m = 0 /\ a = 0
      /\ Len(lines) + h = c /\ Load = c
  BY <1>1, <1>2, <1>3, <1>4, <1>5, <1>6
<1>8. taken = Len(sent) BY <1>1, <1>7 DEF a
<1>9. Load <= Len(lines) + Heards(strand) + (Len(sent) - taken)
  BY <1>1, <1>6, <1>7 DEF h, a
<1>10. /\ PostsIn(strand, S) /\ QueueIn(msgOutputQueue, Has(strand), S) /\ HandlingIn(S)
       /\ handling = NoLine /\ transfers = {}
  BY <1>9, Nothing
<1>11. SentIn(S) BY <1>1, <1>8 DEF SentIn
<1> QED BY <1>7, <1>8, <1>10, <1>11 DEF Within, w, h, c

-----------------------------------------------------------------------------
(* The steps of the server.                                                *)

(* A step that makes the load no heavier. *)
LEMMA Lighter ==
  ASSUME Lock, up, astray = {}, UNCHANGED <<awaiting, lastNo, port>>,
         Load \in Int, Load' \in Int, Load' <= Load, Coming' => Coming,
         \A i \in DOMAIN lines' : OwnLine(lines'[i]),
         \A i \in DOMAIN strand' : strand'[i].op = "heard" => OwnLine(strand'[i].line),
         \A t \in transfers' : t.no = lastNo /\ t.stage # "aborted",
         \A s, t \in transfers' : s = t,
         NEW S, S = Own, Within(S)'
  PROVE  Lock'
<1>1. Load' > 1 => Load > 1 OBVIOUS
<1>2. S \subseteq Own' BY <1>1 DEF Own, isNegative
<1>3. Within(Own)'
  <2>1. \A m : m \in S => m \in Own' BY <1>2
  <2> QED BY <2>1 DEF Within, PostsIn, QueueIn, SentIn, HandlingIn
<1>4. /\ awaiting = "idle" => Load' <= 0
      /\ awaiting # "opening" => Load' <= 1
      /\ Load' <= 2
      /\ Coming' => Load' <= 1 /\ awaiting \notin {"data", "final"}
  BY DEF Lock
<1> QED BY <1>3, <1>4 DEF Lock, OwnLine

LEMMA LoadChange ==
  ASSUME TypeOK, Chain, Turn, Len(lines') \in Int, Len(strand') \in Int,
         UNCHANGED <<Busy, Len(msgOutputQueue), Len(sent) - taken, Moving, Lagging(strand)>>
  PROVE  Load' = Load + (Len(lines') - Len(lines)) + (Len(strand') - Len(strand))
<1>1. \A l, s, b, q, a, m, w, k, t \in Int :
        Sum(k, t, b, q, a, m, w) = Sum(l, s, b, q, a, m, w) + (k - l) + (t - s)
  BY DEF Sum
<1>2. Load = Sum(Len(lines), Len(strand), Busy, Len(msgOutputQueue), Len(sent) - taken,
                 Moving, Lagging(strand))
  BY DEF Load
<1>3. Load' = Sum(Len(lines'), Len(strand'), Busy, Len(msgOutputQueue), Len(sent) - taken,
                  Moving, Lagging(strand))
  BY DEF Load
<1>4. /\ Len(lines) \in Int /\ Len(strand) \in Int /\ Busy \in Int
      /\ Len(msgOutputQueue) \in Int /\ Len(sent) - taken \in Int /\ Moving \in Int
      /\ Lagging(strand) \in Int
  BY Parts
<1> QED BY <1>1, <1>2, <1>3, <1>4

(* The replies in a strand of which the first handler has run, or to which *)
(* one was added.                                                          *)
LEMMA OwnHeard ==
  ASSUME NEW q \in Seq(Handlers), NEW h \in Handlers,
         \A i \in DOMAIN q : q[i].op = "heard" => OwnLine(q[i].line)
  PROVE  /\ q # <<>> => \A i \in DOMAIN Tail(q) :
                          Tail(q)[i].op = "heard" => OwnLine(Tail(q)[i].line)
         /\ (h.op = "heard" => OwnLine(h.line)) =>
              \A i \in DOMAIN Append(q, h) :
                Append(q, h)[i].op = "heard" => OwnLine(Append(q, h)[i].line)
<1>1. ASSUME q # <<>>, NEW i \in DOMAIN Tail(q), Tail(q)[i].op = "heard"
      PROVE  OwnLine(Tail(q)[i].line)
  <2>1. i + 1 \in DOMAIN q /\ Tail(q)[i] = q[i + 1] BY <1>1, HeardPopped
  <2> QED BY <1>1, <2>1
<1>2. ASSUME h.op = "heard" => OwnLine(h.line), NEW i \in DOMAIN Append(q, h),
             Append(q, h)[i].op = "heard"
      PROVE  OwnLine(Append(q, h)[i].line)
  <2>1. (i \in DOMAIN q /\ Append(q, h)[i] = q[i]) \/ Append(q, h)[i] = h BY HeardPushed
  <2> QED BY <1>2, <2>1
<1> QED BY <1>1, <1>2

LEMMA ReadLinesLock ==
  ASSUME TypeOK, Chain, Turn, Lock, ReadLines, UNCHANGED clientVars PROVE Lock'
<1>1. SUFFICES ASSUME up, astray = {} PROVE Lock' BY DEF ReadLines, clientVars, Lock
<1>2. /\ lines \in Seq(Lines) /\ strand \in Seq(Handlers)
      /\ Len(lines) \in Nat /\ Len(strand) \in Nat
  BY LenProperties DEF TypeOK, ChannelTypeOK
<1>3. PICK n \in 1 .. Len(lines) : lines' = SubSeq(lines, n + 1, Len(lines)) BY DEF ReadLines
<1>4. /\ UNCHANGED <<handling, code, writeVars, dataVars, up, awaiting, lastNo, taken, astray>>
      /\ strand' = Append(strand, Heard(Head(lines)))
  BY DEF ReadLines, clientVars
<1>5. /\ lines # <<>> /\ Head(lines) \in Lines /\ Head(lines) = lines[1]
      /\ 1 \in DOMAIN lines
  BY <1>2, <1>3, EmptySeq, HeadTailProperties, LenProperties
<1>6. PICK h \in Handlers : h = Heard(Head(lines)) /\ h.op = "heard" /\ h.line = Head(lines)
  BY <1>5, Tables
<1>7. /\ Len(strand') = Len(strand) + 1 /\ (Has(strand') <=> Has(strand))
  BY <1>2, <1>4, <1>6, HeardPushed, Pushed
<1>8. /\ Len(lines') = Len(lines) - n
      /\ \A i \in DOMAIN lines' : \E j \in DOMAIN lines : lines'[i] = lines[j]
  <2>1. \A i \in (n + 1) .. Len(lines) : lines[i] \in Lines
    <3>1. \A i \in (n + 1) .. Len(lines) : i \in 1 .. Len(lines) BY <1>2
    <3> QED BY <1>2, <3>1, ElementOfSeq
  <2>2. n + 1 \in Int /\ Len(lines) \in Int BY <1>2
  <2>3. /\ lines' \in Seq(Lines)
        /\ Len(lines') = IF n + 1 <= Len(lines) THEN Len(lines) - (n + 1) + 1 ELSE 0
        /\ \A i \in 1 .. (Len(lines) - (n + 1) + 1) : lines'[i] = lines[(n + 1) + i - 1]
    BY <1>3, <2>1, <2>2, SubSeqProperties
  <2>4. Len(lines') = Len(lines) - n BY <1>2, <2>3
  <2>5. DOMAIN lines' = 1 .. Len(lines') /\ DOMAIN lines = 1 .. Len(lines)
    BY <1>2, <2>3, LenProperties
  <2>6. ASSUME NEW i \in DOMAIN lines' PROVE \E j \in DOMAIN lines : lines'[i] = lines[j]
    <3>1. i \in 1 .. (Len(lines) - n) BY <2>4, <2>5
    <3>2. i \in 1 .. (Len(lines) - (n + 1) + 1) /\ (n + 1) + i - 1 \in 1 .. Len(lines)
      BY <1>2, <3>1
    <3>3. lines'[i] = lines[(n + 1) + i - 1] BY <2>3, <3>2
    <3> QED BY <2>5, <3>2, <3>3
  <2> QED BY <2>4, <2>6
<1>9. Load \in Int BY Parts
<1>10. Load' = (Load - n) + 1
  <2>1. /\ Lagging(strand)' = Lagging(strand) /\ Busy' = Busy /\ Moving' = Moving
        /\ Len(msgOutputQueue)' = Len(msgOutputQueue) /\ (Len(sent) - taken)' = Len(sent) - taken
    BY <1>4, <1>7 DEF Lagging, Busy, Moving, writeVars, dataVars
  <2>2. n \in Nat /\ Len(lines') \in Int /\ Len(strand') \in Int BY <1>2, <1>7, <1>8
  <2>3. Load' = Load + (Len(lines') - Len(lines)) + (Len(strand') - Len(strand))
    BY <2>1, <2>2, LoadChange
  <2> QED BY <1>2, <1>7, <1>8, <1>9, <2>2, <2>3
<1>11. Load' \in Int /\ Load' <= Load BY <1>9, <1>10
<1>12. Coming BY <1>5 DEF Coming
<1>13. \A i \in DOMAIN lines : OwnLine(lines[i]) BY <1>1 DEF Lock
<1>14. \A i \in DOMAIN lines' : OwnLine(lines'[i]) BY <1>8, <1>13
<1>15. \A i \in DOMAIN strand' : strand'[i].op = "heard" => OwnLine(strand'[i].line)
  <2>1. \A i \in DOMAIN strand : strand[i].op = "heard" => OwnLine(strand[i].line)
    BY <1>1 DEF Lock
  <2>2. OwnLine(h.line) BY <1>5, <1>6, <1>13
  <2> QED BY <1>2, <1>4, <1>6, <2>1, <2>2, OwnHeard
<1>16. PICK S : S = Own OBVIOUS
<1>17. Within(S)'
  <2>1. Within(S) BY <1>1, <1>16 DEF Lock
  <2>2. PostsIn(strand', S) BY <1>2, <1>4, <1>6, <2>1, HeardPushed DEF Within
  <2> QED BY <1>4, <1>7, <2>1, <2>2 DEF Within, QueueIn, SentIn, HandlingIn, writeVars
<1>18. /\ \A t \in transfers' : t.no = lastNo /\ t.stage # "aborted"
       /\ \A s, t \in transfers' : s = t
  BY <1>1, <1>4 DEF Lock, dataVars
<1> QED
  BY <1>1, <1>4, <1>9, <1>11, <1>12, <1>14, <1>15, <1>16, <1>17, <1>18, Lighter DEF dataVars

LEMMA FinishLock ==
  ASSUME TypeOK, Chain, Turn, Lock, FinishCommand, UNCHANGED clientVars PROVE Lock'
<1>1. SUFFICES ASSUME up, astray = {} PROVE Lock' BY DEF FinishCommand, clientVars, Lock
<1>2. PICK m : m = Reply(code, handling.no) OBVIOUS
<1>3. /\ handling # NoLine /\ handling' = NoLine /\ strand' = Append(strand, Post(m))
      /\ UNCHANGED <<lines, code, writeVars, dataVars, up, awaiting, lastNo, taken, astray>>
  BY <1>2 DEF FinishCommand, clientVars, sendFTPMsg
<1>4. strand \in Seq(Handlers) /\ Len(strand) \in Nat /\ lines \in Seq(Lines)
  BY LenProperties DEF TypeOK, ChannelTypeOK
<1>5. PICK S : S = Own OBVIOUS
<1>6. Within(S) BY <1>1, <1>5 DEF Lock
<1>7. m \in S /\ m \in Replies BY <1>2, <1>3, <1>5, <1>6 DEF Within, HandlingIn, Own
<1>8. PICK h \in Handlers : h = Post(m) /\ h.op = "post" /\ h.msg = m
  BY <1>7, Tables DEF Post
<1>9. /\ Len(strand') = Len(strand) + 1 /\ (Has(strand') <=> Has(strand))
      /\ (Hears(strand') <=> Hears(strand)) /\ PostsIn(strand', S)
  BY <1>3, <1>4, <1>6, <1>7, <1>8, HeardPushed, Pushed DEF Within
<1>10. Load \in Int /\ Load' = Load
  <2>1. /\ Lagging(strand') = Lagging(strand) /\ Busy = 1 /\ Busy' = 0 /\ Moving' = Moving
        /\ Len(lines') = Len(lines)
        /\ Len(msgOutputQueue') = Len(msgOutputQueue)
        /\ Len(sent') = Len(sent) /\ taken' = taken
    BY <1>3, <1>9 DEF Lagging, Busy, Moving, writeVars, dataVars
  <2>2. Load' = (Len(lines) + (Len(strand) + 1) + 0 + Len(msgOutputQueue)
                   + (Len(sent) - taken) + Moving) - 2 * Lagging(strand)
    BY <1>9, <2>1 DEF Load, Sum
  <2>3. Load = (Len(lines) + Len(strand) + 1 + Len(msgOutputQueue)
                  + (Len(sent) - taken) + Moving) - 2 * Lagging(strand)
    BY <1>9, <2>1 DEF Load, Sum
  <2>4. /\ Len(lines) \in Nat /\ Len(strand) \in Nat /\ Len(msgOutputQueue) \in Nat
        /\ Busy \in Nat /\ Moving \in Nat /\ Lagging(strand) \in Nat
        /\ Len(sent) \in Nat /\ taken \in Nat /\ Len(sent) - taken \in Nat /\ Load \in Int
    BY Parts
  <2> QED BY <2>2, <2>3, <2>4
<1>11. \A i \in DOMAIN strand' : strand'[i].op = "heard" => OwnLine(strand'[i].line)
  <2>1. \A i \in DOMAIN strand : strand[i].op = "heard" => OwnLine(strand[i].line)
    BY <1>1 DEF Lock
  <2> QED BY <1>3, <1>4, <1>8, <2>1, OwnHeard
<1>12. Within(S)'
  BY <1>3, <1>6, <1>9 DEF Within, QueueIn, SentIn, HandlingIn, writeVars
<1>13. /\ \A t \in transfers' : t.no = lastNo /\ t.stage # "aborted"
       /\ \A s, t \in transfers' : s = t
       /\ \A i \in DOMAIN lines' : OwnLine(lines'[i])
  BY <1>1, <1>3 DEF Lock, dataVars
<1>14. Coming' => Coming BY <1>3, <1>9 DEF Coming
<1> QED BY <1>1, <1>3, <1>5, <1>10, <1>11, <1>12, <1>13, <1>14, Lighter DEF dataVars

LEMMA PostReplyLock ==
  ASSUME TypeOK, Chain, Turn, Lock, PostReply, UNCHANGED clientVars PROVE Lock'
<1>1. SUFFICES ASSUME up, astray = {} PROVE Lock' BY DEF PostReply, clientVars, Lock
<1>2. PICK m : m = Head(strand).msg OBVIOUS
<1>3. /\ handling = NoLine /\ strand # <<>> /\ Head(strand).op = "post"
      /\ strand' = Tail(strand) /\ msgOutputQueue' = Append(msgOutputQueue, m)
      /\ UNCHANGED <<readVars, sent, dataVars, up, awaiting, lastNo, taken, astray>>
  BY <1>2 DEF PostReply, clientVars, Run
<1>4. /\ strand \in Seq(Handlers) /\ Len(strand) \in Nat /\ lines \in Seq(Lines)
      /\ msgOutputQueue \in Seq(Replies) /\ Len(msgOutputQueue) \in Nat
  BY LenProperties DEF TypeOK, ChannelTypeOK
<1>5. PICK S : S = Own OBVIOUS
<1>6. Within(S) BY <1>1, <1>5 DEF Lock
<1>7. /\ Len(strand') = Len(strand) - 1 /\ (Has(strand') <=> Has(strand))
      /\ (Hears(strand') <=> Hears(strand)) /\ PostsIn(strand', S) /\ m \in S
  BY <1>2, <1>3, <1>4, <1>6, HeardPopped, Popped DEF Within
<1>8. m \in Replies BY <1>5, <1>7 DEF Own
<1>9. /\ Len(msgOutputQueue') = Len(msgOutputQueue) + 1
      /\ QueueIn(msgOutputQueue', Has(strand'), S)
  <2>1. /\ Len(msgOutputQueue') = Len(msgOutputQueue) + 1
        /\ msgOutputQueue' \in Seq(Replies)
        /\ \A i \in 1 .. Len(msgOutputQueue) : msgOutputQueue'[i] = msgOutputQueue[i]
        /\ msgOutputQueue'[Len(msgOutputQueue) + 1] = m
    BY <1>3, <1>4, <1>8, AppendProperties
  <2>2. /\ DOMAIN msgOutputQueue = 1 .. Len(msgOutputQueue)
        /\ DOMAIN msgOutputQueue' = 1 .. Len(msgOutputQueue')
    BY <1>4, <2>1, LenProperties
  <2>3. ASSUME NEW i \in DOMAIN msgOutputQueue', i > 1 \/ ~Has(strand')
        PROVE  msgOutputQueue'[i] \in S
    <3>1. i \in 1 .. Len(msgOutputQueue) \/ i = Len(msgOutputQueue) + 1 BY <1>4, <2>1, <2>2
    <3>2. CASE i \in 1 .. Len(msgOutputQueue)
      <4>1. msgOutputQueue[i] \in S
        BY <1>6, <1>7, <2>2, <2>3, <3>2 DEF Within, QueueIn
      <4> QED BY <2>1, <3>2, <4>1
    <3>3. CASE i = Len(msgOutputQueue) + 1 BY <1>7, <2>1, <3>3
    <3> QED BY <3>1, <3>2, <3>3
  <2> QED BY <2>1, <2>3 DEF QueueIn
<1>10. Load \in Int /\ Load' = Load
  <2>1. /\ Lagging(strand') = Lagging(strand) /\ Busy' = Busy /\ Moving' = Moving
        /\ Len(lines') = Len(lines)
        /\ Len(sent') = Len(sent) /\ taken' = taken
    BY <1>3, <1>7 DEF Lagging, Busy, Moving, readVars, dataVars
  <2>2. Load' = (Len(lines) + (Len(strand) - 1) + Busy + (Len(msgOutputQueue) + 1)
                   + (Len(sent) - taken) + Moving) - 2 * Lagging(strand)
    BY <1>7, <1>9, <2>1 DEF Load, Sum
  <2>3. Load = (Len(lines) + Len(strand) + Busy + Len(msgOutputQueue)
                  + (Len(sent) - taken) + Moving) - 2 * Lagging(strand)
    BY <1>7, <1>9, <2>1 DEF Load, Sum
  <2>4. /\ Len(lines) \in Nat /\ Len(strand) \in Nat /\ Len(msgOutputQueue) \in Nat
        /\ Busy \in Nat /\ Moving \in Nat /\ Lagging(strand) \in Nat
        /\ Len(sent) \in Nat /\ taken \in Nat /\ Len(sent) - taken \in Nat /\ Load \in Int
    BY Parts
  <2> QED BY <2>2, <2>3, <2>4
<1>11. \A i \in DOMAIN strand' : strand'[i].op = "heard" => OwnLine(strand'[i].line)
  <2>1. \A i \in DOMAIN strand : strand[i].op = "heard" => OwnLine(strand[i].line)
    BY <1>1 DEF Lock
  <2>2. Written \in Handlers BY Tables
  <2> QED BY <1>3, <1>4, <2>1, <2>2, OwnHeard
<1>12. Within(S)'
  BY <1>3, <1>6, <1>7, <1>9 DEF Within, SentIn, HandlingIn, readVars
<1>13. /\ \A t \in transfers' : t.no = lastNo /\ t.stage # "aborted"
       /\ \A s, t \in transfers' : s = t
       /\ \A i \in DOMAIN lines' : OwnLine(lines'[i])
  BY <1>1, <1>3 DEF Lock, dataVars, readVars
<1>14. Coming' => Coming BY <1>3, <1>7 DEF Coming, readVars
<1> QED BY <1>1, <1>3, <1>5, <1>10, <1>11, <1>12, <1>13, <1>14, Lighter DEF dataVars

LEMMA WriteReplyLock ==
  ASSUME TypeOK, Chain, Turn, Lock, WriteReply, UNCHANGED clientVars PROVE Lock'
<1>1. SUFFICES ASSUME up, astray = {} PROVE Lock' BY DEF WriteReply, clientVars, Lock
<1>2. PICK m : m = Head(msgOutputQueue) OBVIOUS
<1>3. /\ writes > 0 /\ sent' = Append(sent, m) /\ strand' = Append(strand, Written)
      /\ UNCHANGED <<readVars, msgOutputQueue, dataVars, up, awaiting, lastNo, taken, astray>>
  BY <1>2 DEF WriteReply, clientVars
<1>4. /\ strand \in Seq(Handlers) /\ Len(strand) \in Nat /\ lines \in Seq(Lines)
      /\ msgOutputQueue \in Seq(Replies) /\ sent \in Seq(Replies) /\ Len(sent) \in Nat
      /\ taken \in Nat
  BY LenProperties DEF TypeOK, ChannelTypeOK, ClientTypeOK
<1>5. ~Has(strand) /\ msgOutputQueue # <<>>
  BY <1>3 DEF Chain, TypeOK, ChannelTypeOK
<1>6. PICK S : S = Own OBVIOUS
<1>7. Within(S) BY <1>1, <1>6 DEF Lock
<1>8. 1 \in DOMAIN msgOutputQueue /\ m = msgOutputQueue[1] /\ m \in Replies
  BY <1>2, <1>4, <1>5, HeadTailProperties, LenProperties, EmptySeq
<1>9. m \in S BY <1>5, <1>7, <1>8 DEF Within, QueueIn
<1>10. PICK h \in Handlers : h = Written /\ h.op = "written" BY Tables
<1>11. /\ Len(strand') = Len(strand) + 1 /\ Has(strand')
       /\ (Hears(strand') <=> Hears(strand)) /\ PostsIn(strand', S)
  BY <1>3, <1>4, <1>7, <1>10, HeardPushed, Pushed DEF Within
<1>12. Len(sent') = Len(sent) + 1 /\ SentIn(S)'
  <2>1. /\ Len(sent') = Len(sent) + 1
        /\ \A i \in 1 .. Len(sent) : sent'[i] = sent[i]
        /\ sent'[Len(sent) + 1] = m
    BY <1>3, <1>4, <1>8, AppendProperties
  <2>2. ASSUME NEW i \in (taken + 1) .. (Len(sent) + 1) PROVE sent'[i] \in S
    <3>1. (i \in 1 .. Len(sent) /\ i \in (taken + 1) .. Len(sent)) \/ i = Len(sent) + 1
      BY <1>4
    <3> QED BY <1>7, <1>9, <2>1, <3>1 DEF Within, SentIn
  <2> QED BY <1>3, <2>1, <2>2 DEF SentIn
<1>13. Load \in Int /\ Load' = Load
  <2>1. /\ Lagging(strand') = 1 /\ Lagging(strand) = 0 /\ Busy' = Busy /\ Moving' = Moving
        /\ Len(lines') = Len(lines)
        /\ Len(msgOutputQueue') = Len(msgOutputQueue)
        /\ taken' = taken
    BY <1>3, <1>5, <1>11 DEF Lagging, Busy, Moving, readVars, dataVars
  <2>2. Load' = (Len(lines) + (Len(strand) + 1) + Busy + Len(msgOutputQueue)
                   + ((Len(sent) + 1) - taken) + Moving) - 2 * 1
    BY <1>11, <1>12, <2>1 DEF Load, Sum
  <2>3. Load = (Len(lines) + Len(strand) + Busy + Len(msgOutputQueue)
                  + (Len(sent) - taken) + Moving) - 2 * 0
    BY <1>11, <1>12, <2>1 DEF Load, Sum
  <2>4. /\ Len(lines) \in Nat /\ Len(strand) \in Nat /\ Len(msgOutputQueue) \in Nat
        /\ Busy \in Nat /\ Moving \in Nat /\ Lagging(strand) \in Nat
        /\ Len(sent) \in Nat /\ taken \in Nat /\ Len(sent) - taken \in Nat /\ Load \in Int
    BY Parts
  <2> QED BY <2>2, <2>3, <2>4
<1>14. \A i \in DOMAIN strand' : strand'[i].op = "heard" => OwnLine(strand'[i].line)
  <2>1. \A i \in DOMAIN strand : strand[i].op = "heard" => OwnLine(strand[i].line)
    BY <1>1 DEF Lock
  <2> QED BY <1>3, <1>4, <1>10, <2>1, OwnHeard
<1>15. Within(S)'
  <2>1. QueueIn(msgOutputQueue, TRUE, S) BY <1>7 DEF Within, QueueIn
  <2>2. QueueIn(msgOutputQueue', Has(strand'), S) BY <1>3, <1>11, <2>1 DEF QueueIn
  <2> QED BY <1>3, <1>7, <1>11, <1>12, <2>2 DEF Within, HandlingIn, readVars
<1>16. /\ \A t \in transfers' : t.no = lastNo /\ t.stage # "aborted"
       /\ \A s, t \in transfers' : s = t
       /\ \A i \in DOMAIN lines' : OwnLine(lines'[i])
  BY <1>1, <1>3 DEF Lock, dataVars, readVars
<1>17. Coming' => Coming BY <1>3, <1>11 DEF Coming, readVars
<1> QED BY <1>1, <1>3, <1>6, <1>13, <1>14, <1>15, <1>16, <1>17, Lighter DEF dataVars

LEMMA WriteDoneLock ==
  ASSUME TypeOK, Chain, Turn, Lock, WriteDone, UNCHANGED clientVars PROVE Lock'
<1>1. SUFFICES ASSUME up, astray = {} PROVE Lock' BY DEF WriteDone, clientVars, Lock
<1>2. PICK q : q = msgOutputQueue OBVIOUS
<1>3. /\ strand # <<>> /\ Head(strand).op = "written"
      /\ strand' = Tail(strand) /\ msgOutputQueue' = Tail(q)
      /\ UNCHANGED <<readVars, sent, dataVars, up, awaiting, lastNo, taken, astray>>
  BY <1>2 DEF WriteDone, clientVars, Run
<1>4. /\ strand \in Seq(Handlers) /\ Len(strand) \in Nat /\ lines \in Seq(Lines)
      /\ q \in Seq(Replies)
  BY <1>2, LenProperties DEF TypeOK, ChannelTypeOK
<1>5. PICK S : S = Own OBVIOUS
<1>6. Within(S) BY <1>1, <1>5 DEF Lock
<1>7. Has(strand) /\ ~Has(strand') BY <1>3, <1>4, Popped DEF Chain
<1>8. q # <<>> BY <1>2, <1>7 DEF Chain
<1>9. /\ Len(strand') = Len(strand) - 1 /\ (Hears(strand') <=> Hears(strand))
      /\ PostsIn(strand', S)
  BY <1>3, <1>4, <1>6, HeardPopped DEF Within
<1>10. Len(msgOutputQueue') = Len(q) - 1 /\ QueueIn(msgOutputQueue', Has(strand'), S)
  <2>1. /\ Len(q) \in Nat /\ Len(Tail(q)) = Len(q) - 1 /\ DOMAIN q = 1 .. Len(q)
        /\ DOMAIN Tail(q) = 1 .. (Len(q) - 1)
        /\ \A i \in 1 .. (Len(q) - 1) : Tail(q)[i] = q[i + 1]
    BY <1>4, <1>8, HeadTailProperties, LenProperties, EmptySeq
  <2>2. ASSUME NEW i \in DOMAIN Tail(q) PROVE Tail(q)[i] \in S
    <3>1. i + 1 \in DOMAIN q /\ i + 1 > 1 /\ Tail(q)[i] = q[i + 1] BY <2>1
    <3>2. \A j \in DOMAIN q : j > 1 => q[j] \in S BY <1>2, <1>6 DEF Within, QueueIn
    <3> QED BY <3>1, <3>2
  <2> QED BY <1>3, <2>1, <2>2 DEF QueueIn
<1>11. Load \in Int /\ Load' = Load
  <2>1. /\ Lagging(strand') = 0 /\ Lagging(strand) = 1 /\ Busy' = Busy /\ Moving' = Moving
        /\ Len(lines') = Len(lines)
        /\ Len(sent') = Len(sent) /\ taken' = taken
    BY <1>2, <1>3, <1>7, <1>9, <1>10 DEF Lagging, Busy, Moving, readVars, dataVars
  <2>2. Load' = (Len(lines) + (Len(strand) - 1) + Busy + (Len(msgOutputQueue) - 1)
                   + (Len(sent) - taken) + Moving) - 2 * 0
    BY <1>2, <1>9, <1>10, <2>1 DEF Load, Sum
  <2>3. Load = (Len(lines) + Len(strand) + Busy + Len(msgOutputQueue)
                  + (Len(sent) - taken) + Moving) - 2 * 1
    BY <1>2, <1>9, <1>10, <2>1 DEF Load, Sum
  <2>4. /\ Len(lines) \in Nat /\ Len(strand) \in Nat /\ Len(msgOutputQueue) \in Nat
        /\ Busy \in Nat /\ Moving \in Nat /\ Lagging(strand) \in Nat
        /\ Len(sent) \in Nat /\ taken \in Nat /\ Len(sent) - taken \in Nat /\ Load \in Int
    BY Parts
  <2> QED BY <2>2, <2>3, <2>4
<1>12. \A i \in DOMAIN strand' : strand'[i].op = "heard" => OwnLine(strand'[i].line)
  <2>1. \A i \in DOMAIN strand : strand[i].op = "heard" => OwnLine(strand[i].line)
    BY <1>1 DEF Lock
  <2>2. Written \in Handlers BY Tables
  <2> QED BY <1>3, <1>4, <2>1, <2>2, OwnHeard
<1>13. Within(S)'
  BY <1>3, <1>6, <1>9, <1>10 DEF Within, SentIn, HandlingIn, readVars
<1>14. /\ \A t \in transfers' : t.no = lastNo /\ t.stage # "aborted"
       /\ \A s, t \in transfers' : s = t
       /\ \A i \in DOMAIN lines' : OwnLine(lines'[i])
  BY <1>1, <1>3 DEF Lock, dataVars, readVars
<1>15. Coming' => Coming BY <1>3, <1>9 DEF Coming, readVars
<1> QED BY <1>1, <1>3, <1>5, <1>11, <1>12, <1>13, <1>14, <1>15, Lighter DEF dataVars

(* The reply to a transfer command that is carried out is no refusal. *)
LEMMA Opening == \A v \in {"RETR", "STOR"} : Accepted[v] = FILE_STATUS_OK
<1>1. Accepted["RETR"] = FILE_STATUS_OK BY Zenon DEF Accepted, Verbs
<1>2. Accepted["STOR"] = FILE_STATUS_OK BY Zenon DEF Accepted, Verbs
<1> QED BY <1>1, <1>2

LEMMA HandleCommandLock ==
  ASSUME TypeOK, Extra, Chain, Turn, Lock, HandleCommand, UNCHANGED clientVars, TypeOK'
  PROVE  Lock'
<1>1. SUFFICES ASSUME up, astray = {} PROVE Lock' BY DEF HandleCommand, clientVars, Lock
<1>2. PICK line : line = Head(strand).line OBVIOUS
<1>3. /\ handling = NoLine /\ strand # <<>> /\ Head(strand).op = "heard"
      /\ strand' = Tail(strand) /\ handling' = line
      /\ UNCHANGED <<lines, writeVars, up, awaiting, lastNo, taken, astray>>
  BY <1>2 DEF HandleCommand, Run, clientVars
<1>4. strand \in Seq(Handlers) /\ Len(strand) \in Nat
  BY LenProperties DEF TypeOK, ChannelTypeOK
<1>5. /\ Len(strand') = Len(strand) - 1 /\ (Has(strand') <=> Has(strand))
      /\ Hears(strand) /\ ~Hears(strand')
      /\ \A S : PostsIn(strand, S) => PostsIn(strand', S)
  BY <1>3, <1>4, HeardPopped, Popped DEF Turn
<1>6. line \in Lines BY <1>2, <1>3, StrandTypes DEF Extra, Run
<1>7. OwnLine(line)
  <2>1. \A i \in DOMAIN strand : strand[i].op = "heard" => OwnLine(strand[i].line)
    BY <1>1 DEF Lock
  <2>2. 1 \in DOMAIN strand /\ Head(strand) = strand[1] BY <1>3, <1>4, HeardPopped
  <2> QED BY <1>2, <1>3, <2>1, <2>2
<1>8. Coming /\ Load <= Expected BY <1>1, <1>5 DEF Coming, Expected, Lock
<1>9. /\ \A S : Within(S)
      /\ transfers = {} /\ Len(lines) + Heards(strand) = 1 /\ Load = 1
  BY <1>8, Alone DEF Expected
<1>10. lines = <<>>
  <2>1. Heards(strand) = 1 BY <1>5 DEF Heards
  <2>2. Len(lines) \in Nat /\ lines \in Seq(Lines) BY LenProperties DEF TypeOK, ChannelTypeOK
  <2>3. Len(lines) = 0 BY <1>9, <2>1, <2>2
  <2> QED BY <2>2, <2>3, EmptySeq
<1>11. /\ \A t \in transfers' : t.no = line.no /\ t.stage = "accepting"
       /\ \A s, t \in transfers' : s = t
       /\ transfers' # {} => line.verb \in {"RETR", "STOR"} /\ code' = FILE_STATUS_OK
  <2>1. CASE UNCHANGED dataVars BY <1>9, <2>1 DEF dataVars
  <2>2. ASSUME NEW no, ReopenAcceptor(no) PROVE transfers' = {}
    BY <1>9, <2>2 DEF ReopenAcceptor
  <2>3. CASE line.verb \in {"RETR", "STOR"} /\ StartAccept(line) /\ code' = Accepted[line.verb]
    <3>1. PICK t : t = [no |-> line.no, verb |-> line.verb, big |-> line.big,
                        stage |-> "accepting", conn |-> 0]
      OBVIOUS
    <3>2. t.no = line.no /\ t.stage = "accepting" BY <3>1
    <3>3. transfers' = {t} BY <1>7, <1>9, <2>3, <3>1 DEF StartAccept, OwnLine
    <3>4. code' = FILE_STATUS_OK BY <2>3, Opening
    <3> QED BY <2>3, <3>2, <3>3, <3>4
  <2> QED BY <1>2, <2>1, <2>2, <2>3 DEF HandleCommand
<1>12. (transfers' = {} => Moving' = 0) /\ (transfers' # {} => Moving' = 1) BY DEF Moving
<1>13. Load' \in Int /\ (transfers' = {} => Load' = 1) /\ (transfers' # {} => Load' = 2)
  <2>0. handling' # NoLine BY <1>3, <1>6, LineAssumption
  <2>1. /\ Lagging(strand') = Lagging(strand) /\ Busy = 0 /\ Busy' = 1 /\ Moving = 0
        /\ Len(lines') = Len(lines)
        /\ Len(msgOutputQueue') = Len(msgOutputQueue)
        /\ Len(sent') = Len(sent) /\ taken' = taken
    BY <1>3, <1>4, <1>5, <1>6, <1>9, <1>12, <2>0 DEF Lagging, Busy, Moving, writeVars
  <2>2. Load' = (Len(lines) + (Len(strand) - 1) + 1 + Len(msgOutputQueue)
                   + (Len(sent) - taken) + Moving') - 2 * Lagging(strand)
    BY <1>3, <1>5, <2>1 DEF Load, Sum
  <2>3. Load = (Len(lines) + Len(strand) + 0 + Len(msgOutputQueue)
                  + (Len(sent) - taken) + 0) - 2 * Lagging(strand)
    BY <1>3, <1>5, <2>1 DEF Load, Sum
  <2>4. /\ Len(lines) \in Nat /\ Len(strand) \in Nat /\ Len(msgOutputQueue) \in Nat
        /\ Busy \in Nat /\ Moving \in Nat /\ Lagging(strand) \in Nat
        /\ Len(sent) \in Nat /\ taken \in Nat /\ Len(sent) - taken \in Nat /\ Load \in Int
    BY Parts
  <2>5. CASE transfers' = {} BY <1>9, <1>12, <2>2, <2>3, <2>4, <2>5
  <2>6. CASE transfers' # {}
    <3>1. Load' = (Len(lines) + (Len(strand) - 1) + 1 + Len(msgOutputQueue)
                     + (Len(sent) - taken) + 1) - 2 * Lagging(strand)
      BY <1>12, <2>2, <2>6
    <3>2. PICK x : x = Load' OBVIOUS
    <3>3. PICK y \in Int : y = Load BY <2>4
    <3>4. PICK n \in Nat : n = Len(lines) BY <2>4
    <3>5. PICK o \in Nat : o = Len(strand) BY <2>4
    <3>6. PICK u \in Nat : u = Len(msgOutputQueue) BY <2>4
    <3>7. PICK v \in Nat : v = Len(sent) - taken BY <2>4
    <3>8. PICK w \in Nat : w = Lagging(strand) BY <2>4
    <3>9. x = (n + (o - 1) + 1 + u + v + 1) - 2 * w BY <3>1, <3>2, <3>4, <3>5, <3>6, <3>7, <3>8
    <3>10. y = (n + o + 0 + u + v + 0) - 2 * w BY <2>3, <3>3, <3>4, <3>5, <3>6, <3>7, <3>8
    <3>11. x = y + 1 BY <3>9, <3>10
    <3>12. Load' = Load + 1 BY <3>11, <3>2, <3>3
    <3> QED BY <1>9, <2>6, <3>12
  <2> QED BY <2>5, <2>6
<1>14. PICK S : S = Own' OBVIOUS
<1>15. Reply(code', line.no) \in Own'
  <2>1. code' \in Codes BY DEF TypeOK, ChannelTypeOK
  <2>2. line.no = lastNo /\ line.no \in 0 .. MaxCommands
    BY <1>6, <1>7, ControlAssumption DEF OwnLine, Lines, Numbers
  <2>3. PICK m : m = Reply(code', line.no) OBVIOUS
  <2>4. m \in Replies /\ m.no = line.no /\ m.code = code'
    BY <2>1, <2>2, <2>3 DEF Reply, Replies
  <2>5. Load' > 1 => transfers' # {} BY <1>13
  <2>6. Load' > 1 => ~isNegative(m)
    BY <1>11, <2>4, <2>5 DEF isNegative, FILE_STATUS_OK
  <2> QED BY <1>3, <2>2, <2>3, <2>4, <2>6 DEF Own
<1>16. Within(S)'
  <2>1. Within(S) BY <1>9
  <2> QED
    BY <1>3, <1>5, <1>14, <1>15, <2>1 DEF Within, QueueIn, SentIn, HandlingIn, writeVars
<1>17. ~Coming' BY <1>3, <1>5, <1>10 DEF Coming
<1>18. /\ \A i \in DOMAIN lines' : FALSE
       /\ \A i \in DOMAIN strand' : strand'[i].op # "heard"
  BY <1>3, <1>5, <1>10 DEF Hears
<1>19. \A t \in transfers' : t.no = lastNo' /\ t.stage # "aborted"
  BY <1>3, <1>7, <1>11 DEF OwnLine
<1>20. /\ awaiting' = "idle" => Load' <= 0
       /\ awaiting' # "opening" => Load' <= 1
       /\ Load' <= 2
  <2>1. awaiting # "idle" BY <1>1, <1>9 DEF Lock
  <2>2. awaiting # "opening" => transfers' = {} BY <1>7, <1>11 DEF OwnLine
  <2>3. Load' = 1 \/ Load' = 2 BY <1>13
  <2> QED BY <1>3, <1>13, <2>1, <2>2, <2>3
<1>21. Within(Own)'
  <2>1. \A m : m \in S => m \in Own' BY <1>14
  <2> QED BY <1>16, <2>1 DEF Within, PostsIn, QueueIn, SentIn, HandlingIn
<1> QED BY <1>11, <1>17, <1>18, <1>19, <1>20, <1>21 DEF Lock

(* The only transfer is over, or goes on. *)
LEMMA OnlyTransfer ==
  ASSUME Lock, up, astray = {}, NEW t \in transfers
  PROVE  /\ transfers \ {t} = {} /\ Moving = 1
         /\ t.no = lastNo /\ t.stage # "aborted"
<1>1. \A s \in transfers : s = t BY DEF Lock
<1>2. t.no = lastNo /\ t.stage # "aborted" BY DEF Lock
<1> QED BY <1>1, <1>2 DEF Moving

LEMMA CompleteLock ==
  ASSUME TypeOK, Chain, Turn, Lock, UNCHANGED clientVars, NEW t \in transfers,
         Complete(t, Peer(t), PeerReads(t))
  PROVE  Lock'
<1>1. SUFFICES ASSUME up, astray = {} PROVE Lock' BY DEF Complete, clientVars, Lock
<1>2. PICK m : m = Reply(CLOSING_DATA_CONNECTION, t.no) OBVIOUS
<1>3. /\ transfers' = transfers \ {t} /\ strand' = Append(strand, Post(m))
      /\ UNCHANGED <<readVars, writeVars, port, up, awaiting, lastNo, taken, astray>>
  BY <1>2 DEF Complete, Close, clientVars, sendFTPMsg
<1>4. strand \in Seq(Handlers) /\ Len(strand) \in Nat /\ lines \in Seq(Lines)
  BY LenProperties DEF TypeOK, ChannelTypeOK
<1>5. PICK S : S = Own OBVIOUS
<1>6. Within(S) BY <1>1, <1>5 DEF Lock
<1>7. m \in S /\ m \in Replies
  <2>1. t.no = lastNo BY <1>1, OnlyTransfer
  <2>2. t.no \in 0 .. MaxCommands
    BY ControlAssumption DEF TypeOK, ChannelTypeOK, Transfers, Numbers
  <2>3. m \in Replies /\ m.no = t.no /\ m.code = 226
    BY <1>2, <2>2 DEF Reply, Replies, Codes, CLOSING_DATA_CONNECTION
  <2> QED BY <1>5, <2>1, <2>3 DEF Own, isNegative
<1>8. PICK h \in Handlers : h = Post(m) /\ h.op = "post" /\ h.msg = m
  BY <1>7, Tables DEF Post
<1>9. /\ Len(strand') = Len(strand) + 1 /\ (Has(strand') <=> Has(strand))
      /\ (Hears(strand') <=> Hears(strand)) /\ PostsIn(strand', S)
  BY <1>3, <1>4, <1>6, <1>7, <1>8, HeardPushed, Pushed DEF Within
<1>10. transfers' = {} /\ Moving = 1 BY <1>1, <1>3, OnlyTransfer
<1>11. Load \in Int /\ Load' = Load
  <2>1. /\ Lagging(strand') = Lagging(strand) /\ Busy' = Busy /\ Moving' = 0
        /\ Len(lines') = Len(lines)
        /\ Len(msgOutputQueue') = Len(msgOutputQueue)
        /\ Len(sent') = Len(sent) /\ taken' = taken
    BY <1>3, <1>9, <1>10 DEF Lagging, Busy, Moving, readVars, writeVars
  <2>2. Load' = (Len(lines) + (Len(strand) + 1) + Busy + Len(msgOutputQueue)
                   + (Len(sent) - taken) + 0) - 2 * Lagging(strand)
    BY <1>9, <1>10, <2>1 DEF Load, Sum
  <2>3. Load = (Len(lines) + Len(strand) + Busy + Len(msgOutputQueue)
                  + (Len(sent) - taken) + 1) - 2 * Lagging(strand)
    BY <1>9, <1>10, <2>1 DEF Load, Sum
  <2>4. /\ Len(lines) \in Nat /\ Len(strand) \in Nat /\ Len(msgOutputQueue) \in Nat
        /\ Busy \in Nat /\ Moving \in Nat /\ Lagging(strand) \in Nat
        /\ Len(sent) \in Nat /\ taken \in Nat /\ Len(sent) - taken \in Nat /\ Load \in Int
    BY Parts
  <2> QED BY <2>2, <2>3, <2>4
<1>12. \A i \in DOMAIN strand' : strand'[i].op = "heard" => OwnLine(strand'[i].line)
  <2>1. \A i \in DOMAIN strand : strand[i].op = "heard" => OwnLine(strand[i].line)
    BY <1>1 DEF Lock
  <2> QED BY <1>3, <1>4, <1>8, <2>1, OwnHeard
<1>13. Within(S)'
  BY <1>3, <1>6, <1>9 DEF Within, QueueIn, SentIn, HandlingIn, writeVars, readVars
<1>14. \A i \in DOMAIN lines' : OwnLine(lines'[i]) BY <1>1, <1>3 DEF Lock, readVars
<1>15. Coming' => Coming BY <1>3, <1>9 DEF Coming, readVars
<1> QED BY <1>1, <1>3, <1>5, <1>10, <1>11, <1>12, <1>13, <1>14, <1>15, Lighter

(* The connection is accepted, or broken while the transfer moves. *)
LEMMA TransferLock ==
  ASSUME TypeOK, Chain, Turn, Lock, UNCHANGED clientVars, NEW t \in transfers,
         Accept(t) \/ SendFails(t, Peer(t))
  PROVE  Lock'
<1>1. SUFFICES ASSUME up, astray = {} PROVE Lock'
  BY DEF Accept, SendFails, clientVars, Lock
<1>2. /\ UNCHANGED <<readVars, strand, writeVars, port, up, awaiting, lastNo, taken, astray>>
      /\ \/ transfers' = transfers \ {t}
         \/ transfers' = (transfers \ {t}) \cup
               {[no |-> t.no, verb |-> t.verb, big |-> t.big, stage |-> "moving", conn |-> port]}
  BY DEF Accept, SendFails, Close, clientVars
<1>3. PICK r : r = [no |-> t.no, verb |-> t.verb, big |-> t.big, stage |-> "moving",
                    conn |-> port]
  OBVIOUS
<1>4. r.no = t.no /\ r.stage = "moving" BY <1>3
<1>5. transfers' = {} \/ transfers' = {r} BY <1>1, <1>2, <1>3, OnlyTransfer
<1>6. Moving = 1 /\ (Moving' = 0 \/ Moving' = 1) BY <1>1, <1>5, OnlyTransfer DEF Moving
<1>7. Load \in Int /\ Load' \in Int /\ Load' <= Load
  <2>1. /\ Lagging(strand') = Lagging(strand) /\ Busy' = Busy
        /\ Len(lines') = Len(lines) /\ Len(strand') = Len(strand)
        /\ Len(msgOutputQueue') = Len(msgOutputQueue)
        /\ Len(sent') = Len(sent) /\ taken' = taken
    BY <1>2, <1>6 DEF Lagging, Busy, readVars, writeVars
  <2>2. Load' = (Len(lines) + Len(strand) + Busy + Len(msgOutputQueue)
                   + (Len(sent) - taken) + Moving') - 2 * Lagging(strand)
    BY <1>6, <2>1 DEF Load, Sum
  <2>3. Load = (Len(lines) + Len(strand) + Busy + Len(msgOutputQueue)
                  + (Len(sent) - taken) + 1) - 2 * Lagging(strand)
    BY <1>6, <2>1 DEF Load, Sum
  <2>4. /\ Len(lines) \in Nat /\ Len(strand) \in Nat /\ Len(msgOutputQueue) \in Nat
        /\ Busy \in Nat /\ Moving \in Nat /\ Lagging(strand) \in Nat
        /\ Len(sent) \in Nat /\ taken \in Nat /\ Len(sent) - taken \in Nat /\ Load \in Int
    BY Parts
  <2>5. CASE Moving' = 0
    <3>1. Load' = (Len(lines) + Len(strand) + Busy + Len(msgOutputQueue)
                     + (Len(sent) - taken) + 0) - 2 * Lagging(strand)
      BY <2>2, <2>5
    <3>2. PICK x : x = Load' OBVIOUS
    <3>3. PICK y \in Int : y = Load BY <2>4
    <3>4. PICK n \in Nat : n = Len(lines) BY <2>4
    <3>5. PICK o \in Nat : o = Len(strand) BY <2>4
    <3>6. PICK u \in Nat : u = Len(msgOutputQueue) BY <2>4
    <3>7. PICK v \in Nat : v = Len(sent) - taken BY <2>4
    <3>8. PICK w \in Nat : w = Lagging(strand) BY <2>4
    <3>9. PICK b \in Nat : b = Busy BY <2>4
    <3>10. x = (n + o + b + u + v + 0) - 2 * w
      BY <3>1, <3>2, <3>4, <3>5, <3>6, <3>7, <3>8, <3>9
    <3>11. y = (n + o + b + u + v + 1) - 2 * w
      BY <2>3, <3>3, <3>4, <3>5, <3>6, <3>7, <3>8, <3>9
    <3>12. x \in Int /\ x <= y BY <3>10, <3>11
    <3> QED BY <3>2, <3>3, <3>12
  <2>6. CASE Moving' = 1 BY <2>2, <2>3, <2>4, <2>6
  <2> QED BY <1>6, <2>5, <2>6
<1>8. /\ \A i \in DOMAIN lines' : OwnLine(lines'[i])
      /\ \A i \in DOMAIN strand' : strand'[i].op = "heard" => OwnLine(strand'[i].line)
  BY <1>1, <1>2 DEF Lock, readVars
<1>9. /\ \A s \in transfers' : s.no = lastNo /\ s.stage # "aborted"
      /\ \A s, u \in transfers' : s = u
  BY <1>1, <1>4, <1>5, OnlyTransfer
<1>10. PICK S : S = Own OBVIOUS
<1>11. Within(S)'
  <2>1. Within(S) BY <1>1, <1>10 DEF Lock
  <2> QED
    BY <1>2, <2>1 DEF Within, PostsIn, QueueIn, SentIn, HandlingIn, writeVars, readVars
<1>12. Coming' => Coming BY <1>2 DEF Coming, readVars
<1> QED BY <1>1, <1>2, <1>7, <1>8, <1>9, <1>10, <1>11, <1>12, Lighter

LEMMA ServerLock ==
  ASSUME TypeOK, Extra, Chain, Turn, Lock, Server, TypeOK'
  PROVE  Lock'
<1>1. CASE ReadFails
  <2>1. ~up' BY <1>1 DEF ReadFails
  <2> QED BY <2>1 DEF Lock
<1>2. CASE WriteFails
  <2>1. ~up' BY <1>2 DEF WriteFails
  <2> QED BY <2>1 DEF Lock
<1>3. ASSUME NEW t \in transfers, AcceptFails(t) PROVE Lock'
  <2> SUFFICES ASSUME up, astray = {} PROVE FALSE
    BY <1>3 DEF Lock, AcceptFails, Server, clientVars
  <2> QED BY <1>3, OnlyTransfer DEF AcceptFails
<1>4. UNCHANGED clientVars BY DEF Server
<1> QED
  BY <1>1, <1>2, <1>3, <1>4, HandleCommandLock, FinishLock, PostReplyLock, WriteDoneLock,
     ReadLinesLock, WriteReplyLock, CompleteLock, TransferLock
  DEF Server, Strand, Socket, EndTransfer

-----------------------------------------------------------------------------
(* The steps of the client.                                                *)

(* Nothing is on its way but replies that have come.                       *)
Quiet ==
  /\ lines = <<>> /\ ~Hears(strand) /\ handling = NoLine /\ transfers = {}
  /\ PostsIn(strand, {}) /\ QueueIn(msgOutputQueue, Has(strand), {})
  /\ Len(strand) = Lagging(strand) /\ Len(msgOutputQueue) = Lagging(strand)

(* An idle client has taken everything. *)
LEMMA IdleQuiet ==
  ASSUME TypeOK, Chain, Turn, Load <= 0
  PROVE  Quiet /\ taken = Len(sent)
<1>1. Load <= Expected /\ (Expected = 0 \/ Expected = 1)
  <2>1. Expected = 0 \/ Expected = 1 BY DEF Expected
  <2>2. Load \in Int BY Parts
  <2> QED BY <2>1, <2>2
<1>2. /\ Within({}) /\ handling = NoLine /\ transfers = {} /\ taken = Len(sent)
      /\ Len(lines) + Heards(strand) = Expected
      /\ Len(strand) = Lagging(strand) + Heards(strand)
      /\ Len(msgOutputQueue) = Lagging(strand)
      /\ Load = Expected
  BY <1>1, Alone
<1>3. Expected = 0 BY <1>1, <1>2
<1>4. lines = <<>> /\ ~Hears(strand) BY <1>3 DEF Expected, Coming
<1>5. Len(strand) = Lagging(strand)
  <2>1. Heards(strand) = 0 BY <1>4 DEF Heards
  <2>2. Lagging(strand) \in Nat BY Parts
  <2> QED BY <1>2, <2>1, <2>2
<1> QED BY <1>2, <1>4, <1>5 DEF Quiet, Within

(* The load is one reply, and it has come. *)
LEMMA Answered ==
  ASSUME TypeOK, Chain, Turn, Load <= 1, taken < Len(sent)
  PROVE  Quiet /\ taken + 1 = Len(sent)
<1>1. /\ Len(lines) \in Nat /\ Len(strand) \in Nat /\ Len(msgOutputQueue) \in Nat
      /\ Len(sent) \in Nat /\ taken \in Nat /\ Lagging(strand) \in Nat
      /\ Heards(strand) \in Nat
      /\ Len(strand) >= Lagging(strand) + Heards(strand)
      /\ Len(msgOutputQueue) >= Lagging(strand)
  BY Parts
<1>2. PICK l \in Nat : l = Len(lines) BY <1>1
<1>3. PICK s \in Nat : s = Len(strand) BY <1>1
<1>4. PICK q \in Nat : q = Len(msgOutputQueue) BY <1>1
<1>5. PICK a \in Nat : a = Len(sent) - taken /\ a >= 1
  <2>1. Len(sent) - taken \in Nat /\ Len(sent) - taken >= 1 BY <1>1
  <2> QED BY <2>1
<1>6. PICK w \in Nat : w = Lagging(strand) BY <1>1
<1>7. PICK h \in Nat : h = Heards(strand) BY <1>1
<1>8. PICK x \in Int : x = Load BY Parts
<1>9. x <= l + h + a
  <2>1. x <= 1 BY <1>8
  <2> QED BY <1>5, <2>1
<1>10. Load <= Len(lines) + Heards(strand) + (Len(sent) - taken)
  BY <1>2, <1>5, <1>7, <1>8, <1>9
<1>11. /\ PostsIn(strand, {}) /\ QueueIn(msgOutputQueue, Has(strand), {})
       /\ handling = NoLine /\ transfers = {}
  BY <1>10, Nothing
<1>12. x = (l + s + 0 + q + a + 0) - 2 * w
  BY <1>2, <1>3, <1>4, <1>5, <1>6, <1>8, <1>11 DEF Load, Sum, Busy, Moving
<1>13. s >= w + h /\ q >= w /\ x <= 1 BY <1>1, <1>3, <1>4, <1>6, <1>7, <1>8
<1>14. l = 0 /\ h = 0 /\ a = 1 /\ s = w /\ q = w
  <2>1. l + s + q + a <= 1 + 2 * w BY <1>12, <1>13
  <2>2. l + h + a <= 1 BY <1>13, <2>1
  <2>3. l = 0 /\ h = 0 /\ a = 1 BY <1>5, <2>2
  <2>4. s + q <= w + w BY <2>1, <2>3
  <2> QED BY <1>13, <2>3, <2>4
<1>15. lines = <<>> BY <1>2, <1>14, EmptySeq DEF TypeOK, ChannelTypeOK
<1>16. ~Hears(strand) BY <1>7, <1>14 DEF Heards
<1>17. taken + 1 = Len(sent)
  <2>1. Len(sent) - taken = 1 BY <1>5, <1>14
  <2> QED BY <1>1, <2>1
<1> QED BY <1>3, <1>4, <1>6, <1>11, <1>14, <1>15, <1>16, <1>17 DEF Quiet

(* A line of the last command is sent. *)
SendsLine ==
  \E r \in Lines :
    /\ lines' = Append(lines, r) /\ r.no = lastNo'
    /\ r.verb \in {"RETR", "STOR"} => awaiting' = "opening" /\ port' # 0

(* All replies are taken and at most one line is sent: the load is the line. *)
LEMMA Settled ==
  ASSUME TypeOK, Quiet, ServerUnchanged, UNCHANGED transfers, taken' = Len(sent),
         \/ lines' = lines
         \/ /\ awaiting' \notin {"idle", "data", "final"}
            /\ SendsLine
  PROVE  Lock'
<1>1. /\ UNCHANGED <<strand, handling, msgOutputQueue, sent, transfers>>
      /\ lines = <<>> /\ ~Hears(strand) /\ handling = NoLine /\ transfers = {}
      /\ PostsIn(strand, {}) /\ QueueIn(msgOutputQueue, Has(strand), {})
      /\ Len(strand) = Lagging(strand) /\ Len(msgOutputQueue) = Lagging(strand)
      /\ Len(sent) \in Nat
  BY LenProperties DEF Quiet, ServerUnchanged, writeVars, TypeOK, ChannelTypeOK
<1>2. Within(Own)'
  <2>1. SentIn(Own)' BY <1>1 DEF SentIn
  <2> QED BY <1>1, <2>1 DEF Within, PostsIn, QueueIn, HandlingIn
<1>3. ASSUME NEW n \in {0, 1}, Len(lines') = n PROVE Load' = n
  <2>1. Load' = (n + Lagging(strand) + 0 + Lagging(strand) + 0 + 0) - 2 * Lagging(strand)
    BY <1>1, <1>3 DEF Load, Sum, Busy, Moving
  <2>2. Lagging(strand) = 0 \/ Lagging(strand) = 1 BY DEF Lagging
  <2> QED BY <2>1, <2>2
<1>4. ~Hears(strand') /\ transfers' = {} BY <1>1
<1>5. CASE lines' = lines
  <2>1. lines' = <<>> /\ Len(lines') = 0 BY <1>1, <1>5
  <2>2. Load' = 0 /\ ~Coming' BY <1>3, <1>4, <2>1 DEF Coming
  <2> QED BY <1>2, <1>4, <2>1, <2>2 DEF Lock, Hears
<1>6. CASE lines' # lines
  <2>1. PICK r \in Lines :
          /\ lines' = Append(lines, r) /\ r.no = lastNo'
          /\ r.verb \in {"RETR", "STOR"} => awaiting' = "opening" /\ port' # 0
    BY <1>6 DEF SendsLine
  <2>2. awaiting' \notin {"idle", "data", "final"} BY <1>6
  <2>3. lines' = <<r>> /\ Len(lines') = 1 /\ DOMAIN lines' = {1} /\ lines'[1] = r
    BY <1>1, <2>1
  <2>4. Load' = 1 BY <1>3, <2>3
  <2>5. \A i \in DOMAIN lines' : lines'[i].no = lastNo' /\
           (lines'[i].verb \in {"RETR", "STOR"} => awaiting' = "opening" /\ port' # 0)
    BY <2>1, <2>3
  <2> QED BY <1>2, <1>4, <2>2, <2>4, <2>5 DEF Lock, Hears, OwnLine
<1> QED BY <1>5, <1>6

(* The reply a read returns. *)
LEMMA NextReply ==
  ASSUME TypeOK, Ready
  PROVE  /\ taken \in Nat /\ Len(sent) \in Nat /\ taken < Len(sent)
         /\ Len(Available) = Len(sent) - taken /\ Head(Available) = sent[taken + 1]
<1>1. sent \in Seq(Replies) /\ Len(sent) \in Nat /\ taken \in Nat
  BY LenProperties DEF TypeOK, ChannelTypeOK, ClientTypeOK
<1>2. \A i \in (taken + 1) .. Len(sent) : sent[i] \in Replies
  <2>1. \A i \in (taken + 1) .. Len(sent) : i \in 1 .. Len(sent) BY <1>1
  <2> QED BY <1>1, <2>1, ElementOfSeq
<1>3. taken + 1 \in Int /\ Len(sent) \in Int BY <1>1
<1>4. /\ Available \in Seq(Replies)
      /\ Len(Available) = IF taken + 1 <= Len(sent) THEN Len(sent) - (taken + 1) + 1 ELSE 0
      /\ \A i \in 1 .. (Len(sent) - (taken + 1) + 1) : Available[i] = sent[(taken + 1) + i - 1]
  BY <1>2, <1>3, SubSeqProperties DEF Available
<1>5. Available # <<>> BY DEF Ready
<1>6. Len(Available) # 0 BY <1>4, <1>5, EmptySeq
<1>7. taken + 1 <= Len(sent) BY <1>4, <1>6
<1>8. taken < Len(sent) /\ Len(Available) = Len(sent) - taken BY <1>1, <1>4, <1>7
<1>9. Head(Available) = Available[1] BY <1>4, <1>5, HeadTailProperties
<1>10. 1 \in 1 .. (Len(sent) - (taken + 1) + 1) /\ (taken + 1) + 1 - 1 = taken + 1
  BY <1>1, <1>7
<1>11. Available[1] = sent[taken + 1] BY <1>4, <1>10
<1> QED BY <1>1, <1>8, <1>9, <1>11

LEMMA Reads ==
  ASSUME TypeOK, Ready, NEW next, recvFTPMsg(next)
  PROVE  /\ taken' \in Nat /\ taken' > taken /\ taken' <= Len(sent)
         /\ awaiting' = next /\ used' = sent[taken + 1]
         /\ astray' = {} => astray = {} /\ taken' = taken + 1
<1>1. PICK k : k = Len(Available) OBVIOUS
<1>2. PICK n \in 1 .. k :
        /\ taken' = taken + n
        /\ astray' = IF n > 1 THEN astray \cup {"dropped"} ELSE astray
  BY <1>1 DEF recvFTPMsg
<1>3. taken \in Nat /\ Len(sent) \in Nat /\ k = Len(sent) - taken /\ taken < Len(sent)
  BY <1>1, NextReply
<1>4. taken' \in Nat /\ taken' > taken /\ taken' <= Len(sent) BY <1>2, <1>3
<1>5. astray' = {} => astray = {} /\ n = 1
  <2>1. CASE n > 1 BY <1>2, <2>1
  <2>2. CASE ~(n > 1)
    <3>1. n = 1 BY <1>3, <2>2
    <3> QED BY <1>2, <2>2, <3>1
  <2> QED BY <2>1, <2>2
<1>6. used' = sent[taken + 1] /\ awaiting' = next BY NextReply DEF recvFTPMsg
<1> QED BY <1>2, <1>4, <1>5, <1>6

(* A call takes a reply to its own last command. *)
LEMMA TakesOwn ==
  ASSUME TypeOK, Lock, Ready, NEW next, recvFTPMsg(next), astray' = {}
  PROVE  used' \in Own /\ used'.no = lastNo
<1>1. up /\ astray = {} /\ used' = sent[taken + 1] BY Reads DEF Ready
<1>2. taken + 1 \in (taken + 1) .. Len(sent) BY NextReply
<1>3. SentIn(Own) BY <1>1 DEF Lock, Within
<1>4. used' \in Own
  <2>1. PICK S : S = Own OBVIOUS
  <2>2. SentIn(S) BY <1>3, <2>1
  <2>3. sent[taken + 1] \in S BY <1>2, <2>2 DEF SentIn
  <2> QED BY <1>1, <2>1, <2>3
<1> QED BY <1>4 DEF Own

LEMMA SendCmd ==
  ASSUME TypeOK, lastNo < MaxCommands, NEW verb \in Verbs, NEW big \in BOOLEAN,
         sendCmd(verb, big),
         verb \in {"RETR", "STOR"} => awaiting' = "opening" /\ port' # 0
  PROVE  SendsLine
<1>1. PICK r : r = [no |-> lastNo', verb |-> verb, big |-> big] OBVIOUS
<1>2. lastNo' = lastNo + 1 /\ lines' = Append(lines, r) BY <1>1 DEF sendCmd
<1>3. lastNo \in Nat BY ControlAssumption DEF TypeOK, ClientTypeOK
<1>4. lastNo' \in 1 .. MaxCommands BY <1>2, <1>3, ControlAssumption
<1>5. r \in Lines /\ r.no = lastNo' /\ r.verb = verb BY <1>1, <1>4 DEF Lines, Numbers
<1> QED BY <1>2, <1>5 DEF SendsLine

(* A reply that is the only load. *)
LEMMA LastOne ==
  ASSUME TypeOK, Chain, Turn, Ready, Load <= 1, NEW next, recvFTPMsg(next),
         ServerUnchanged, UNCHANGED transfers,
         lines' = lines \/ (next \notin {"idle", "data", "final"} /\ SendsLine)
  PROVE  Lock'
<1>1. Quiet /\ taken + 1 = Len(sent) BY Answered, NextReply
<1>2. taken' = Len(sent) /\ awaiting' = next
  <2>1. /\ taken \in Nat /\ taken' \in Nat /\ Len(sent) \in Nat
        /\ taken' > taken /\ taken' <= Len(sent) /\ awaiting' = next
    BY Reads, NextReply
  <2> QED BY <1>1, <2>1
<1> QED BY <1>1, <1>2, Settled

LEMMA LastReplyLock ==
  ASSUME TypeOK, Extra, Chain, Turn, Lock, LastReply \/ UserReply \/ PasvReply
  PROVE  Lock'
<1>1. SUFFICES ASSUME astray' = {} PROVE Lock' BY DEF Lock
<1>2. /\ Ready /\ awaiting \in {"greeting", "reply", "PASS", "final", "USER", "PASV"}
      /\ ServerUnchanged
  BY DEF LastReply, UserReply, PasvReply
<1>3. UNCHANGED transfers BY DEF LastReply, UserReply, PasvReply, Connect, dataVars
<1>4. ASSUME NEW next, recvFTPMsg(next), lines' = lines PROVE Lock'
  <2>1. astray = {} BY <1>1, <1>2, <1>4, Reads
  <2>2. Load <= 1 BY <1>2, <2>1 DEF Lock, Ready
  <2>3. lines' = lines \/ (next \notin {"idle", "data", "final"} /\ SendsLine) BY <1>4
  <2>4. Ready /\ ServerUnchanged /\ recvFTPMsg(next) BY <1>2, <1>4
  <2> QED BY <1>3, <2>2, <2>3, <2>4, LastOne
<1>5. ASSUME NEW next \in {"PASS", "opening"}, recvFTPMsg(next), SendsLine PROVE Lock'
  <2>1. astray = {} BY <1>1, <1>2, <1>5, Reads
  <2>2. Load <= 1 BY <1>2, <2>1 DEF Lock, Ready
  <2> QED BY <1>2, <1>3, <1>5, <2>2, LastOne
<1>6. CASE LastReply BY <1>4, <1>6 DEF LastReply
<1>7. CASE UserReply
  <2>1. CASE recvFTPMsg("PASS") /\ sendCmd("PASS", FALSE)
    <3>1. lastNo < MaxCommands BY <1>7 DEF UserReply, Extra, RoomLeft
    <3>2. "PASS" \in Verbs BY DEF Verbs
    <3>3. SendsLine BY <2>1, <3>1, <3>2, SendCmd
    <3> QED BY <1>5, <2>1, <3>3
  <2>2. CASE recvFTPMsg("idle") /\ UNCHANGED <<lines, lastNo>> BY <1>4, <2>2
  <2> QED BY <1>7, <2>1, <2>2 DEF UserReply
<1>8. CASE PasvReply
  <2>1. CASE /\ recvFTPMsg("opening") /\ sendCmd(call.verb, call.big)
              /\ port # 0 /\ UNCHANGED port
    <3>1. lastNo < MaxCommands BY <1>8 DEF PasvReply, Extra, RoomLeft
    <3>2. call.verb \in Verbs /\ call.big \in BOOLEAN
      BY DEF TypeOK, ClientTypeOK, Calls, Verbs
    <3>3. awaiting' = "opening" /\ port' # 0 BY <1>2, <2>1, Reads
    <3>4. SendsLine BY <2>1, <3>1, <3>2, <3>3, SendCmd
    <3> QED BY <1>5, <2>1, <3>4
  <2>2. CASE recvFTPMsg("idle") /\ UNCHANGED lines BY <1>4, <2>2
  <2> QED BY <1>8, <2>1, <2>2 DEF PasvReply, Connect
<1> QED BY <1>6, <1>7, <1>8

(* The first of two replies is taken. *)
LEMMA OpeningReplyLock ==
  ASSUME TypeOK, Chain, Turn, Lock, OpeningReply
  PROVE  Lock'
<1>1. SUFFICES ASSUME astray' = {} PROVE Lock' BY DEF Lock
<1>2. /\ Ready /\ awaiting = "opening" /\ ServerUnchanged
      /\ UNCHANGED <<lines, transfers, lastNo>>
  BY DEF OpeningReply, dataVars
<1>3. PICK m : m = Head(Available) OBVIOUS
<1>4. PICK next : /\ recvFTPMsg(next)
                  /\ ~isNegative(m) => next = "data"
  BY <1>3 DEF OpeningReply
<1>5. /\ astray = {} /\ up /\ taken' = taken + 1 /\ awaiting' = next /\ m = sent[taken + 1]
      /\ taken \in Nat /\ Len(sent) \in Nat /\ taken < Len(sent)
  BY <1>1, <1>2, <1>3, <1>4, Reads, NextReply DEF Ready
<1>6. CASE Load <= 1 BY <1>2, <1>4, <1>6, LastOne
<1>7. CASE ~(Load <= 1)
  <2>1. Load = 2
    <3>1. Load \in Int /\ Load <= 2 BY <1>5, Parts DEF Lock
    <3> QED BY <1>7, <3>1
  <2>2. m \in Own
    <3>1. used' = m BY <1>3, <1>4 DEF recvFTPMsg
    <3> QED BY <1>1, <1>2, <1>4, <3>1, TakesOwn
  <2>3. awaiting' = "data" BY <1>4, <1>5, <2>1, <2>2 DEF Own
  <2>4. ~Coming BY <1>5, <1>7 DEF Lock
  <2>5. /\ UNCHANGED <<strand, handling, code, msgOutputQueue, sent, lines, transfers, lastNo>>
        /\ lines = <<>> /\ ~Hears(strand)
    BY <1>2, <2>4 DEF ServerUnchanged, writeVars, Coming
  <2>6. Load' = 1
    <3>1. Load' = (Len(lines) + Len(strand) + Busy + Len(msgOutputQueue)
                     + (Len(sent) - (taken + 1)) + Moving) - 2 * Lagging(strand)
      BY <1>5, <2>5 DEF Load, Sum, Busy, Moving
    <3>2. Load = (Len(lines) + Len(strand) + Busy + Len(msgOutputQueue)
                    + (Len(sent) - taken) + Moving) - 2 * Lagging(strand)
      BY DEF Load, Sum
    <3>3. /\ Len(lines) \in Nat /\ Len(strand) \in Nat /\ Len(msgOutputQueue) \in Nat
          /\ Busy \in Nat /\ Moving \in Nat /\ Lagging(strand) \in Nat
      BY Parts
    <3>4. PICK l \in Nat : l = Len(lines) BY <3>3
    <3>5. PICK s \in Nat : s = Len(strand) BY <3>3
    <3>6. PICK b \in Nat : b = Busy BY <3>3
    <3>7. PICK q \in Nat : q = Len(msgOutputQueue) BY <3>3
    <3>8. PICK a \in Nat : a = Len(sent) BY <1>5
    <3>9. PICK t \in Nat : t = taken BY <1>5
    <3>10. PICK n \in Nat : n = Moving BY <3>3
    <3>11. PICK w \in Nat : w = Lagging(strand) BY <3>3
    <3>12. 2 = (l + s + b + q + (a - t) + n) - 2 * w
      BY <2>1, <3>2, <3>4, <3>5, <3>6, <3>7, <3>8, <3>9, <3>10, <3>11
    <3>13. Load' = (l + s + b + q + (a - (t + 1)) + n) - 2 * w
      BY <3>1, <3>4, <3>5, <3>6, <3>7, <3>8, <3>9, <3>10, <3>11
    <3>14. (l + s + b + q + (a - (t + 1)) + n) - 2 * w = 1 BY <3>12
    <3> QED BY <3>13, <3>14
  <2>7. PICK S : S = Own OBVIOUS
  <2>8. Within(S)'
    <3>1. Within(S) BY <1>5, <2>7 DEF Lock
    <3>2. \A i \in (taken' + 1) .. Len(sent) : i \in (taken + 1) .. Len(sent) BY <1>5
    <3>3. SentIn(S)' BY <2>5, <3>1, <3>2 DEF Within, SentIn
    <3> QED BY <2>5, <3>1, <3>3 DEF Within, PostsIn, QueueIn, HandlingIn
  <2>9. \A k : k \in S => k \in Own' BY <2>5, <2>6, <2>7 DEF Own
  <2>10. Within(Own)' BY <2>8, <2>9 DEF Within, PostsIn, QueueIn, SentIn, HandlingIn
  <2>11. ~Coming' BY <2>5 DEF Coming
  <2>12. /\ \A u \in transfers : u.no = lastNo /\ u.stage # "aborted"
         /\ \A u, v \in transfers : u = v
    BY <1>5 DEF Lock
  <2> QED BY <2>3, <2>5, <2>6, <2>10, <2>11, <2>12 DEF Lock, Hears
<1> QED BY <1>6, <1>7

LEMMA EndOfDataLock ==
  ASSUME TypeOK, Chain, Turn, Lock, EndOfData
  PROVE  Lock'
<1>1. /\ awaiting = "data" /\ awaiting' = "final"
      /\ UNCHANGED <<strand, handling, code, msgOutputQueue, sent, lines, transfers, lastNo,
                    taken, astray, up>>
  BY DEF EndOfData, ServerUnchanged, writeVars, dataVars
<1>2. SUFFICES ASSUME up, astray = {} PROVE Lock' BY <1>1 DEF Lock
<1>3. Load \in Int /\ Load <= 1 /\ ~Coming /\ Within(Own) BY <1>1, <1>2, Parts DEF Lock
<1>4. Load' = Load BY <1>1 DEF Load, Busy, Moving
<1>5. Within(Own)'
  <2>1. PICK S : S = Own OBVIOUS
  <2>2. \A m : m \in S => m \in Own' BY <1>1, <1>4, <2>1 DEF Own
  <2>3. Within(S) BY <1>3, <2>1
  <2>4. Within(S)' BY <1>1, <2>3 DEF Within, PostsIn, QueueIn, SentIn, HandlingIn
  <2> QED BY <2>2, <2>4 DEF Within, PostsIn, QueueIn, SentIn, HandlingIn
<1>6. ~Coming' /\ lines' = <<>> /\ ~Hears(strand') BY <1>1, <1>3 DEF Coming
<1>7. /\ \A u \in transfers : u.no = lastNo /\ u.stage # "aborted"
      /\ \A u, v \in transfers : u = v
  BY <1>2 DEF Lock
<1> QED BY <1>1, <1>3, <1>4, <1>5, <1>6, <1>7 DEF Lock, Hears

LEMMA CallLock ==
  ASSUME TypeOK, Chain, Turn, Lock, ClientCalls
  PROVE  Lock'
<1>1. SUFFICES ASSUME astray' = {} PROVE Lock' BY DEF Lock
<1>2. /\ ServerUnchanged /\ UNCHANGED <<transfers, taken, astray>>
      /\ awaiting = "idle" /\ up /\ awaiting' \in {"reply", "USER", "PASV"}
  BY DEF ClientCalls, OneCommand, Login, Transfer, MayCall, dataVars
<1>3. Quiet /\ taken = Len(sent) BY <1>1, <1>2, IdleQuiet DEF Lock
<1>4. SendsLine
  <2>1. lastNo \in Nat BY ControlAssumption DEF TypeOK, ClientTypeOK
  <2>2. lastNo < MaxCommands
    <3>1. lastNo + 1 <= MaxCommands \/ lastNo + 2 <= MaxCommands
      BY DEF ClientCalls, OneCommand, Login, Transfer, MayCall
    <3> QED BY <2>1, <3>1, ControlAssumption
  <2>3. \A v \in {"MKD", "USER", "PASV"} : v \in Verbs /\ v \notin {"RETR", "STOR"}
    BY DEF Verbs
  <2>4. CASE OneCommand
    <3>1. sendCmd("MKD", FALSE) BY <2>4 DEF OneCommand
    <3> QED BY <2>2, <2>3, <3>1, SendCmd
  <2>5. CASE Login
    <3>1. sendCmd("USER", FALSE) BY <2>5 DEF Login
    <3> QED BY <2>2, <2>3, <3>1, SendCmd
  <2>6. ASSUME NEW verb, NEW big, Transfer(verb, big) PROVE SendsLine
    <3>1. sendCmd("PASV", FALSE) BY <2>6 DEF Transfer
    <3> QED BY <2>2, <2>3, <3>1, SendCmd
  <2> QED BY <2>4, <2>5, <2>6 DEF ClientCalls
<1>5. taken' = Len(sent) BY <1>2, <1>3
<1> QED BY <1>2, <1>3, <1>4, <1>5, Settled

LEMMA ClientLock ==
  ASSUME TypeOK, Extra, Chain, Turn, Lock, ClientReads \/ ClientCalls \/ Abandon \/ Disconnect
  PROVE  Lock'
<1>1. CASE Abandon
  <2>1. astray' # {} BY <1>1 DEF Abandon
  <2> QED BY <2>1 DEF Lock
<1>2. CASE Disconnect
  <2>1. ~up' BY <1>2 DEF Disconnect
  <2> QED BY <2>1 DEF Lock
<1> QED
  BY <1>1, <1>2, LastReplyLock, OpeningReplyLock, EndOfDataLock, CallLock DEF ClientReads

(* The session reads, or has one line in hand. *)
LEMMA NextTurn ==
  ASSUME TypeOK, Extra, Chain, Turn, [Next]_vars
  PROVE  Turn'
<1>0. /\ strand \in Seq(Handlers) /\ lines \in Seq(Lines) /\ sent \in Seq(Replies)
      /\ Len(sent) \in Nat /\ taken \in Nat /\ taken <= Len(sent) /\ HearsOnce(strand)
  BY LenProperties DEF TypeOK, ChannelTypeOK, ClientTypeOK, Turn
<1>1. ASSUME UNCHANGED <<reading, handling, up>>, taken' <= Len(sent'),
             Hears(strand') <=> Hears(strand), HearsOnce(strand')
      PROVE  Turn'
  BY <1>1 DEF Turn
<1>2. ASSUME NEW h \in Handlers, h.op # "heard", strand' = Append(strand, h)
      PROVE  (Hears(strand') <=> Hears(strand)) /\ HearsOnce(strand')
  BY <1>0, <1>2, HeardPushed
<1>3. ASSUME NEW op \in {"post", "written"}, Run(op), strand' = Tail(strand)
      PROVE  (Hears(strand') <=> Hears(strand)) /\ HearsOnce(strand')
  <2>1. strand # <<>> /\ Head(strand).op # "heard" BY <1>3 DEF Run
  <2> QED BY <1>0, <1>3, <2>1, HeardPopped
<1>4. ASSUME ServerUnchanged, taken' <= Len(sent) PROVE Turn'
  BY <1>0, <1>1, <1>4 DEF ServerUnchanged, writeVars
<1>5. CASE ReadLines /\ UNCHANGED clientVars
  <2>1. /\ reading /\ up /\ lines # <<>> /\ ~reading' /\ strand' = Append(strand, Heard(Head(lines)))
        /\ UNCHANGED <<handling, sent, taken>>
    BY <1>0, <1>5, EmptySeq DEF ReadLines, clientVars, writeVars
  <2>2. Head(lines) \in Lines BY <1>0, <2>1, HeadTailProperties
  <2>3. PICK h \in Handlers : h = Heard(Head(lines)) /\ h.op = "heard" BY <2>2, Tables
  <2>4. ~Hears(strand) /\ handling = NoLine BY <2>1 DEF Turn
  <2>5. Hears(strand') /\ HearsOnce(strand') BY <1>0, <2>1, <2>3, <2>4, HeardPushed
  <2> QED BY <1>0, <2>1, <2>4, <2>5 DEF Turn
<1>6. CASE ReadFails /\ UNCHANGED clientVars
  BY <1>0, <1>6 DEF ReadFails, clientVars, writeVars, Turn
<1>7. CASE HandleCommand /\ UNCHANGED clientVars
  <2>1. PICK line : line = Head(strand).line OBVIOUS
  <2>2. /\ Run("heard") /\ strand # <<>> /\ Head(strand).op = "heard" /\ strand' = Tail(strand)
        /\ handling' = line /\ UNCHANGED <<reading, sent, taken, up>>
    BY <1>7, <2>1 DEF HandleCommand, Run, clientVars, writeVars
  <2>3. line # NoLine BY <2>1, <2>2, StrandTypes, LineAssumption DEF Extra
  <2>4. Hears(strand) /\ ~Hears(strand') /\ HearsOnce(strand') BY <1>0, <2>2, HeardPopped
  <2> QED BY <1>0, <2>2, <2>3, <2>4 DEF Turn
<1>8. CASE FinishCommand /\ UNCHANGED clientVars
  <2>1. PICK m : m = Reply(code, handling.no) OBVIOUS
  <2>2. /\ handling # NoLine /\ handling' = NoLine /\ reading' /\ strand' = Append(strand, Post(m))
        /\ UNCHANGED <<sent, taken, up>>
    BY <1>8, <2>1 DEF FinishCommand, sendFTPMsg, clientVars, writeVars
  <2>3. m \in Replies
    <3>1. handling \in Lines BY <2>2 DEF TypeOK, ChannelTypeOK
    <3>2. handling.no \in 0 .. MaxCommands BY <3>1, ControlAssumption DEF Lines, Numbers
    <3> QED BY <2>1, <3>2 DEF Reply, Replies, TypeOK, ChannelTypeOK
  <2>4. PICK h \in Handlers : h = Post(m) /\ h.op = "post" BY <2>3, Tables
  <2>5. (Hears(strand') <=> Hears(strand)) /\ HearsOnce(strand') BY <1>2, <2>2, <2>4
  <2> QED BY <1>0, <2>2, <2>5 DEF Turn
<1>9. CASE PostReply /\ UNCHANGED clientVars
  <2>1. /\ Run("post") /\ strand' = Tail(strand) /\ UNCHANGED <<reading, handling, sent, taken, up>>
    BY <1>9 DEF PostReply, clientVars, readVars
  <2> QED BY <1>0, <1>1, <1>3, <2>1
<1>10. CASE WriteDone /\ UNCHANGED clientVars
  <2>1. /\ Run("written") /\ strand' = Tail(strand)
        /\ UNCHANGED <<reading, handling, sent, taken, up>>
    BY <1>10 DEF WriteDone, clientVars, readVars
  <2> QED BY <1>0, <1>1, <1>3, <2>1
<1>11. CASE WriteReply /\ UNCHANGED clientVars
  <2>1. PICK m : m = Head(msgOutputQueue) OBVIOUS
  <2>2. /\ strand' = Append(strand, Written) /\ UNCHANGED <<reading, handling, taken, up>>
        /\ sent' = Append(sent, m)
    BY <1>11, <2>1 DEF WriteReply, clientVars, readVars
  <2>3. m \in Replies
    <3>1. msgOutputQueue # <<>> /\ msgOutputQueue \in Seq(Replies)
      BY <1>11 DEF WriteReply, Chain, TypeOK, ChannelTypeOK
    <3> QED BY <2>1, <3>1, HeadTailProperties
  <2>4. Len(sent') = Len(sent) + 1 BY <1>0, <2>2, <2>3, AppendProperties
  <2>5. taken' <= Len(sent') BY <1>0, <2>2, <2>4
  <2>6. PICK h \in Handlers : h = Written /\ h.op = "written" BY Tables
  <2>7. (Hears(strand') <=> Hears(strand)) /\ HearsOnce(strand') BY <1>2, <2>2, <2>6
  <2> QED BY <1>1, <2>2, <2>5, <2>7
<1>12. CASE WriteFails /\ UNCHANGED clientVars
  BY <1>0, <1>1, <1>12 DEF WriteFails, clientVars, readVars
<1>13. ASSUME NEW t \in transfers, UNCHANGED clientVars,
              Accept(t) \/ AcceptFails(t) \/ Complete(t, Peer(t), PeerReads(t))
                \/ SendFails(t, Peer(t))
       PROVE  Turn'
  <2>1. UNCHANGED <<reading, handling, sent, taken, up>>
    BY <1>13 DEF Accept, AcceptFails, Complete, SendFails, clientVars, readVars, writeVars
  <2>2. PICK c \in {226, 426} : strand' = strand \/ strand' = Append(strand, Post(Reply(c, t.no)))
    BY <1>13
    DEF Accept, AcceptFails, Complete, SendFails, sendFTPMsg, CLOSING_DATA_CONNECTION,
        TRANSFER_ABORTED
  <2>3. Reply(c, t.no) \in Replies
    <3>1. t.no \in 0 .. MaxCommands
      BY ControlAssumption DEF TypeOK, ChannelTypeOK, Transfers, Numbers
    <3> QED BY <3>1 DEF Reply, Replies, Codes, CLOSING_DATA_CONNECTION, TRANSFER_ABORTED
  <2>4. PICK h \in Handlers : h = Post(Reply(c, t.no)) /\ h.op = "post" BY <2>3, Tables
  <2>5. (Hears(strand') <=> Hears(strand)) /\ HearsOnce(strand')
    <3>1. CASE strand' = strand BY <1>0, <3>1
    <3>2. CASE strand' = Append(strand, h) BY <1>2, <2>4, <3>2
    <3> QED BY <2>2, <2>4, <3>1, <3>2
  <2> QED BY <1>0, <1>1, <2>1, <2>5
<1>14. CASE Server
  BY <1>5, <1>6, <1>7, <1>8, <1>9, <1>10, <1>11, <1>12, <1>13, <1>14
  DEF Server, Strand, Socket, EndTransfer
<1>15. ASSUME NEW next, Ready, recvFTPMsg(next), ServerUnchanged PROVE Turn'
  BY <1>4, <1>15, Reads
<1>16. CASE ClientReads
  BY <1>0, <1>4, <1>15, <1>16
  DEF ClientReads, LastReply, UserReply, PasvReply, OpeningReply, EndOfData
<1>17. CASE ClientCalls
  BY <1>0, <1>4, <1>17 DEF ClientCalls, OneCommand, Login, Transfer
<1>18. CASE Abandon BY <1>0, <1>4, <1>18 DEF Abandon
<1>19. CASE Disconnect
  <2>1. Available # <<>> => taken < Len(sent) BY <1>19, NextReply DEF Ready, Disconnect
  <2>2. taken' <= Len(sent)
    <3>1. Available # <<>> => taken + 1 <= Len(sent) BY <1>0, <2>1
    <3> QED BY <1>0, <1>19, <3>1 DEF Disconnect
  <2> QED BY <1>0, <1>19, <2>2 DEF Disconnect, Turn, readVars, writeVars
<1>20. CASE UNCHANGED vars
  BY <1>0, <1>1, <1>20 DEF vars, channelVars, clientVars, readVars, writeVars
<1> QED BY <1>14, <1>16, <1>17, <1>18, <1>19, <1>20 DEF Next

-----------------------------------------------------------------------------
(* The theorems.                                                           *)

LEMMA NextIInv == IInv /\ [Next]_vars => IInv'
<1> SUFFICES ASSUME IInv, [Next]_vars PROVE IInv' OBVIOUS
<1>1. TypeOK /\ Extra /\ Chain BY DEF IInv
<1>2. Chain' BY <1>1, NextChain
<1>3. CASE Server BY <1>1, <1>2, <1>3, ServerTypes DEF IInv
<1>4. CASE ClientReads \/ ClientCalls \/ Abandon \/ Disconnect
  BY <1>1, <1>2, <1>4, ClientTypes DEF IInv
<1>5. CASE UNCHANGED vars
  BY <1>1, <1>2, <1>5
  DEF IInv, TypeOK, ChannelTypeOK, ClientTypeOK, Extra, HeardLines, RoomLeft,
      vars, channelVars, clientVars, readVars, writeVars, dataVars
<1> QED BY <1>3, <1>4, <1>5 DEF Next

(* The chain of writes is unbroken. *)
THEOREM Inductive == Spec => []IInv
<1>1. Init => IInv BY InitIInv
<1>2. IInv /\ [Next]_vars => IInv' BY NextIInv
<1> QED BY <1>1, <1>2, PTL DEF Spec

(* The lines on the wire, the handlers in the strand, the replies and the  *)
(* transfers are well formed, and the client never numbers a command       *)
(* beyond the bound.                                                       *)
THEOREM TypeCorrect == Spec => []TypeOK
<1>1. IInv => TypeOK BY DEF IInv
<1> QED BY <1>1, Inductive, PTL

(* The server never has two writes under way on a control connection, and  *)
(* never leaves a reply in msgOutputQueue_ that no write will carry.       *)
THEOREM WritesSafe == Spec => []OneWrite
<1>1. IInv => OneWrite BY DEF IInv, Chain, Once, Has, OneWrite, InStrand
<1> QED BY <1>1, Inductive, PTL

LEMMA InitFInv == Init => FInv
<1> SUFFICES ASSUME Init PROVE FInv OBVIOUS
<1>1. IInv BY InitIInv
<1>2. PICK p \in Handlers : p = Post(Greeting) /\ p.op = "post" /\ p.msg = Greeting
  BY Tables DEF Post
<1>3. /\ strand = <<p>> /\ lines = <<>> /\ handling = NoLine /\ msgOutputQueue = <<>>
      /\ sent = <<>> /\ taken = 0 /\ lastNo = 0 /\ transfers = {} /\ reading
      /\ awaiting = "greeting"
  BY <1>2 DEF Init, ChannelInit
<1>4. Len(strand) = 1 /\ DOMAIN strand = {1} /\ strand[1] = p BY <1>3
<1>5. ~Hears(strand) /\ ~Has(strand) /\ HearsOnce(strand)
  BY <1>2, <1>4 DEF Hears, Has, HearsOnce
<1>6. Len(sent) = 0 /\ Len(lines) = 0 /\ Len(msgOutputQueue) = 0 BY <1>3
<1>7. Turn BY <1>3, <1>5, <1>6 DEF Turn
<1>8. Load = 1 BY <1>3, <1>4, <1>5, <1>6 DEF Load, Sum, Lagging, Busy, Moving
<1>9. Greeting \in Own
  <2>1. Greeting.no = 0 BY DEF Greeting, Reply
  <2> QED BY <1>3, <1>8, <2>1, Tables DEF Own
<1>10. Within(Own)
  <2>1. DOMAIN msgOutputQueue = {} BY <1>3
  <2>2. PostsIn(strand, Own) BY <1>2, <1>4, <1>9 DEF PostsIn
  <2>3. SentIn(Own) BY <1>3, <1>6 DEF SentIn
  <2> QED BY <1>3, <2>1, <2>2, <2>3 DEF Within, QueueIn, HandlingIn
<1>11. ~Coming BY <1>3, <1>5 DEF Coming
<1>12. Lock BY <1>3, <1>5, <1>8, <1>10, <1>11 DEF Lock, Hears
<1> QED BY <1>1, <1>7, <1>12 DEF FInv

LEMMA NextFInv == FInv /\ [Next]_vars => FInv'
<1> SUFFICES ASSUME FInv, [Next]_vars PROVE FInv' OBVIOUS
<1>1. IInv /\ TypeOK /\ Extra /\ Chain /\ Turn /\ Lock BY DEF FInv, IInv
<1>2. IInv' /\ TypeOK' BY <1>1, NextIInv DEF IInv
<1>3. Turn' BY <1>1, NextTurn
<1>4. Lock'
  <2>1. CASE Server BY <1>1, <1>2, <2>1, ServerLock
  <2>2. CASE ClientReads \/ ClientCalls \/ Abandon \/ Disconnect BY <1>1, <2>2, ClientLock
  <2>3. CASE UNCHANGED vars
    <3>1. UNCHANGED <<lines, strand, handling, code, msgOutputQueue, sent, transfers, port,
                      up, awaiting, lastNo, taken, astray>>
      BY <2>3 DEF vars, channelVars, clientVars, readVars, writeVars, dataVars
    <3>2. Load' = Load BY <3>1 DEF Load, Busy, Moving
    <3>3. Own' = Own BY <3>1, <3>2 DEF Own
    <3>4. Within(Own)' <=> Within(Own)
      BY <3>1, <3>3 DEF Within, PostsIn, QueueIn, SentIn, HandlingIn
    <3> QED BY <1>1, <3>1, <3>2, <3>4 DEF Lock, OwnLine, Coming
  <2> QED BY <2>1, <2>2, <2>3 DEF Next
<1> QED BY <1>2, <1>3, <1>4 DEF FInv

(* All that is on its way, of a call that keeps in step, is the call's own. *)
THEOREM InLockStep == Spec => []FInv
<1>1. Init => FInv BY InitFInv
<1>2. FInv /\ [Next]_vars => FInv' BY NextFInv
<1> QED BY <1>1, <1>2, PTL DEF Spec

(* When a call has returned, and no reply was dropped and no transfer      *)
(* abandoned, nothing of it is left between client and server, whatever    *)
(* the order in which the threads of the server have posted its replies.   *)
THEOREM StartsAfresh == Spec => []NothingLeftOver
<1>1. FInv => NothingLeftOver
  <2> SUFFICES ASSUME FInv, awaiting = "idle", up, astray = {}
               PROVE  /\ lines = <<>> /\ handling = NoLine /\ reading
                      /\ Available = <<>>
                      /\ ~InStrand("heard") /\ ~InStrand("post")
                      /\ msgOutputQueue # <<>> => InStrand("written") /\ Len(msgOutputQueue) = 1
                      /\ transfers = {}
    BY DEF NothingLeftOver
  <2>1. TypeOK /\ Chain /\ Turn /\ Load <= 0 BY DEF FInv, IInv, Lock
  <2>2. Quiet /\ taken = Len(sent) BY <2>1, IdleQuiet
  <2>3. lines = <<>> /\ handling = NoLine /\ reading /\ transfers = {}
    BY <2>1, <2>2 DEF Quiet, Turn
  <2>4. ~InStrand("heard") /\ ~InStrand("post")
    BY <2>2 DEF Quiet, Hears, PostsIn, InStrand
  <2>5. Available = <<>>
    <3>1. taken \in Nat BY <2>1 DEF TypeOK, ClientTypeOK
    <3>2. taken + 1 \in Int /\ Len(sent) \in Int /\ Len(sent) < taken + 1 BY <2>2, <3>1
    <3> QED BY <3>2, SubSeqEmpty DEF Available
  <2>6. msgOutputQueue # <<>> => InStrand("written") /\ Len(msgOutputQueue) = 1
    <3>1. Len(msgOutputQueue) = Lagging(strand) BY <2>2 DEF Quiet
    <3>2. msgOutputQueue \in Seq(Replies) BY <2>1 DEF TypeOK, ChannelTypeOK
    <3>3. msgOutputQueue # <<>> => Has(strand) BY <3>1, <3>2, EmptySeq DEF Lagging
    <3> QED BY <3>1, <3>3 DEF Has, InStrand, Lagging
  <2> QED BY <2>3, <2>4, <2>5, <2>6
<1> QED BY <1>1, InLockStep, PTL

(* A call takes for its answer only replies to its own last command, for   *)
(* as long as no reply was dropped and no transfer abandoned.              *)
THEOREM AnswersOwn == Spec => InStep
<1> DEFINE Answer == taken' # taken /\ astray' = {} => used'.no = lastNo
<1>1. FInv /\ [Next]_vars => [Answer]_vars
  <2> SUFFICES ASSUME FInv, Next, taken' # taken, astray' = {} PROVE used'.no = lastNo
    BY DEF vars, clientVars
  <2>1. TypeOK /\ Lock BY DEF FInv, IInv
  <2>2. CASE Disconnect
    <3>1. Ready /\ used' = Head(Available) /\ astray = {}
      BY <2>2 DEF Disconnect, Ready
    <3>2. used' = sent[taken + 1] /\ taken + 1 \in (taken + 1) .. Len(sent)
      BY <2>1, <3>1, NextReply
    <3>3. PICK S : S = Own OBVIOUS
    <3>4. SentIn(S) BY <2>1, <3>1, <3>3 DEF Lock, Within, Ready
    <3>5. used' \in S BY <3>2, <3>4 DEF SentIn
    <3> QED BY <2>2, <3>3, <3>5 DEF Own, Disconnect
  <2>3. CASE LastReply \/ UserReply \/ PasvReply \/ OpeningReply
    <3>1. PICK next : Ready /\ recvFTPMsg(next)
      BY <2>3 DEF LastReply, UserReply, PasvReply, OpeningReply
    <3>2. used'.no = lastNo BY <2>1, <3>1, TakesOwn
    <3> QED BY <2>3, <3>2
  <2> QED
    BY <2>2, <2>3
    DEF Next, Server, ClientReads, ClientCalls, EndOfData, OneCommand, Login, Transfer,
        Abandon, clientVars
<1> HIDE DEF Answer
<1>2. Spec => [][Answer]_vars BY <1>1, InLockStep, PTL DEF Spec
<1> QED BY <1>2 DEF InStep, Answer

-----------------------------------------------------------------------------
(* Every command is answered once and in the order read, in step or not.   *)
(* The first replies on their way, in the socket, in msgOutputQueue_ behind *)
(* what is written, in the strand, and in the hands of the handler, carry  *)
(* the numbers of the commands heard, one behind the other.                *)

(* The numbers of the first replies in q, and in the posts of q. *)
Firsts(q) == {n \in 0 .. MaxCommands : \E i \in DOMAIN q : First(q[i]) /\ q[i].no = n}
IsFirst(h) == h.op = "post" /\ First(h.msg)
FirstPosts(q) ==
  {n \in 0 .. MaxCommands : \E i \in DOMAIN q : IsFirst(q[i]) /\ q[i].msg.no = n}

Rising(q) == \A i, j \in DOMAIN q : i < j /\ First(q[i]) /\ First(q[j]) => q[i].no < q[j].no
RisingPosts(q) ==
  \A i, j \in DOMAIN q :
    i < j /\ IsFirst(q[i]) /\ IsFirst(q[j]) => q[i].msg.no < q[j].msg.no

(* What of the queue r is not written yet. *)
Unsent(r, written) == IF written THEN Tail(r) ELSE r

InSocket == Firsts(sent)
InQueue == Firsts(Unsent(msgOutputQueue, Has(strand)))
InPosts == FirstPosts(strand)
InHand == IF handling = NoLine THEN {} ELSE {handling.no}
HeardNos == {n \in 0 .. MaxCommands : \E i \in DOMAIN heard : heard[i] = n}

Before(A, B) == \A a \in A, b \in B : a < b

InLine(A, B, C, D) ==
  /\ Before(A, B) /\ Before(A, C) /\ Before(A, D)
  /\ Before(B, C) /\ Before(B, D)
  /\ Before(C, D)

Line ==
  /\ InLine(InSocket, InQueue, InPosts, InHand)
  /\ Rising(Unsent(msgOutputQueue, Has(strand))) /\ RisingPosts(strand)
  /\ HeardNos = InSocket \cup InQueue \cup InPosts \cup InHand
  /\ handling # NoLine => First(Reply(code, handling.no))
  /\ \A i, j \in DOMAIN heard : i < j => heard[i] < heard[j]

OnceEach == \A n \in Numbers : AnswersTo(n) = IF n \in InSocket THEN 1 ELSE 0

(* The lines, and the one that its handler has, are younger than all that  *)
(* was heard.                                                              *)
Younger(n, S, last) == n <= last /\ \A k \in S : k < n

Arriving ==
  /\ \A k \in HeardNos : k <= lastNo
  /\ \A i \in DOMAIN lines : Younger(lines[i].no, HeardNos, lastNo)
  /\ \A i, j \in DOMAIN lines : i < j => lines[i].no < lines[j].no
  /\ \A i \in DOMAIN strand : strand[i].op = "heard" =>
       /\ Younger(strand[i].line.no, HeardNos, lastNo)
       /\ \A j \in DOMAIN lines : strand[i].line.no < lines[j].no

AInv == Line /\ OnceEach /\ Arriving

LEMMA FirstsAppended ==
  ASSUME NEW q \in Seq(Replies), NEW m \in Replies
  PROVE  /\ First(m) => Firsts(Append(q, m)) = Firsts(q) \cup {m.no}
         /\ ~First(m) => Firsts(Append(q, m)) = Firsts(q)
         /\ Rising(q) /\ (First(m) => \A n \in Firsts(q) : n < m.no) => Rising(Append(q, m))
<1> DEFINE r == Append(q, m)
<1>1. /\ r \in Seq(Replies) /\ Len(q) \in Nat /\ DOMAIN q = 1 .. Len(q)
      /\ DOMAIN r = 1 .. (Len(q) + 1)
      /\ \A i \in 1 .. Len(q) : r[i] = q[i]
      /\ r[Len(q) + 1] = m
  BY AppendProperties, LenProperties
<1>2. m.no \in 0 .. MaxCommands /\ \A i \in DOMAIN q : q[i].no \in 0 .. MaxCommands
  <2>1. \A x \in Replies : x.no \in 0 .. MaxCommands BY DEF Replies
  <2> QED BY <2>1, ElementOfSeq
<1> HIDE DEF r
<1>3. /\ \A i \in DOMAIN q : i \in DOMAIN r /\ r[i] = q[i]
      /\ \A i \in DOMAIN r : i \in DOMAIN q \/ i = Len(q) + 1
      /\ Len(q) + 1 \in DOMAIN r
      /\ \A i \in DOMAIN q : i # Len(q) + 1 /\ i \in Nat /\ i < Len(q) + 1
  BY <1>1
<1>4. First(m) => Firsts(r) = Firsts(q) \cup {m.no} BY <1>1, <1>2, <1>3 DEF Firsts
<1>5. ~First(m) => Firsts(r) = Firsts(q) BY <1>1, <1>3 DEF Firsts
<1>6. ASSUME Rising(q), First(m) => \A n \in Firsts(q) : n < m.no PROVE Rising(r)
  <2> SUFFICES ASSUME NEW i \in DOMAIN r, NEW j \in DOMAIN r, i < j, First(r[i]), First(r[j])
               PROVE  r[i].no < r[j].no
    BY DEF Rising
  <2>1. i \in DOMAIN q BY <1>1
  <2>2. CASE j \in DOMAIN q BY <1>3, <1>6, <2>1, <2>2 DEF Rising
  <2>3. CASE j = Len(q) + 1
    <3>1. q[i].no \in Firsts(q) BY <1>2, <1>3, <2>1 DEF Firsts
    <3> QED BY <1>1, <1>3, <1>6, <2>1, <2>3, <3>1
  <2> QED BY <1>3, <2>2, <2>3
<1> QED BY <1>4, <1>5, <1>6 DEF r

LEMMA FirstsPopped ==
  ASSUME NEW q \in Seq(Replies), q # <<>>
  PROVE  /\ Tail(q) \in Seq(Replies) /\ Head(q) \in Replies
         /\ First(Head(q)) => Firsts(q) = Firsts(Tail(q)) \cup {Head(q).no}
         /\ ~First(Head(q)) => Firsts(q) = Firsts(Tail(q))
         /\ Rising(q) => Rising(Tail(q))
         /\ Rising(q) /\ First(Head(q)) => \A n \in Firsts(Tail(q)) : Head(q).no < n
<1> DEFINE r == Tail(q)
<1>1. /\ r \in Seq(Replies) /\ Head(q) \in Replies /\ Head(q) = q[1]
      /\ Len(q) \in Nat /\ Len(q) > 0 /\ DOMAIN q = 1 .. Len(q)
      /\ DOMAIN r = 1 .. (Len(q) - 1)
      /\ \A i \in 1 .. (Len(q) - 1) : r[i] = q[i + 1]
  BY HeadTailProperties, LenProperties, EmptySeq
<1>2. \A i \in DOMAIN q : q[i].no \in 0 .. MaxCommands
  <2>1. \A x \in Replies : x.no \in 0 .. MaxCommands BY DEF Replies
  <2> QED BY <2>1, ElementOfSeq
<1> HIDE DEF r
<1>3. ASSUME NEW i \in DOMAIN r
      PROVE  i \in Nat /\ i + 1 \in DOMAIN q /\ 1 < i + 1 /\ r[i] = q[i + 1]
  BY <1>1
<1>4. ASSUME NEW i \in DOMAIN q, i # 1
      PROVE  \E j \in DOMAIN r : r[j] = q[i]
  <2>1. i - 1 \in DOMAIN r /\ (i - 1) + 1 = i BY <1>1, <1>4
  <2> QED BY <1>1, <2>1
<1>5. 1 \in DOMAIN q BY <1>1
<1>6. Firsts(r) \subseteq Firsts(q) BY <1>3 DEF Firsts
<1>7. First(q[1]) => q[1].no \in Firsts(q) BY <1>2, <1>5 DEF Firsts
<1>8. ASSUME NEW n \in Firsts(q) PROVE n \in Firsts(r) \/ (First(q[1]) /\ n = q[1].no)
  <2>1. PICK i \in DOMAIN q : First(q[i]) /\ q[i].no = n BY DEF Firsts
  <2>2. CASE i = 1 BY <2>1, <2>2
  <2>3. CASE i # 1
    <3>1. PICK j \in DOMAIN r : r[j] = q[i] BY <1>4, <2>3
    <3> QED BY <2>1, <3>1 DEF Firsts
  <2> QED BY <2>2, <2>3
<1>9. Rising(q) => Rising(r)
  <2> SUFFICES ASSUME Rising(q), NEW i \in DOMAIN r, NEW j \in DOMAIN r, i < j,
                      First(r[i]), First(r[j])
               PROVE  r[i].no < r[j].no
    BY DEF Rising
  <2>1. i + 1 \in DOMAIN q /\ j + 1 \in DOMAIN q /\ i + 1 < j + 1 BY <1>3
  <2> QED BY <1>3, <2>1 DEF Rising
<1>10. ASSUME Rising(q), First(q[1]), NEW n \in Firsts(r) PROVE q[1].no < n
  <2>1. PICK i \in DOMAIN r : First(r[i]) /\ r[i].no = n BY DEF Firsts
  <2>2. i + 1 \in DOMAIN q /\ 1 < i + 1 /\ r[i] = q[i + 1] BY <1>3
  <2> QED BY <1>5, <1>10, <2>1, <2>2 DEF Rising
<1>11. First(q[1]) => Firsts(q) = Firsts(r) \cup {q[1].no} BY <1>6, <1>7, <1>8
<1>12. ~First(q[1]) => Firsts(q) = Firsts(r) BY <1>6, <1>8
<1> QED BY <1>1, <1>9, <1>10, <1>11, <1>12 DEF r

(* A handler in a strand, and what it posts. *)
LEMMA PostsAppended ==
  ASSUME NEW q \in Seq(Handlers), NEW h \in Handlers
  PROVE  /\ IsFirst(h) => FirstPosts(Append(q, h)) = FirstPosts(q) \cup {h.msg.no}
         /\ ~IsFirst(h) => FirstPosts(Append(q, h)) = FirstPosts(q)
         /\ RisingPosts(q) /\ (IsFirst(h) => \A n \in FirstPosts(q) : n < h.msg.no)
              => RisingPosts(Append(q, h))
<1> DEFINE r == Append(q, h)
<1>1. /\ r \in Seq(Handlers) /\ Len(q) \in Nat /\ DOMAIN q = 1 .. Len(q)
      /\ DOMAIN r = 1 .. (Len(q) + 1)
      /\ \A i \in 1 .. Len(q) : r[i] = q[i]
      /\ r[Len(q) + 1] = h
  BY AppendProperties, LenProperties
<1>2. h.msg.no \in 0 .. MaxCommands /\ \A i \in DOMAIN q : q[i].msg.no \in 0 .. MaxCommands
  <2>1. \A x \in Handlers : x.msg.no \in 0 .. MaxCommands BY DEF Handlers, Replies
  <2> QED BY <2>1, ElementOfSeq
<1> HIDE DEF r
<1>3. /\ \A i \in DOMAIN q : i \in DOMAIN r /\ r[i] = q[i]
      /\ \A i \in DOMAIN r : i \in DOMAIN q \/ i = Len(q) + 1
      /\ Len(q) + 1 \in DOMAIN r
      /\ \A i \in DOMAIN q : i # Len(q) + 1 /\ i \in Nat /\ i < Len(q) + 1
  BY <1>1
<1>4. IsFirst(h) => FirstPosts(r) = FirstPosts(q) \cup {h.msg.no}
  BY <1>1, <1>2, <1>3 DEF FirstPosts
<1>5. ~IsFirst(h) => FirstPosts(r) = FirstPosts(q) BY <1>1, <1>3 DEF FirstPosts
<1>6. ASSUME RisingPosts(q), IsFirst(h) => \A n \in FirstPosts(q) : n < h.msg.no
      PROVE  RisingPosts(r)
  <2> SUFFICES ASSUME NEW i \in DOMAIN r, NEW j \in DOMAIN r, i < j,
                      IsFirst(r[i]), IsFirst(r[j])
               PROVE  r[i].msg.no < r[j].msg.no
    BY DEF RisingPosts
  <2>1. i \in DOMAIN q BY <1>1
  <2>2. CASE j \in DOMAIN q BY <1>3, <1>6, <2>1, <2>2 DEF RisingPosts
  <2>3. CASE j = Len(q) + 1
    <3>1. q[i].msg.no \in FirstPosts(q) BY <1>2, <1>3, <2>1 DEF FirstPosts
    <3> QED BY <1>1, <1>3, <1>6, <2>1, <2>3, <3>1
  <2> QED BY <1>3, <2>2, <2>3
<1> QED BY <1>4, <1>5, <1>6 DEF r

LEMMA PostsPopped ==
  ASSUME NEW q \in Seq(Handlers), q # <<>>
  PROVE  /\ Tail(q) \in Seq(Handlers) /\ Head(q) \in Handlers
         /\ IsFirst(Head(q)) => FirstPosts(q) = FirstPosts(Tail(q)) \cup {Head(q).msg.no}
         /\ ~IsFirst(Head(q)) => FirstPosts(q) = FirstPosts(Tail(q))
         /\ RisingPosts(q) => RisingPosts(Tail(q))
         /\ RisingPosts(q) /\ IsFirst(Head(q)) =>
              \A n \in FirstPosts(Tail(q)) : Head(q).msg.no < n
<1> DEFINE r == Tail(q)
<1>1. /\ r \in Seq(Handlers) /\ Head(q) \in Handlers /\ Head(q) = q[1]
      /\ Len(q) \in Nat /\ Len(q) > 0 /\ DOMAIN q = 1 .. Len(q)
      /\ DOMAIN r = 1 .. (Len(q) - 1)
      /\ \A i \in 1 .. (Len(q) - 1) : r[i] = q[i + 1]
  BY HeadTailProperties, LenProperties, EmptySeq
<1>2. \A i \in DOMAIN q : q[i].msg.no \in 0 .. MaxCommands
  <2>1. \A x \in Handlers : x.msg.no \in 0 .. MaxCommands BY DEF Handlers, Replies
  <2> QED BY <2>1, ElementOfSeq
<1> HIDE DEF r
<1>3. ASSUME NEW i \in DOMAIN r
      PROVE  i \in Nat /\ i + 1 \in DOMAIN q /\ 1 < i + 1 /\ r[i] = q[i + 1]
  BY <1>1
<1>4. ASSUME NEW i \in DOMAIN q, i # 1
      PROVE  \E j \in DOMAIN r : r[j] = q[i]
  <2>1. i - 1 \in DOMAIN r /\ (i - 1) + 1 = i BY <1>1, <1>4
  <2> QED BY <1>1, <2>1
<1>5. 1 \in DOMAIN q BY <1>1
<1>6. FirstPosts(r) \subseteq FirstPosts(q) BY <1>3 DEF FirstPosts
<1>7. IsFirst(q[1]) => q[1].msg.no \in FirstPosts(q) BY <1>2, <1>5 DEF FirstPosts
<1>8. ASSUME NEW n \in FirstPosts(q)
      PROVE  n \in FirstPosts(r) \/ (IsFirst(q[1]) /\ n = q[1].msg.no)
  <2>1. PICK i \in DOMAIN q : IsFirst(q[i]) /\ q[i].msg.no = n BY DEF FirstPosts
  <2>2. CASE i = 1 BY <2>1, <2>2
  <2>3. CASE i # 1
    <3>1. PICK j \in DOMAIN r : r[j] = q[i] BY <1>4, <2>3
    <3> QED BY <2>1, <3>1 DEF FirstPosts
  <2> QED BY <2>2, <2>3
<1>9. RisingPosts(q) => RisingPosts(r)
  <2> SUFFICES ASSUME RisingPosts(q), NEW i \in DOMAIN r, NEW j \in DOMAIN r, i < j,
                      IsFirst(r[i]), IsFirst(r[j])
               PROVE  r[i].msg.no < r[j].msg.no
    BY DEF RisingPosts
  <2>1. i + 1 \in DOMAIN q /\ j + 1 \in DOMAIN q /\ i + 1 < j + 1 BY <1>3
  <2> QED BY <1>3, <2>1 DEF RisingPosts
<1>10. ASSUME RisingPosts(q), IsFirst(q[1]), NEW n \in FirstPosts(r) PROVE q[1].msg.no < n
  <2>1. PICK i \in DOMAIN r : IsFirst(r[i]) /\ r[i].msg.no = n BY DEF FirstPosts
  <2>2. i + 1 \in DOMAIN q /\ 1 < i + 1 /\ r[i] = q[i + 1] BY <1>3
  <2> QED BY <1>5, <1>10, <2>1, <2>2 DEF RisingPosts
<1>11. IsFirst(q[1]) => FirstPosts(q) = FirstPosts(r) \cup {q[1].msg.no} BY <1>6, <1>7, <1>8
<1>12. ~IsFirst(q[1]) => FirstPosts(q) = FirstPosts(r) BY <1>6, <1>8
<1> QED BY <1>1, <1>9, <1>10, <1>11, <1>12 DEF r

LEMMA FirstReplies ==
  /\ \A c \in Codes, n \in Numbers :
       c = NOT_LOGGED_IN \/ (\E v \in Verbs : c = Accepted[v]) => First(Reply(c, n))
  /\ \A n : ~First(Reply(CLOSING_DATA_CONNECTION, n)) /\ ~First(Reply(TRANSFER_ABORTED, n))
  /\ ~First(Greeting)
<1>1. /\ Accepted["USER"] = USER_NAME_OK /\ Accepted["PASS"] = USER_LOGGED_IN
      /\ Accepted["PASV"] = ENTERING_PASSIVE_MODE /\ Accepted["RETR"] = FILE_STATUS_OK
      /\ Accepted["STOR"] = FILE_STATUS_OK /\ Accepted["MKD"] = FILE_ACTION_COMPLETED
  <2>1. Accepted["USER"] = USER_NAME_OK BY Zenon DEF Accepted, Verbs
  <2>2. Accepted["PASS"] = USER_LOGGED_IN BY Zenon DEF Accepted, Verbs
  <2>3. Accepted["PASV"] = ENTERING_PASSIVE_MODE BY Zenon DEF Accepted, Verbs
  <2>4. Accepted["RETR"] = FILE_STATUS_OK BY Zenon DEF Accepted, Verbs
  <2>5. Accepted["STOR"] = FILE_STATUS_OK BY Zenon DEF Accepted, Verbs
  <2>6. Accepted["MKD"] = FILE_ACTION_COMPLETED BY Zenon DEF Accepted, Verbs
  <2> QED BY <2>1, <2>2, <2>3, <2>4, <2>5, <2>6
<1>2. /\ \A v \in Verbs : Accepted[v] \notin {CLOSING_DATA_CONNECTION, TRANSFER_ABORTED}
      /\ NOT_LOGGED_IN \notin {CLOSING_DATA_CONNECTION, TRANSFER_ABORTED}
  BY <1>1
  DEF Verbs, USER_NAME_OK, USER_LOGGED_IN, ENTERING_PASSIVE_MODE, FILE_STATUS_OK,
      FILE_ACTION_COMPLETED, NOT_LOGGED_IN, CLOSING_DATA_CONNECTION, TRANSFER_ABORTED
<1>3. ASSUME NEW c \in Codes, NEW n \in Numbers,
             c \notin {CLOSING_DATA_CONNECTION, TRANSFER_ABORTED}
      PROVE  First(Reply(c, n))
  <2>1. n # 0 BY ControlAssumption DEF Numbers
  <2>2. Reply(c, n).code = c /\ Reply(c, n).no = n /\ Greeting.no = 0
    BY DEF Reply, Greeting
  <2> QED BY <1>3, <2>1, <2>2 DEF First, IsFinal
<1>4. \A n : ~First(Reply(CLOSING_DATA_CONNECTION, n)) /\ ~First(Reply(TRANSFER_ABORTED, n))
  BY DEF First, IsFinal, Reply
<1> QED BY <1>2, <1>3, <1>4 DEF First

(* The replies to a command among those written, and one more. *)
LEMMA AnswerCounted ==
  ASSUME sent \in Seq(Replies), NEW m \in Replies, sent' = Append(sent, m),
         NEW n \in Numbers
  PROVE  AnswersTo(n)' = IF First(m) /\ m.no = n THEN AnswersTo(n) + 1 ELSE AnswersTo(n)
<1>1. /\ Len(sent) \in Nat /\ DOMAIN sent = 1 .. Len(sent)
      /\ DOMAIN sent' = 1 .. (Len(sent) + 1)
      /\ \A i \in 1 .. Len(sent) : sent'[i] = sent[i]
      /\ sent'[Len(sent) + 1] = m
  BY AppendProperties, LenProperties
<1>2. PICK A : A = {i \in DOMAIN sent : First(sent[i]) /\ sent[i].no = n} OBVIOUS
<1>3. PICK B : B = {i \in DOMAIN sent' : First(sent'[i]) /\ sent'[i].no = n} OBVIOUS
<1>4. AnswersTo(n) = Cardinality(A) /\ AnswersTo(n)' = Cardinality(B)
  BY <1>2, <1>3 DEF AnswersTo
<1>5. PICK k : k = Len(sent) + 1 OBVIOUS
<1>6. k \notin A BY <1>1, <1>2, <1>5
<1>7. First(m) /\ m.no = n => B = A \cup {k} BY <1>1, <1>2, <1>3, <1>5
<1>8. ~(First(m) /\ m.no = n) => B = A BY <1>1, <1>2, <1>3, <1>5
<1>9. IsFiniteSet(A)
  <2>1. 1 \in Int /\ Len(sent) \in Int BY <1>1
  <2>2. IsFiniteSet(1 .. Len(sent)) BY <2>1, FS_Interval
  <2>3. A \subseteq 1 .. Len(sent) BY <1>1, <1>2
  <2> QED BY <2>2, <2>3, FS_Subset
<1>10. Cardinality(A \cup {k}) = Cardinality(A) + 1 BY <1>6, <1>9, FS_AddElement
<1> QED BY <1>4, <1>7, <1>8, <1>10

(* Steps that move no first reply. *)
LEMMA LineKept ==
  ASSUME Line, UNCHANGED <<sent, heard, handling, code, msgOutputQueue>>,
         Has(strand') <=> Has(strand), FirstPosts(strand') = FirstPosts(strand),
         RisingPosts(strand')
  PROVE  Line' /\ HeardNos' = HeardNos
<1>1. /\ InSocket' = InSocket /\ InPosts' = InPosts /\ InHand' = InHand
      /\ HeardNos' = HeardNos
  BY DEF InSocket, InPosts, InHand, HeardNos
<1>2. Unsent(msgOutputQueue, Has(strand))' = Unsent(msgOutputQueue, Has(strand))
  BY DEF Unsent
<1>3. InQueue' = InQueue BY <1>2 DEF InQueue
<1> QED BY <1>1, <1>2, <1>3 DEF Line, InLine

LEMMA OnceKept ==
  ASSUME OnceEach, sent' = sent PROVE OnceEach'
BY DEF OnceEach, AnswersTo, InSocket

(* What is heard in r is heard in q. *)
Fewer(r, q) == \A i \in DOMAIN r : r[i].op = "heard" => \E j \in DOMAIN q : q[j] = r[i]

LEMMA FewerHeard ==
  ASSUME NEW q \in Seq(Handlers), NEW h \in Handlers
  PROVE  /\ q # <<>> => Fewer(Tail(q), q)
         /\ h.op # "heard" => Fewer(Append(q, h), q)
<1>1. q # <<>> => Fewer(Tail(q), q) BY HeardPopped DEF Fewer
<1>2. h.op # "heard" => Fewer(Append(q, h), q) BY HeardPushed DEF Fewer
<1> QED BY <1>1, <1>2

LEMMA ArrivingKept ==
  ASSUME Arriving, HeardNos' = HeardNos, UNCHANGED <<lines, lastNo>>, Fewer(strand', strand)
  PROVE  Arriving'
<1>1. /\ \A k \in HeardNos' : k <= lastNo'
      /\ \A i \in DOMAIN lines' : Younger(lines'[i].no, HeardNos', lastNo')
      /\ \A i, j \in DOMAIN lines' : i < j => lines'[i].no < lines'[j].no
  BY DEF Arriving
<1>2. ASSUME NEW i \in DOMAIN strand', strand'[i].op = "heard"
      PROVE  /\ Younger(strand'[i].line.no, HeardNos', lastNo')
             /\ \A j \in DOMAIN lines' : strand'[i].line.no < lines'[j].no
  <2>1. PICK j \in DOMAIN strand : strand[j] = strand'[i] BY <1>2 DEF Fewer
  <2>2. /\ Younger(strand[j].line.no, HeardNos, lastNo)
        /\ \A k \in DOMAIN lines : strand[j].line.no < lines[k].no
    BY <1>2, <2>1 DEF Arriving
  <2> QED BY <2>1, <2>2
<1> QED BY <1>1, <1>2 DEF Arriving

LEMMA InitAInv == Init => AInv
<1> SUFFICES ASSUME Init PROVE AInv OBVIOUS
<1>1. PICK p \in Handlers : p = Post(Greeting) /\ p.op = "post" /\ p.msg = Greeting
  BY Tables DEF Post
<1>2. /\ strand = <<p>> /\ lines = <<>> /\ handling = NoLine /\ msgOutputQueue = <<>>
      /\ sent = <<>> /\ heard = <<>> /\ lastNo = 0
  BY <1>1 DEF Init, ChannelInit
<1>3. DOMAIN strand = {1} /\ strand[1] = p /\ ~IsFirst(p)
  BY <1>1, <1>2, FirstReplies DEF IsFirst
<1>4. ~Has(strand) /\ InPosts = {} /\ RisingPosts(strand)
  BY <1>1, <1>3 DEF Has, InPosts, FirstPosts, RisingPosts
<1>5. DOMAIN <<>> = {} OBVIOUS
<1>6. Firsts(<<>>) = {} /\ Rising(<<>>) BY <1>5 DEF Firsts, Rising
<1>7. Unsent(msgOutputQueue, Has(strand)) = <<>> BY <1>2, <1>4 DEF Unsent
<1>8. InSocket = {} /\ InQueue = {} BY <1>2, <1>6, <1>7 DEF InSocket, InQueue
<1>9. HeardNos = {} /\ InHand = {} BY <1>2, <1>5 DEF HeardNos, InHand
<1>10. Line
  <2>1. \A i, j \in DOMAIN heard : i < j => heard[i] < heard[j] BY <1>2, <1>5
  <2>2. InLine(InSocket, InQueue, InPosts, InHand)
    BY <1>4, <1>8, <1>9 DEF InLine, Before
  <2> QED BY <1>2, <1>4, <1>6, <1>7, <1>8, <1>9, <2>1, <2>2 DEF Line
<1>11. OnceEach
  <2>1. ASSUME NEW n PROVE AnswersTo(n) = 0
    <3>1. {i \in DOMAIN sent : First(sent[i]) /\ sent[i].no = n} = {} BY <1>2, <1>5
    <3> QED BY <3>1, FS_EmptySet DEF AnswersTo
  <2> QED BY <1>8, <2>1 DEF OnceEach
<1>12. Arriving
  <2>1. \A i \in DOMAIN strand : strand[i].op # "heard" BY <1>1, <1>3
  <2> QED BY <1>2, <1>5, <1>9, <2>1 DEF Arriving
<1> QED BY <1>10, <1>11, <1>12 DEF AInv

-----------------------------------------------------------------------------
(* A reply goes from the strand to the queue, from the queue to the socket *)
(* and, once written, out of the queue.                                    *)

LEMMA PostReplyLine ==
  ASSUME TypeOK, Chain, AInv, PostReply, UNCHANGED clientVars
  PROVE  AInv'
<1>1. PICK q : q = msgOutputQueue OBVIOUS
<1>2. PICK h : h = Head(strand) OBVIOUS
<1>3. PICK m : m = h.msg OBVIOUS
<1>4. /\ strand # <<>> /\ h.op = "post" /\ strand' = Tail(strand)
      /\ msgOutputQueue' = Append(q, m)
      /\ UNCHANGED <<lines, heard, handling, code, sent, lastNo>>
  BY <1>1, <1>2, <1>3 DEF PostReply, Run, readVars, clientVars
<1>5. strand \in Seq(Handlers) /\ q \in Seq(Replies) BY <1>1 DEF TypeOK, ChannelTypeOK
<1>6. h \in Handlers /\ m \in Replies
  <2>1. h \in Handlers BY <1>2, <1>4, <1>5, PostsPopped
  <2> QED BY <1>3, <2>1 DEF Handlers
<1>7. Has(strand') <=> Has(strand) BY <1>2, <1>4, <1>5, Popped
<1>8. Line /\ OnceEach /\ Arriving BY DEF AInv
<1>9. PICK u \in Seq(Replies) :
        /\ u = Unsent(q, Has(strand))
        /\ Unsent(Append(q, m), Has(strand')) = Append(u, m)
  <2>1. CASE Has(strand)
    <3>1. q # <<>> BY <1>1, <2>1 DEF Chain
    <3>2. Tail(q) \in Seq(Replies) BY <1>5, <3>1, HeadTailProperties
    <3>3. Tail(Append(q, m)) = Append(Tail(q), m)
      <4>1. /\ Append(q, m) \in Seq(Replies) /\ Len(Append(q, m)) = Len(q) + 1
            /\ \A i \in 1 .. Len(q) : Append(q, m)[i] = q[i]
            /\ Append(q, m)[Len(q) + 1] = m
        BY <1>5, <1>6, AppendProperties
      <4>2. Len(q) \in Nat /\ Len(q) > 0 BY <1>5, <3>1, LenProperties, EmptySeq
      <4>3. Append(q, m) # <<>> BY <4>1, <4>2
      <4>4. /\ Tail(Append(q, m)) \in Seq(Replies) /\ Len(Tail(Append(q, m))) = Len(q)
            /\ \A i \in 1 .. Len(q) : Tail(Append(q, m))[i] = Append(q, m)[i + 1]
        <5>1. /\ Tail(Append(q, m)) \in Seq(Replies)
              /\ Len(Tail(Append(q, m))) = Len(Append(q, m)) - 1
              /\ \A i \in 1 .. Len(Tail(Append(q, m))) :
                   Tail(Append(q, m))[i] = Append(q, m)[i + 1]
          BY <4>1, <4>3, HeadTailProperties
        <5>2. Len(Append(q, m)) - 1 = Len(q) BY <4>1, <4>2
        <5> QED BY <5>1, <5>2
      <4>5. /\ Len(Tail(q)) = Len(q) - 1
            /\ \A i \in 1 .. (Len(q) - 1) : Tail(q)[i] = q[i + 1]
        <5>1. /\ Len(Tail(q)) = Len(q) - 1
              /\ \A i \in 1 .. Len(Tail(q)) : Tail(q)[i] = q[i + 1]
          BY <1>5, <3>1, HeadTailProperties
        <5> QED BY <5>1
      <4>6. /\ Append(Tail(q), m) \in Seq(Replies)
            /\ Len(Append(Tail(q), m)) = Len(Tail(q)) + 1
            /\ \A i \in 1 .. Len(Tail(q)) : Append(Tail(q), m)[i] = Tail(q)[i]
            /\ Append(Tail(q), m)[Len(Tail(q)) + 1] = m
        BY <1>6, <3>2, AppendProperties
      <4>7. ASSUME NEW i \in 1 .. Len(q)
            PROVE  Tail(Append(q, m))[i] = Append(Tail(q), m)[i]
        <5>1. CASE i = Len(q)
          <6>1. Tail(Append(q, m))[i] = m BY <4>1, <4>2, <4>4, <5>1
          <6>2. Append(Tail(q), m)[i] = m BY <4>2, <4>5, <4>6, <5>1
          <6> QED BY <6>1, <6>2
        <5>2. CASE i # Len(q)
          <6>1. i \in 1 .. (Len(q) - 1) /\ i + 1 \in 1 .. Len(q) BY <4>2, <5>2
          <6> QED BY <4>1, <4>4, <4>5, <4>6, <6>1
        <5> QED BY <5>1, <5>2
      <4>8. Len(Append(Tail(q), m)) = Len(q) BY <4>2, <4>5, <4>6
      <4>9. ASSUME NEW x \in Seq(Replies), NEW y \in Seq(Replies), Len(x) = Len(y),
                   \A i \in 1 .. Len(x) : x[i] = y[i]
            PROVE  x = y
        BY <4>9
      <4> QED BY <4>4, <4>6, <4>7, <4>8, <4>9
    <3> QED BY <1>7, <2>1, <3>2, <3>3 DEF Unsent
  <2>2. CASE ~Has(strand) BY <1>5, <1>7, <2>2 DEF Unsent
  <2> QED BY <2>1, <2>2
<1>10. /\ InQueue = Firsts(u) /\ InQueue' = Firsts(Append(u, m))
       /\ Unsent(msgOutputQueue, Has(strand)) = u
       /\ Unsent(msgOutputQueue, Has(strand))' = Append(u, m)
  BY <1>1, <1>4, <1>9 DEF InQueue
<1>11. /\ InSocket' = InSocket /\ InHand' = InHand /\ HeardNos' = HeardNos
  BY <1>4 DEF InSocket, InHand, HeardNos
<1>12. InPosts' = FirstPosts(Tail(strand)) /\ InPosts = FirstPosts(strand)
  BY <1>4 DEF InPosts
<1>13. /\ RisingPosts(strand') /\ RisingPosts(strand) /\ Rising(u)
       /\ InLine(InSocket, InQueue, InPosts, InHand)
       /\ HeardNos = InSocket \cup InQueue \cup InPosts \cup InHand
  BY <1>4, <1>5, <1>8, <1>10, PostsPopped DEF Line
<1>14. IsFirst(h) <=> First(m) BY <1>3, <1>4 DEF IsFirst
<1>15. CASE First(m)
  <2>1. /\ InPosts = InPosts' \cup {m.no} /\ \A n \in InPosts' : m.no < n
    BY <1>2, <1>3, <1>4, <1>5, <1>12, <1>13, <1>14, <1>15, PostsPopped
  <2>2. \A n \in Firsts(u) : n < m.no BY <1>10, <1>13, <2>1 DEF InLine, Before
  <2>3. InQueue' = InQueue \cup {m.no} /\ Rising(Append(u, m))
    BY <1>6, <1>9, <1>10, <1>13, <1>15, <2>2, FirstsAppended
  <2>4. InLine(InSocket', InQueue', InPosts', InHand')
    BY <1>11, <1>13, <2>1, <2>3 DEF InLine, Before
  <2>5. HeardNos' = InSocket' \cup InQueue' \cup InPosts' \cup InHand'
    BY <1>11, <1>13, <2>1, <2>3
  <2>6. Line' BY <1>4, <1>8, <1>10, <1>13, <2>3, <2>4, <2>5 DEF Line
  <2> QED BY <1>4, <1>5, <1>6, <1>8, <1>11, <2>6, OnceKept, ArrivingKept, FewerHeard DEF AInv
<1>16. CASE ~First(m)
  <2>1. InPosts' = InPosts BY <1>2, <1>4, <1>5, <1>12, <1>14, <1>16, PostsPopped
  <2>2. InQueue' = InQueue /\ Rising(Append(u, m))
    BY <1>6, <1>9, <1>10, <1>13, <1>16, FirstsAppended
  <2>3. Line' BY <1>4, <1>8, <1>10, <1>11, <1>13, <2>1, <2>2 DEF Line
  <2> QED BY <1>4, <1>5, <1>6, <1>8, <1>11, <2>3, OnceKept, ArrivingKept, FewerHeard DEF AInv
<1> QED BY <1>15, <1>16

LEMMA WriteReplyLine ==
  ASSUME TypeOK, Chain, AInv, WriteReply, UNCHANGED clientVars
  PROVE  AInv'
<1>1. PICK q : q = msgOutputQueue OBVIOUS
<1>2. PICK m : m = Head(q) OBVIOUS
<1>3. PICK h \in Handlers : h = Written /\ h.op = "written" BY Tables
<1>4. /\ writes > 0 /\ sent' = Append(sent, m) /\ strand' = Append(strand, h)
      /\ UNCHANGED <<lines, heard, handling, code, msgOutputQueue, lastNo>>
  BY <1>1, <1>2, <1>3 DEF WriteReply, readVars, clientVars
<1>5. /\ strand \in Seq(Handlers) /\ q \in Seq(Replies) /\ sent \in Seq(Replies)
  BY <1>1 DEF TypeOK, ChannelTypeOK
<1>6. ~Has(strand) /\ Has(strand') /\ q # <<>>
  <2>1. ~Has(strand) /\ q # <<>>
    BY <1>1, <1>4 DEF Chain, TypeOK, ChannelTypeOK
  <2> QED BY <1>3, <1>4, <1>5, <2>1, Pushed
<1>7. m \in Replies /\ Tail(q) \in Seq(Replies) BY <1>2, <1>5, <1>6, FirstsPopped
<1>8. Line /\ OnceEach /\ Arriving BY DEF AInv
<1>9. /\ Unsent(msgOutputQueue, Has(strand)) = q
      /\ Unsent(msgOutputQueue, Has(strand))' = Tail(q)
      /\ InQueue = Firsts(q) /\ InQueue' = Firsts(Tail(q))
  BY <1>1, <1>4, <1>6 DEF Unsent, InQueue
<1>10. /\ InHand' = InHand /\ HeardNos' = HeardNos BY <1>4 DEF InHand, HeardNos
<1>11. /\ ~IsFirst(h) BY <1>3 DEF IsFirst
<1>12. InPosts' = InPosts /\ RisingPosts(strand')
  BY <1>3, <1>4, <1>5, <1>8, <1>11, PostsAppended DEF InPosts, Line
<1>13. /\ Rising(q) /\ Rising(Tail(q))
       /\ InLine(InSocket, InQueue, InPosts, InHand)
       /\ HeardNos = InSocket \cup InQueue \cup InPosts \cup InHand
  <2>1. Rising(q) BY <1>8, <1>9 DEF Line
  <2> QED BY <1>5, <1>6, <1>8, <2>1, FirstsPopped DEF Line
<1>14. Arriving'
  BY <1>3, <1>4, <1>5, <1>8, <1>10, FewerHeard, ArrivingKept
<1>15. CASE First(m)
  <2>1. /\ InQueue = InQueue' \cup {m.no} /\ \A n \in InQueue' : m.no < n
    BY <1>2, <1>5, <1>6, <1>9, <1>13, <1>15, FirstsPopped
  <2>2. InSocket' = InSocket \cup {m.no}
    BY <1>4, <1>5, <1>7, <1>15, FirstsAppended DEF InSocket
  <2>3. InLine(InSocket', InQueue', InPosts', InHand')
    BY <1>10, <1>12, <1>13, <2>1, <2>2 DEF InLine, Before
  <2>4. HeardNos' = InSocket' \cup InQueue' \cup InPosts' \cup InHand'
    BY <1>10, <1>12, <1>13, <2>1, <2>2
  <2>5. Line' BY <1>4, <1>8, <1>9, <1>12, <1>13, <2>3, <2>4 DEF Line
  <2>6. m.no \notin InSocket
    <3>1. m.no < m.no => FALSE
      <4>1. m.no \in Nat BY <1>7, ControlAssumption DEF Replies
      <4> QED BY <4>1
    <3> QED BY <1>13, <2>1, <3>1 DEF InLine, Before
  <2>7. OnceEach'
    <3> SUFFICES ASSUME NEW n \in Numbers
                 PROVE  AnswersTo(n)' = IF n \in InSocket' THEN 1 ELSE 0
      BY DEF OnceEach
    <3>1. AnswersTo(n)' = IF First(m) /\ m.no = n THEN AnswersTo(n) + 1 ELSE AnswersTo(n)
      BY <1>4, <1>5, <1>7, AnswerCounted
    <3>2. AnswersTo(n) = IF n \in InSocket THEN 1 ELSE 0 BY <1>8 DEF OnceEach
    <3>3. CASE m.no = n BY <1>15, <2>2, <2>6, <3>1, <3>2, <3>3
    <3>4. CASE m.no # n BY <2>2, <3>1, <3>2, <3>4
    <3> QED BY <3>3, <3>4
  <2> QED BY <1>14, <2>5, <2>7 DEF AInv
<1>16. CASE ~First(m)
  <2>1. InQueue' = InQueue BY <1>2, <1>5, <1>6, <1>9, <1>16, FirstsPopped
  <2>2. InSocket' = InSocket BY <1>4, <1>5, <1>7, <1>16, FirstsAppended DEF InSocket
  <2>3. Line' BY <1>4, <1>8, <1>9, <1>10, <1>12, <1>13, <2>1, <2>2 DEF Line
  <2>4. OnceEach'
    <3> SUFFICES ASSUME NEW n \in Numbers
                 PROVE  AnswersTo(n)' = IF n \in InSocket' THEN 1 ELSE 0
      BY DEF OnceEach
    <3>1. AnswersTo(n)' = IF First(m) /\ m.no = n THEN AnswersTo(n) + 1 ELSE AnswersTo(n)
      BY <1>4, <1>5, <1>7, AnswerCounted
    <3>2. AnswersTo(n) = IF n \in InSocket THEN 1 ELSE 0 BY <1>8 DEF OnceEach
    <3> QED BY <1>16, <2>2, <3>1, <3>2
  <2> QED BY <1>14, <2>3, <2>4 DEF AInv
<1> QED BY <1>15, <1>16

LEMMA WriteDoneLine ==
  ASSUME TypeOK, Chain, AInv, WriteDone, UNCHANGED clientVars
  PROVE  AInv'
<1>1. PICK q : q = msgOutputQueue OBVIOUS
<1>2. PICK h : h = Head(strand) OBVIOUS
<1>3. /\ strand # <<>> /\ h.op = "written" /\ strand' = Tail(strand)
      /\ msgOutputQueue' = Tail(q)
      /\ UNCHANGED <<lines, heard, handling, code, sent, lastNo>>
  BY <1>1, <1>2 DEF WriteDone, Run, readVars, clientVars
<1>4. strand \in Seq(Handlers) BY DEF TypeOK, ChannelTypeOK
<1>5. Has(strand) /\ ~Has(strand') BY <1>2, <1>3, <1>4, Popped DEF Chain
<1>6. Line /\ OnceEach /\ Arriving BY DEF AInv
<1>7. /\ Unsent(msgOutputQueue, Has(strand)) = Tail(q)
      /\ Unsent(msgOutputQueue, Has(strand))' = Tail(q)
  BY <1>1, <1>3, <1>5 DEF Unsent
<1>8. InQueue' = InQueue BY <1>7 DEF InQueue
<1>9. InSocket' = InSocket /\ InHand' = InHand /\ HeardNos' = HeardNos
  BY <1>3 DEF InSocket, InHand, HeardNos
<1>10. ~IsFirst(h) BY <1>3 DEF IsFirst
<1>11. InPosts' = InPosts /\ RisingPosts(strand')
  BY <1>2, <1>3, <1>4, <1>6, <1>10, PostsPopped DEF InPosts, Line
<1>12. Line' BY <1>3, <1>6, <1>7, <1>8, <1>9, <1>11 DEF Line
<1>13. Fewer(strand', strand)
  <2>1. h \in Handlers BY <1>2, <1>3, <1>4, Popped
  <2> QED BY <1>3, <1>4, <2>1, FewerHeard
<1> QED BY <1>3, <1>6, <1>9, <1>12, <1>13, OnceKept, ArrivingKept DEF AInv

-----------------------------------------------------------------------------
(* A command is heard, and its reply posted.                               *)

LEMMA FinishLine ==
  ASSUME TypeOK, AInv, FinishCommand, UNCHANGED clientVars
  PROVE  AInv'
<1>1. PICK m : m = Reply(code, handling.no) OBVIOUS
<1>2. /\ handling # NoLine /\ handling' = NoLine /\ strand' = Append(strand, Post(m))
      /\ UNCHANGED <<lines, code, heard, msgOutputQueue, sent, lastNo>>
  BY <1>1 DEF FinishCommand, sendFTPMsg, writeVars, clientVars
<1>3. Line /\ OnceEach /\ Arriving BY DEF AInv
<1>4. strand \in Seq(Handlers) BY DEF TypeOK, ChannelTypeOK
<1>5. m \in Replies /\ m.no = handling.no
  <2>1. handling \in Lines BY <1>2 DEF TypeOK, ChannelTypeOK
  <2>2. handling.no \in 0 .. MaxCommands BY <2>1, ControlAssumption DEF Lines, Numbers
  <2> QED BY <1>1, <2>2 DEF Reply, Replies, TypeOK, ChannelTypeOK
<1>6. First(m) BY <1>1, <1>2, <1>3 DEF Line
<1>7. PICK h \in Handlers : h = Post(m) /\ h.op = "post" /\ h.msg = m
  BY <1>5, Tables DEF Post
<1>8. IsFirst(h) BY <1>6, <1>7 DEF IsFirst
<1>9. Has(strand') <=> Has(strand) BY <1>2, <1>4, <1>7, Pushed
<1>10. /\ Unsent(msgOutputQueue, Has(strand))' = Unsent(msgOutputQueue, Has(strand))
       /\ InQueue' = InQueue
  BY <1>2, <1>9 DEF Unsent, InQueue
<1>11. /\ InSocket' = InSocket /\ HeardNos' = HeardNos
       /\ InHand = {m.no} /\ InHand' = {}
  BY <1>2, <1>5 DEF InSocket, InHand, HeardNos
<1>12. /\ InLine(InSocket, InQueue, InPosts, InHand)
       /\ HeardNos = InSocket \cup InQueue \cup InPosts \cup InHand
       /\ RisingPosts(strand)
  BY <1>3 DEF Line
<1>13. \A n \in FirstPosts(strand) : n < m.no
  BY <1>11, <1>12 DEF InLine, Before, InPosts
<1>14. RisingPosts(strand') /\ InPosts' = InPosts \cup {m.no}
  BY <1>2, <1>4, <1>7, <1>8, <1>12, <1>13, PostsAppended DEF InPosts
<1>15. InLine(InSocket', InQueue', InPosts', InHand')
  BY <1>10, <1>11, <1>12, <1>14 DEF InLine, Before
<1>16. HeardNos' = InSocket' \cup InQueue' \cup InPosts' \cup InHand'
  BY <1>10, <1>11, <1>12, <1>14
<1>17. Line' BY <1>2, <1>3, <1>10, <1>14, <1>15, <1>16 DEF Line
<1>18. Fewer(strand', strand) BY <1>2, <1>4, <1>7, FewerHeard
<1> QED BY <1>2, <1>3, <1>11, <1>17, <1>18, OnceKept, ArrivingKept DEF AInv

LEMMA HandleLine ==
  ASSUME TypeOK, Extra, Turn, AInv, HandleCommand, UNCHANGED clientVars
  PROVE  /\ AInv'
         /\ \E c \in Numbers :
              /\ \A i \in DOMAIN heard : heard[i] # c
              /\ heard' = Append(heard, c)
<1>1. PICK h : h = Head(strand) OBVIOUS
<1>2. PICK line : line = h.line OBVIOUS
<1>3. /\ handling = NoLine /\ handling' = line /\ heard' = Append(heard, line.no)
      /\ strand # <<>> /\ h.op = "heard" /\ strand' = Tail(strand)
      /\ UNCHANGED <<lines, msgOutputQueue, sent, lastNo>>
  BY <1>1, <1>2 DEF HandleCommand, Run, writeVars, clientVars
<1>4. /\ strand \in Seq(Handlers) /\ heard \in Seq(Numbers) /\ Len(heard) \in Nat
      /\ lines \in Seq(Lines)
  BY LenProperties DEF TypeOK, ChannelTypeOK
<1>5. /\ h \in Handlers /\ 1 \in DOMAIN strand /\ h = strand[1]
      /\ ~Hears(strand') /\ (Has(strand') <=> Has(strand))
  BY <1>1, <1>3, <1>4, HeardPopped, Popped DEF Turn
<1>6. line \in Lines /\ line # NoLine
  <2>1. line \in Lines BY <1>2, <1>3, <1>5 DEF Extra, HeardLines
  <2> QED BY <2>1, LineAssumption
<1>7. line.no \in Numbers /\ line.no \in 0 .. MaxCommands
  BY <1>6, ControlAssumption DEF Lines, Numbers
<1>8. First(Reply(code', handling'.no))
  <2>1. code' \in Codes /\ (code' = NOT_LOGGED_IN \/ \E v \in Verbs : code' = Accepted[v])
    <3>1. code' = NOT_LOGGED_IN \/ code' = Accepted[line.verb]
      BY <1>1, <1>2 DEF HandleCommand
    <3>2. line.verb \in Verbs BY <1>6 DEF Lines
    <3> QED BY <3>1, <3>2, Tables
  <2> QED BY <1>3, <1>7, <2>1, FirstReplies
<1>9. Line /\ OnceEach /\ Arriving BY DEF AInv
<1>10. /\ Younger(line.no, HeardNos, lastNo)
       /\ \A j \in DOMAIN lines : line.no < lines[j].no
  BY <1>2, <1>3, <1>5, <1>9 DEF Arriving
<1>11. /\ DOMAIN heard = 1 .. Len(heard) /\ DOMAIN heard' = 1 .. (Len(heard) + 1)
       /\ \A i \in 1 .. Len(heard) : heard'[i] = heard[i]
       /\ heard'[Len(heard) + 1] = line.no
  BY <1>3, <1>4, <1>7, AppendProperties, LenProperties
<1>12. \A i \in DOMAIN heard : heard[i] \in HeardNos
  <2>1. ASSUME NEW i \in DOMAIN heard PROVE heard[i] \in HeardNos
    <3>1. heard[i] \in Numbers BY <1>4, ElementOfSeq
    <3> QED BY <3>1, ControlAssumption DEF Numbers, HeardNos
  <2> QED BY <2>1
<1>13. HeardNos' = HeardNos \cup {line.no} BY <1>4, <1>7, <1>11 DEF HeardNos
<1>14. /\ Unsent(msgOutputQueue, Has(strand))' = Unsent(msgOutputQueue, Has(strand))
       /\ InQueue' = InQueue /\ InSocket' = InSocket
  BY <1>3, <1>5 DEF Unsent, InQueue, InSocket
<1>15. InHand = {} /\ InHand' = {line.no} BY <1>3, <1>6 DEF InHand
<1>16. ~IsFirst(h) BY <1>3 DEF IsFirst
<1>17. InPosts' = InPosts /\ RisingPosts(strand')
  BY <1>1, <1>3, <1>4, <1>9, <1>16, PostsPopped DEF InPosts, Line
<1>18. /\ InLine(InSocket, InQueue, InPosts, InHand)
       /\ HeardNos = InSocket \cup InQueue \cup InPosts \cup InHand
  BY <1>9 DEF Line
<1>19. InLine(InSocket', InQueue', InPosts', InHand')
  BY <1>10, <1>14, <1>15, <1>17, <1>18 DEF InLine, Before, Younger
<1>20. HeardNos' = InSocket' \cup InQueue' \cup InPosts' \cup InHand'
  BY <1>13, <1>14, <1>15, <1>17, <1>18
<1>21. ASSUME NEW i \in DOMAIN heard', NEW j \in DOMAIN heard', i < j
       PROVE  heard'[i] < heard'[j]
  <2>1. i \in DOMAIN heard BY <1>4, <1>11, <1>21
  <2>2. CASE j \in DOMAIN heard BY <1>9, <1>11, <1>21, <2>1, <2>2 DEF Line
  <2>3. CASE j = Len(heard) + 1 BY <1>10, <1>11, <1>12, <2>1, <2>3 DEF Younger
  <2> QED BY <1>4, <1>11, <2>2, <2>3
<1>22. Line' BY <1>8, <1>9, <1>14, <1>17, <1>19, <1>20, <1>21 DEF Line
<1>23. Arriving'
  <2>1. \A k \in HeardNos' : k <= lastNo BY <1>9, <1>10, <1>13 DEF Arriving, Younger
  <2>2. ASSUME NEW i \in DOMAIN lines PROVE Younger(lines[i].no, HeardNos', lastNo)
    BY <1>9, <1>10, <1>13 DEF Arriving, Younger
  <2>3. \A i \in DOMAIN strand' : strand'[i].op # "heard" BY <1>5 DEF Hears
  <2> QED BY <1>3, <1>9, <2>1, <2>2, <2>3 DEF Arriving
<1>24. \A i \in DOMAIN heard : heard[i] # line.no
  <2>1. line.no < line.no => FALSE BY <1>7, ControlAssumption DEF Numbers
  <2> QED BY <1>10, <1>12, <2>1 DEF Younger
<1> QED BY <1>3, <1>7, <1>9, <1>22, <1>23, <1>24, OnceKept DEF AInv

LEMMA ReadLinesLine ==
  ASSUME TypeOK, AInv, ReadLines, UNCHANGED clientVars
  PROVE  AInv'
<1>1. PICK n \in 1 .. Len(lines) : lines' = SubSeq(lines, n + 1, Len(lines)) BY DEF ReadLines
<1>2. PICK line : line = Head(lines) OBVIOUS
<1>3. /\ strand' = Append(strand, Heard(line))
      /\ UNCHANGED <<handling, code, heard, msgOutputQueue, sent, lastNo>>
  BY <1>2 DEF ReadLines, writeVars, clientVars
<1>4. /\ strand \in Seq(Handlers) /\ lines \in Seq(Lines) /\ Len(lines) \in Nat
      /\ DOMAIN lines = 1 .. Len(lines)
  BY LenProperties DEF TypeOK, ChannelTypeOK
<1>5. /\ 1 \in DOMAIN lines /\ line = lines[1] /\ line \in Lines
  <2>1. lines # <<>> BY <1>1, <1>4
  <2> QED BY <1>2, <1>4, <2>1, HeadTailProperties, EmptySeq, LenProperties
<1>6. PICK h \in Handlers : h = Heard(line) /\ h.op = "heard" /\ h.line = line
  BY <1>5, Tables
<1>7. ASSUME NEW i \in DOMAIN lines'
      PROVE  /\ i \in Nat /\ i + n \in DOMAIN lines /\ 1 < i + n
             /\ lines'[i] = lines[i + n]
  <2>1. n + 1 \in Int /\ Len(lines) \in Int BY <1>4
  <2>2. \A k \in (n + 1) .. Len(lines) : lines[k] \in Lines
    BY <1>4, ElementOfSeq
  <2>3. /\ lines' \in Seq(Lines)
        /\ Len(lines') = IF n + 1 <= Len(lines) THEN Len(lines) - (n + 1) + 1 ELSE 0
        /\ \A k \in 1 .. (Len(lines) - (n + 1) + 1) : lines'[k] = lines[(n + 1) + k - 1]
    BY <1>1, <2>1, <2>2, SubSeqProperties
  <2>4. DOMAIN lines' = 1 .. Len(lines') BY <2>3, LenProperties
  <2>5. i \in 1 .. (Len(lines) - (n + 1) + 1) /\ (n + 1) + i - 1 = i + n
    <3>1. CASE n + 1 <= Len(lines) BY <1>4, <1>7, <2>3, <2>4, <3>1
    <3>2. CASE ~(n + 1 <= Len(lines)) BY <1>4, <1>7, <2>3, <2>4, <3>2
    <3> QED BY <3>1, <3>2
  <2>6. lines'[i] = lines[i + n] BY <2>3, <2>5
  <2> QED BY <1>4, <2>5, <2>6
<1>8. Line /\ OnceEach /\ Arriving BY DEF AInv
<1>9. Line' /\ HeardNos' = HeardNos
  <2>1. ~IsFirst(h) /\ h.op # "written" BY <1>6 DEF IsFirst
  <2>2. Has(strand') <=> Has(strand) BY <1>3, <1>4, <1>6, <2>1, Pushed
  <2>3. FirstPosts(strand') = FirstPosts(strand) /\ RisingPosts(strand')
    BY <1>3, <1>4, <1>6, <1>8, <2>1, PostsAppended DEF Line
  <2> QED BY <1>3, <1>8, <2>2, <2>3, LineKept
<1>10. /\ \A i \in DOMAIN lines : Younger(lines[i].no, HeardNos, lastNo)
       /\ \A i, j \in DOMAIN lines : i < j => lines[i].no < lines[j].no
  BY <1>8 DEF Arriving
<1>11. ASSUME NEW i \in DOMAIN lines'
       PROVE  Younger(lines'[i].no, HeardNos, lastNo) /\ line.no < lines'[i].no
  BY <1>5, <1>7, <1>10
<1>12. ASSUME NEW i \in DOMAIN lines', NEW j \in DOMAIN lines', i < j
       PROVE  lines'[i].no < lines'[j].no
  <2>1. i + n < j + n BY <1>7, <1>12
  <2> QED BY <1>7, <1>10, <2>1
<1>13. ASSUME NEW i \in DOMAIN strand', strand'[i].op = "heard"
       PROVE  /\ Younger(strand'[i].line.no, HeardNos, lastNo)
              /\ \A j \in DOMAIN lines' : strand'[i].line.no < lines'[j].no
  <2>1. (i \in DOMAIN strand /\ strand'[i] = strand[i]) \/ strand'[i] = h
    BY <1>3, <1>4, <1>6, <1>13, HeardPushed
  <2>2. CASE strand'[i] = h BY <1>5, <1>6, <1>10, <1>11, <2>2
  <2>3. CASE i \in DOMAIN strand /\ strand'[i] = strand[i]
    <3>1. /\ Younger(strand[i].line.no, HeardNos, lastNo)
          /\ \A j \in DOMAIN lines : strand[i].line.no < lines[j].no
      BY <1>8, <1>13, <2>3 DEF Arriving
    <3>2. \A j \in DOMAIN lines' : strand[i].line.no < lines'[j].no BY <1>7, <3>1
    <3> QED BY <2>3, <3>1, <3>2
  <2> QED BY <2>1, <2>2, <2>3
<1>14. Arriving' BY <1>3, <1>8, <1>9, <1>11, <1>12, <1>13 DEF Arriving
<1> QED BY <1>3, <1>8, <1>9, <1>14, OnceKept DEF AInv

(* The replies that end transfers are in nobody's way. *)
LEMMA TransferLine ==
  ASSUME TypeOK, AInv, UNCHANGED clientVars, NEW t \in transfers, Accept(t) \/ EndTransfer(t)
  PROVE  AInv'
<1>1. UNCHANGED <<lines, handling, code, heard, msgOutputQueue, sent, lastNo>>
  BY DEF Accept, EndTransfer, AcceptFails, Complete, SendFails, clientVars, readVars, writeVars
<1>2. PICK c \in {CLOSING_DATA_CONNECTION, TRANSFER_ABORTED} :
        strand' = strand \/ strand' = Append(strand, Post(Reply(c, t.no)))
  BY DEF Accept, EndTransfer, AcceptFails, Complete, SendFails, sendFTPMsg
<1>3. strand \in Seq(Handlers) BY DEF TypeOK, ChannelTypeOK
<1>4. Reply(c, t.no) \in Replies
  <2>1. t.no \in 0 .. MaxCommands
    BY ControlAssumption DEF TypeOK, ChannelTypeOK, Transfers, Numbers
  <2> QED BY <1>2, <2>1 DEF Reply, Replies, Codes
<1>5. PICK h \in Handlers : h = Post(Reply(c, t.no)) /\ h.op = "post" /\ h.msg = Reply(c, t.no)
  BY <1>4, Tables DEF Post
<1>6. ~IsFirst(h) BY <1>2, <1>5, FirstReplies DEF IsFirst
<1>7. Line /\ OnceEach /\ Arriving BY DEF AInv
<1>8. /\ Has(strand') <=> Has(strand)
      /\ FirstPosts(strand') = FirstPosts(strand) /\ RisingPosts(strand')
      /\ Fewer(strand', strand)
  <2>1. CASE strand' = strand BY <1>7, <2>1 DEF Line, Fewer
  <2>2. CASE strand' = Append(strand, h)
    <3>1. Has(strand') <=> Has(strand) BY <1>3, <1>5, <2>2, Pushed
    <3>2. FirstPosts(strand') = FirstPosts(strand) /\ RisingPosts(strand')
      BY <1>3, <1>6, <1>7, <2>2, PostsAppended DEF Line
    <3>3. Fewer(strand', strand) BY <1>3, <1>5, <2>2, FewerHeard
    <3> QED BY <3>1, <3>2, <3>3
  <2> QED BY <1>2, <1>5, <2>1, <2>2
<1> QED BY <1>1, <1>7, <1>8, LineKept, OnceKept, ArrivingKept DEF AInv

-----------------------------------------------------------------------------
(* The client numbers its commands upwards.                                *)

LEMMA LinesAppended ==
  ASSUME NEW q \in Seq(Lines), NEW r \in Lines
  PROVE  /\ DOMAIN q \subseteq DOMAIN Append(q, r)
         /\ \A i \in DOMAIN q : Append(q, r)[i] = q[i]
         /\ \A i \in DOMAIN Append(q, r) : i \notin DOMAIN q => Append(q, r)[i] = r
         /\ \A i, j \in DOMAIN Append(q, r) : i < j => i \in DOMAIN q
<1>1. /\ Len(q) \in Nat /\ DOMAIN q = 1 .. Len(q)
      /\ DOMAIN Append(q, r) = 1 .. (Len(q) + 1)
      /\ \A i \in 1 .. Len(q) : Append(q, r)[i] = q[i]
      /\ Append(q, r)[Len(q) + 1] = r
  BY AppendProperties, LenProperties
<1>2. \A i \in DOMAIN Append(q, r) : i \notin DOMAIN q => i = Len(q) + 1 BY <1>1
<1>3. \A i, j \in DOMAIN Append(q, r) : i < j => i \in DOMAIN q BY <1>1
<1> QED BY <1>1, <1>2, <1>3

LEMMA YoungerStill ==
  ASSUME NEW last \in Nat, NEW S, \A k \in S : k \in Nat /\ k <= last
  PROVE  /\ \A n \in Nat : Younger(n, S, last) => Younger(n, S, last + 1) /\ n < last + 1
         /\ Younger(last + 1, S, last + 1)
         /\ \A k \in S : k <= last + 1
BY DEF Younger

LEMMA ClientLine ==
  ASSUME TypeOK, TypeOK', Extra, AInv,
         UNCHANGED <<strand, handling, code, heard, msgOutputQueue, sent>>,
         UNCHANGED <<lines, lastNo>>
           \/ (\E verb \in Verbs, big \in BOOLEAN : sendCmd(verb, big))
  PROVE  AInv'
<1>1. Line /\ OnceEach /\ Arriving BY DEF AInv
<1>2. Line' /\ HeardNos' = HeardNos BY <1>1, LineKept DEF Line
<1>3. CASE UNCHANGED <<lines, lastNo>>
  BY <1>1, <1>2, <1>3, OnceKept, ArrivingKept DEF AInv, Fewer
<1>4. ASSUME NEW verb \in Verbs, NEW big \in BOOLEAN, sendCmd(verb, big) PROVE Arriving'
  <2>1. PICK last \in Nat : last = lastNo BY ControlAssumption DEF TypeOK, ClientTypeOK
  <2>2. PICK r : r = [no |-> last + 1, verb |-> verb, big |-> big] OBVIOUS
  <2>3. lastNo' = last + 1 /\ lines' = Append(lines, r) BY <1>4, <2>1, <2>2 DEF sendCmd
  <2>4. last + 1 \in Numbers
    <3>1. lastNo' \in 0 .. MaxCommands BY DEF TypeOK, ClientTypeOK
    <3>2. last + 1 \in 0 .. MaxCommands BY <2>3, <3>1
    <3> QED BY <2>1, <3>2, ControlAssumption DEF Numbers
  <2>5. r \in Lines /\ r.no = last + 1 BY <2>2, <2>4 DEF Lines
  <2>6. lines \in Seq(Lines) BY DEF TypeOK, ChannelTypeOK
  <2>7. PICK S : S = HeardNos OBVIOUS
  <2>8. PICK q \in Seq(Lines) : q = lines BY <2>6
  <2>9. PICK p : p = Append(q, r) OBVIOUS
  <2>10. /\ \A k \in S : k \in Nat /\ k <= last
         /\ \A i \in DOMAIN q : Younger(q[i].no, S, last)
         /\ \A i, j \in DOMAIN q : i < j => q[i].no < q[j].no
    <3>1. /\ \A k \in HeardNos : k <= lastNo
          /\ \A i \in DOMAIN lines : Younger(lines[i].no, HeardNos, lastNo)
          /\ \A i, j \in DOMAIN lines : i < j => lines[i].no < lines[j].no
      BY <1>1 DEF Arriving
    <3>2. \A k \in HeardNos : k \in Nat BY DEF HeardNos
    <3> QED BY <2>1, <2>7, <2>8, <3>1, <3>2
  <2>11. /\ \A n \in Nat : Younger(n, S, last) => Younger(n, S, last + 1) /\ n < last + 1
         /\ Younger(last + 1, S, last + 1)
         /\ \A k \in S : k <= last + 1
    BY <2>1, <2>10, YoungerStill
  <2>12. /\ DOMAIN q \subseteq DOMAIN p
         /\ \A i \in DOMAIN q : p[i] = q[i]
         /\ \A i \in DOMAIN p : i \notin DOMAIN q => p[i] = r
         /\ \A i, j \in DOMAIN p : i < j => i \in DOMAIN q
    BY <2>5, <2>8, <2>9, LinesAppended
  <2>13. \A i \in DOMAIN q : q[i].no \in Nat
    <3>1. \A l \in Lines : l.no \in Nat BY ControlAssumption DEF Lines, Numbers
    <3> QED BY <2>8, <3>1, ElementOfSeq
  <2>14. ASSUME NEW i \in DOMAIN p PROVE Younger(p[i].no, S, last + 1)
    <3>1. CASE i \in DOMAIN q BY <2>10, <2>11, <2>12, <2>13, <3>1
    <3>2. CASE i \notin DOMAIN q BY <2>5, <2>11, <2>12, <3>2
    <3> QED BY <3>1, <3>2
  <2>15. ASSUME NEW i \in DOMAIN p, NEW j \in DOMAIN p, i < j PROVE p[i].no < p[j].no
    <3>1. i \in DOMAIN q BY <2>12, <2>15
    <3>2. CASE j \in DOMAIN q BY <2>10, <2>12, <2>15, <3>1, <3>2
    <3>3. CASE j \notin DOMAIN q BY <2>5, <2>10, <2>11, <2>12, <2>13, <3>1, <3>3
    <3> QED BY <3>2, <3>3
  <2>16. ASSUME NEW i \in DOMAIN strand, strand[i].op = "heard"
         PROVE  /\ Younger(strand[i].line.no, S, last + 1)
                /\ \A j \in DOMAIN p : strand[i].line.no < p[j].no
    <3>1. PICK n \in Nat : n = strand[i].line.no
      <4>1. strand[i].line \in Lines BY <2>16 DEF Extra, HeardLines
      <4> QED BY <4>1, ControlAssumption DEF Lines, Numbers
    <3>2. Younger(n, S, last) /\ \A j \in DOMAIN q : n < q[j].no
      BY <1>1, <2>1, <2>7, <2>8, <2>16, <3>1 DEF Arriving
    <3>3. Younger(n, S, last + 1) /\ n < last + 1 BY <2>11, <3>1, <3>2
    <3>4. ASSUME NEW j \in DOMAIN p PROVE n < p[j].no
      <4>1. CASE j \in DOMAIN q BY <2>12, <3>2, <4>1
      <4>2. CASE j \notin DOMAIN q BY <2>5, <2>12, <3>3, <4>2
      <4> QED BY <4>1, <4>2
    <3> QED BY <3>1, <3>3, <3>4
  <2>17. HeardNos' = S /\ lines' = p /\ strand' = strand BY <1>2, <2>3, <2>7, <2>8, <2>9
  <2> QED BY <2>3, <2>11, <2>14, <2>15, <2>16, <2>17 DEF Arriving
<1>5. OnceEach' BY <1>1, OnceKept
<1> QED BY <1>2, <1>3, <1>4, <1>5 DEF AInv

-----------------------------------------------------------------------------
(* Every step.                                                             *)

LEMMA NextAInv ==
  ASSUME FInv, AInv, [Next]_vars
  PROVE  AInv'
<1>1. /\ TypeOK /\ Extra /\ Chain /\ Turn BY DEF FInv, IInv
<1>2. TypeOK' BY NextFInv DEF FInv, IInv
<1>3. CASE Server
  <2>1. UNCHANGED clientVars BY <1>3 DEF Server
  <2>2. CASE ReadFails \/ WriteFails
    <3>1. /\ UNCHANGED <<strand, handling, code, heard, msgOutputQueue, sent>>
          /\ UNCHANGED <<lines, lastNo>>
      BY <2>1, <2>2 DEF ReadFails, WriteFails, readVars, writeVars, clientVars
    <3> QED BY <1>1, <1>2, <3>1, ClientLine
  <2>3. ASSUME NEW t \in transfers, Accept(t) \/ EndTransfer(t) PROVE AInv'
    BY <1>1, <2>1, <2>3, TransferLine
  <2>4. CASE HandleCommand BY <1>1, <2>1, <2>4, HandleLine
  <2>5. CASE FinishCommand BY <1>1, <2>1, <2>5, FinishLine
  <2>6. CASE PostReply BY <1>1, <2>1, <2>6, PostReplyLine
  <2>7. CASE WriteDone BY <1>1, <2>1, <2>7, WriteDoneLine
  <2>8. CASE ReadLines BY <1>1, <2>1, <2>8, ReadLinesLine
  <2>9. CASE WriteReply BY <1>1, <2>1, <2>9, WriteReplyLine
  <2> QED BY <1>3, <2>2, <2>3, <2>4, <2>5, <2>6, <2>7, <2>8, <2>9 DEF Server, Strand, Socket
<1>4. CASE ClientReads \/ ClientCalls \/ Abandon
  <2>1. ServerUnchanged
    BY <1>4
    DEF ClientReads, ClientCalls, Abandon, LastReply, UserReply, PasvReply, OpeningReply,
        EndOfData, OneCommand, Login, Transfer
  <2>2. {"PASS", "MKD", "USER", "PASV"} \subseteq Verbs BY DEF Verbs
  <2>3. call.verb \in Verbs /\ call.big \in BOOLEAN
    BY <1>1 DEF TypeOK, ClientTypeOK, Calls, Verbs
  <2>4. UNCHANGED <<lines, lastNo>>
          \/ (\E verb \in Verbs, big \in BOOLEAN : sendCmd(verb, big))
    <3>1. CASE LastReply \/ OpeningReply \/ EndOfData \/ Abandon
      BY <3>1 DEF LastReply, OpeningReply, EndOfData, Abandon
    <3>2. CASE UserReply
      <4>1. UNCHANGED <<lines, lastNo>> \/ sendCmd("PASS", FALSE) BY <3>2 DEF UserReply
      <4> QED BY <2>2, <4>1
    <3>3. CASE PasvReply
      <4>1. UNCHANGED <<lines, lastNo>> \/ sendCmd(call.verb, call.big) BY <3>3 DEF PasvReply
      <4> QED BY <2>3, <4>1
    <3>4. CASE OneCommand
      <4>1. sendCmd("MKD", FALSE) BY <3>4 DEF OneCommand
      <4> QED BY <2>2, <4>1
    <3>5. CASE Login
      <4>1. sendCmd("USER", FALSE) BY <3>5 DEF Login
      <4> QED BY <2>2, <4>1
    <3>6. ASSUME NEW v, NEW b, Transfer(v, b)
          PROVE  \E verb \in Verbs, big \in BOOLEAN : sendCmd(verb, big)
      <4>1. sendCmd("PASV", FALSE) BY <3>6 DEF Transfer
      <4> QED BY <2>2, <4>1
    <3> QED BY <1>4, <3>1, <3>2, <3>3, <3>4, <3>5, <3>6 DEF ClientReads, ClientCalls
  <2>5. UNCHANGED <<strand, handling, code, heard, msgOutputQueue, sent>>
    BY <2>1 DEF ServerUnchanged, writeVars
  <2> QED BY <1>1, <1>2, <2>4, <2>5, ClientLine
<1>5. CASE Disconnect \/ UNCHANGED vars
  <2>1. /\ UNCHANGED <<strand, handling, code, heard, msgOutputQueue, sent>>
        /\ UNCHANGED <<lines, lastNo>>
    BY <1>5 DEF Disconnect, vars, channelVars, clientVars, readVars, writeVars
  <2> QED BY <1>1, <1>2, <2>1, ClientLine
<1> QED BY <1>3, <1>4, <1>5 DEF Next

(* The first replies go out in the order in which the commands were heard. *)
THEOREM InOrder == Spec => [](FInv /\ AInv)
<1>1. Init => FInv /\ AInv BY InitFInv, InitAInv
<1>2. FInv /\ AInv /\ [Next]_vars => FInv' /\ AInv' BY NextFInv, NextAInv
<1> QED BY <1>1, <1>2, PTL DEF Spec

(* A reply that is written and is the first to its command answers the     *)
(* first of the commands heard that has no answer.                         *)
LEMMA WritesAnswer ==
  ASSUME TypeOK, Chain, AInv, WriteReply, UNCHANGED clientVars
  PROVE  Answers!Next \/ UNCHANGED Answers!replyVars
<1>1. PICK q : q = msgOutputQueue OBVIOUS
<1>2. PICK m : m = Head(q) OBVIOUS
<1>3. writes > 0 /\ sent' = Append(sent, m) /\ UNCHANGED <<heard, up>>
  BY <1>1, <1>2 DEF WriteReply, readVars
<1>4. q \in Seq(Replies) /\ sent \in Seq(Replies) /\ heard \in Seq(Numbers)
  BY <1>1 DEF TypeOK, ChannelTypeOK
<1>5. ~Has(strand) /\ q # <<>> BY <1>1, <1>3 DEF Chain, TypeOK, ChannelTypeOK
<1>6. m \in Replies /\ m.no \in 0 .. MaxCommands BY <1>2, <1>4, <1>5, FirstsPopped DEF Replies
<1>7. ASSUME NEW n \in Numbers
      PROVE  AnswersTo(n)' = IF First(m) /\ m.no = n THEN AnswersTo(n) + 1 ELSE AnswersTo(n)
  BY <1>3, <1>4, <1>6, AnswerCounted
<1>8. CASE ~First(m)
  <2>1. \A n \in Numbers : AnswersTo(n)' = AnswersTo(n) BY <1>7, <1>8
  <2>2. [no \in Numbers |-> AnswersTo(no)]' = [no \in Numbers |-> AnswersTo(no)] BY <2>1
  <2> QED BY <1>3, <2>2 DEF Answers!replyVars
<1>9. CASE First(m)
  <2>1. Line /\ OnceEach BY DEF AInv
  <2>2. /\ Unsent(msgOutputQueue, Has(strand)) = q /\ InQueue = Firsts(q)
    BY <1>1, <1>5 DEF Unsent, InQueue
  <2>3. /\ InQueue = Firsts(Tail(q)) \cup {m.no} /\ \A n \in Firsts(Tail(q)) : m.no < n
    BY <1>2, <1>4, <1>5, <1>9, <2>1, <2>2, FirstsPopped DEF Line
  <2>4. /\ InLine(InSocket, InQueue, InPosts, InHand)
        /\ HeardNos = InSocket \cup InQueue \cup InPosts \cup InHand
        /\ \A i, j \in DOMAIN heard : i < j => heard[i] < heard[j]
    BY <2>1 DEF Line
  <2>5. ~(m.no < m.no)
    <3>1. m.no \in Nat BY <1>6, ControlAssumption
    <3> QED BY <3>1
  <2>6. m.no \notin InSocket BY <2>3, <2>4, <2>5 DEF InLine, Before
  <2>7. ASSUME NEW k \in HeardNos, k < m.no PROVE k \in InSocket
    <3>1. ~(m.no < k)
      <4>1. k \in Nat /\ m.no \in Nat BY <1>6, ControlAssumption DEF HeardNos
      <4> QED BY <2>7, <4>1
    <3>2. k # m.no BY <2>5, <2>7
    <3>3. k \notin InQueue BY <2>3, <3>1, <3>2
    <3>4. k \notin InPosts /\ k \notin InHand BY <2>3, <2>4, <3>1 DEF InLine, Before
    <3> QED BY <2>4, <3>3, <3>4
  <2>8. PICK i \in DOMAIN heard : heard[i] = m.no
    <3>1. m.no \in HeardNos BY <2>3, <2>4
    <3> QED BY <3>1 DEF HeardNos
  <2>9. /\ \A j \in DOMAIN heard : heard[j] \in Numbers
        /\ Len(heard) \in Nat /\ DOMAIN heard = 1 .. Len(heard)
    BY <1>4, ElementOfSeq, LenProperties
  <2>10. m.no \in Numbers BY <2>8, <2>9
  <2>11. AnswersTo(m.no) = 0 BY <2>1, <2>6, <2>10 DEF OnceEach
  <2>12. ASSUME NEW j \in 1 .. i - 1 PROVE j \in DOMAIN heard /\ AnswersTo(heard[j]) = 1
    <3>1. j \in DOMAIN heard /\ j < i BY <2>8, <2>9
    <3>2. heard[j] < m.no BY <2>4, <2>8, <3>1
    <3>3. heard[j] \in HeardNos
      BY <2>9, <3>1, ControlAssumption DEF HeardNos, Numbers
    <3>4. heard[j] \in InSocket BY <2>7, <3>2, <3>3
    <3> QED BY <2>1, <2>9, <3>1, <3>4 DEF OnceEach
  <2>13. PICK f : f = [no \in Numbers |-> AnswersTo(no)] OBVIOUS
  <2>14. [no \in Numbers |-> AnswersTo(no)]' = [f EXCEPT ![heard[i]] = 1]
    <3>1. \A n \in Numbers : AnswersTo(n)' = IF n = m.no THEN 1 ELSE f[n]
      BY <1>7, <1>9, <2>11, <2>13
    <3> QED BY <2>8, <2>13, <3>1
  <2>15. f[heard[i]] = 0 /\ \A j \in 1 .. i - 1 : f[heard[j]] = 1
    BY <2>8, <2>9, <2>10, <2>11, <2>12, <2>13
  <2>16. Answers!Answer BY <1>3, <2>8, <2>13, <2>14, <2>15 DEF Answers!Answer
  <2> QED BY <2>16 DEF Answers!Next
<1> QED BY <1>8, <1>9

(* On the control connection, whatever the client calls, in step with the  *)
(* server or not, every command the session reads is answered at most once *)
(* and in the order read, though transfers end in between.                 *)
(* See CommandReplies.                                                     *)
THEOREM ImplementsCommandReplies == Spec => Answers!Safety
<1>1. Init => Answers!Init
  <2> SUFFICES ASSUME Init PROVE Answers!Init OBVIOUS
  <2>1. heard = <<>> /\ sent = <<>> /\ up = TRUE BY DEF Init, ChannelInit
  <2>2. ASSUME NEW n \in Numbers PROVE AnswersTo(n) = 0
    <3>1. DOMAIN <<>> = {} OBVIOUS
    <3>2. InSocket = {} BY <2>1, <3>1 DEF InSocket, Firsts
    <3>3. OnceEach BY InitAInv DEF AInv
    <3> QED BY <3>2, <3>3 DEF OnceEach
  <2>3. [no \in Numbers |-> AnswersTo(no)] = [c \in Numbers |-> 0] BY <2>2
  <2> QED BY <2>1, <2>3 DEF Answers!Init
<1>2. FInv /\ AInv /\ [Next]_vars => [Answers!Next]_(Answers!replyVars)
  <2> SUFFICES ASSUME FInv, AInv, [Next]_vars
               PROVE  Answers!Next \/ UNCHANGED Answers!replyVars
    OBVIOUS
  <2>1. TypeOK /\ Extra /\ Chain /\ Turn BY DEF FInv, IInv
  <2>2. sent' = sent => UNCHANGED [no \in Numbers |-> AnswersTo(no)] BY DEF AnswersTo
  <2>3. CASE UNCHANGED <<heard, sent, up>> BY <2>2, <2>3 DEF Answers!replyVars
  <2>4. CASE HandleCommand /\ UNCHANGED clientVars
    <3>1. \E c \in Numbers :
            /\ \A i \in DOMAIN heard : heard[i] # c
            /\ heard' = Append(heard, c)
      BY <2>1, <2>4, HandleLine
    <3>2. UNCHANGED <<sent, up>> BY <2>4 DEF HandleCommand, writeVars
    <3> QED BY <2>2, <3>1, <3>2 DEF Answers!Hear, Answers!Next
  <2>5. CASE WriteReply /\ UNCHANGED clientVars BY <2>1, <2>5, WritesAnswer
  <2>6. CASE Disconnect
    <3>1. up' = FALSE /\ UNCHANGED <<heard, sent>> BY <2>6 DEF Disconnect, readVars, writeVars
    <3> QED BY <2>2, <3>1 DEF Answers!Lose, Answers!Next
  <2>7. CASE Server
    <3>1. ASSUME NEW t \in transfers, Accept(t) \/ EndTransfer(t)
          PROVE  UNCHANGED <<heard, sent, up>>
      BY <3>1 DEF Accept, EndTransfer, AcceptFails, Complete, SendFails, readVars, writeVars
    <3>2. CASE FinishCommand \/ PostReply \/ WriteDone \/ ReadLines \/ ReadFails \/ WriteFails
      <4>1. UNCHANGED <<heard, sent, up>>
        BY <3>2 DEF FinishCommand, PostReply, WriteDone, ReadLines, ReadFails, WriteFails,
                    readVars, writeVars
      <4> QED BY <2>3, <4>1
    <3> QED BY <2>3, <2>4, <2>5, <2>7, <3>1, <3>2 DEF Server, Strand, Socket
  <2>8. CASE ClientReads \/ ClientCalls \/ Abandon \/ UNCHANGED vars
    <3>1. UNCHANGED <<heard, sent, up>>
      BY <2>8
      DEF ClientReads, ClientCalls, Abandon, LastReply, UserReply, PasvReply, OpeningReply,
          EndOfData, OneCommand, Login, Transfer, ServerUnchanged, writeVars,
          vars, channelVars, readVars
    <3> QED BY <2>3, <3>1
  <2> QED BY <2>6, <2>7, <2>8 DEF Next
<1> QED BY <1>1, <1>2, InOrder, PTL DEF Spec, Answers!Safety

=============================================================================
