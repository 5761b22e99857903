--------------------------- MODULE ControlChannel ---------------------------
(***************************************************************************)
(* The server's end of one control connection and of the data connections  *)
(* opened over it (FTP-Server/FTPSession.cpp): how command lines come in   *)
(* (readFTPCmd), how replies go out (sendFTPMsg, startSendingMsgs), and    *)
(* when a transfer posts the reply that ends it.                           *)
(*                                                                         *)
(* The handlers of the control connection run one at a time in             *)
(* msgWriteStrand_.  The accept handlers and the handlers that end a       *)
(* transfer run on other threads, and only their replies go through the    *)
(* strand.  What the commands do is the business of FTPSession, FTPFiles,  *)
(* DataSend and DataReceive: a command here succeeds or is refused, and a  *)
(* transfer is accepting, moving or over.  QUIT, after which the session   *)
(* does not read on, is in FTPSession; the client of FTPClient has none.   *)
(***************************************************************************)
EXTENDS Naturals, Sequences

CONSTANTS
  MaxCommands,  \* bound: the commands a client sends over one connection
  NoLine        \* no command is being handled

ASSUME ControlAssumption == MaxCommands \in Nat

VARIABLES
  lines,           \* command lines on their way to the server
  reading,         \* async_read_until is pending
  strand,          \* msgWriteStrand_: the handlers posted to it
  handling,        \* the command whose handler has run, its reply not posted
  code,            \* the code of that reply
  msgOutputQueue,  \* msgOutputQueue_
  writes,          \* the async_writes of replies under way
  heard,           \* the numbers of the commands handled, in order
  sent,            \* the replies written to the connection, in order
  port,            \* the PASV command whose acceptor is open, 0 for none
  conn,            \* the server's end of the data connection to each acceptor
  transfers,       \* the transfers that are not over
  up               \* the control connection is up

readVars == <<lines, reading, handling, code, heard>>
writeVars == <<msgOutputQueue, writes, sent>>
dataVars == <<port, conn, transfers>>

(* Commands are numbered in the order they are sent. *)
Numbers == 1 .. MaxCommands

(* MKD also stands for CWD, PWD and RMD, which have one reply as well;     *)
(* RETR for LIST; USER for UADD.                                           *)
Verbs == {"USER", "PASS", "PASV", "RETR", "STOR", "MKD"}

(* big: the transfer has more data than the socket buffers hold. *)
Lines == [no : Numbers, verb : Verbs, big : BOOLEAN]

ASSUME LineAssumption == NoLine \notin Lines

FILE_STATUS_OK            == 150
SERVICE_READY             == 220
CLOSING_DATA_CONNECTION   == 226
ENTERING_PASSIVE_MODE     == 227
USER_LOGGED_IN            == 230
FILE_ACTION_COMPLETED     == 250
USER_NAME_OK              == 331
TRANSFER_ABORTED          == 426
NOT_LOGGED_IN             == 530

Accepted == [v \in Verbs |->
  CASE v = "USER" -> USER_NAME_OK
    [] v = "PASS" -> USER_LOGGED_IN
    [] v = "PASV" -> ENTERING_PASSIVE_MODE
    [] v \in {"RETR", "STOR"} -> FILE_STATUS_OK
    [] v = "MKD" -> FILE_ACTION_COMPLETED]

(* NOT_LOGGED_IN stands for every refusal. *)
Codes == {SERVICE_READY, CLOSING_DATA_CONNECTION, TRANSFER_ABORTED, NOT_LOGGED_IN}
           \cup {Accepted[v] : v \in Verbs}

(* A reply names the command it answers; the greeting answers none, 0. *)
Replies == [code : Codes, no : 0 .. MaxCommands]
Reply(c, no) == [code |-> c, no |-> no]
Greeting == Reply(SERVICE_READY, 0)

(* The replies that end a transfer; any other is the first to its command. *)
IsFinal(m) == m.code \in {CLOSING_DATA_CONNECTION, TRANSFER_ABORTED}

(* The handlers of msgWriteStrand_: readFTPCmd's with a line, sendFTPMsg's *)
(* with a reply, and the completion of an async_write.                     *)
Heard(line)  == [op |-> "heard", line |-> line, msg |-> Greeting]
Post(msg)    == [op |-> "post", line |-> NoLine, msg |-> msg]
Written      == [op |-> "written", line |-> NoLine, msg |-> Greeting]

Handlers == [op : {"heard", "post", "written"}, line : Lines \cup {NoLine}, msg : Replies]

Transfers == [no : Numbers, verb : {"RETR", "STOR"}, big : BOOLEAN,
              stage : {"accepting", "moving", "aborted"}, conn : 0 .. MaxCommands]

ChannelTypeOK ==
  /\ lines \in Seq(Lines)
  /\ reading \in BOOLEAN
  /\ strand \in Seq(Handlers)
  /\ handling \in Lines \cup {NoLine}
  /\ code \in Codes
  /\ msgOutputQueue \in Seq(Replies)
  /\ writes \in Nat
  /\ heard \in Seq(Numbers)
  /\ sent \in Seq(Replies)
  /\ port \in 0 .. MaxCommands
  /\ conn \in [Numbers -> {"none", "backlog", "served", "shut"}]
  /\ transfers \subseteq Transfers
  /\ up \in BOOLEAN

(* start(): the greeting is posted and the first command read. *)
ChannelInit ==
  /\ lines = <<>>
  /\ reading = TRUE
  /\ strand = <<Post(Greeting)>>
  /\ handling = NoLine
  /\ code = SERVICE_READY
  /\ msgOutputQueue = <<>>
  /\ writes = 0
  /\ heard = <<>>
  /\ sent = <<>>
  /\ port = 0
  /\ conn = [n \in Numbers |-> "none"]
  /\ transfers = {}
  /\ up = TRUE

sendFTPMsg(msg) == strand' = Append(strand, Post(msg))

-----------------------------------------------------------------------------
(* Reading.                                                                *)

(* async_read_until completes with what has come in so far, which may be   *)
(* more than one line; the handler takes the first and clears the rest.    *)
ReadLines ==
  /\ reading /\ up
  /\ \E n \in 1 .. Len(lines) : lines' = SubSeq(lines, n + 1, Len(lines))
  /\ strand' = Append(strand, Heard(Head(lines)))
  /\ reading' = FALSE
  /\ UNCHANGED <<handling, code, heard, writeVars, dataVars, up>>

(* The read fails; the handler only says so. *)
ReadFails ==
  /\ reading /\ ~up
  /\ reading' = FALSE
  /\ UNCHANGED <<lines, strand, handling, code, heard, writeVars, dataVars, up>>

(* The strand executes the handler at its head, unless it is still busy    *)
(* with a command.                                                         *)
Run(op) ==
  /\ handling = NoLine
  /\ strand # <<>>
  /\ Head(strand).op = op

(* The acceptor is closed, and another opened unless no is 0: connections  *)
(* nobody accepted are reset, and the accepts that wait complete with an   *)
(* error.                                                                  *)
ReopenAcceptor(no) ==
  /\ port' = no
  /\ conn' = [n \in Numbers |-> IF conn[n] = "backlog" THEN "shut" ELSE conn[n]]
  /\ transfers' = {IF t.stage = "accepting" THEN [t EXCEPT !.stage = "aborted"] ELSE t :
                     t \in transfers}

(* async_accept waits for a connection, or completes with an error when    *)
(* the acceptor does not listen.                                           *)
StartAccept(line) ==
  /\ transfers' = transfers \cup
       {[no |-> line.no, verb |-> line.verb, big |-> line.big,
         stage |-> IF port # 0 THEN "accepting" ELSE "aborted", conn |-> 0]}
  /\ UNCHANGED <<port, conn>>

(* handleFTPCmd calls the handler of the command, which is refused or      *)
(* accepted.  A PASV that is refused has often closed the acceptor by      *)
(* then.  LIST does not ask whether it is open, and RETR and STOR not      *)
(* whether it listens.                                                     *)
HandleCommand ==
  /\ Run("heard")
  /\ LET line == Head(strand).line IN
       /\ handling' = line
       /\ heard' = Append(heard, line.no)
       /\ \/ /\ code' = NOT_LOGGED_IN
             /\ UNCHANGED dataVars \/ (line.verb = "PASV" /\ ReopenAcceptor(0))
          \/ /\ code' = Accepted[line.verb]
             /\ \/ line.verb = "PASV" /\ ReopenAcceptor(line.no)
                \/ line.verb \in {"RETR", "STOR"} /\ StartAccept(line)
                \/ line.verb \in {"USER", "PASS", "MKD"} /\ UNCHANGED dataVars
  /\ strand' = Tail(strand)
  /\ UNCHANGED <<lines, reading, writeVars, up>>

(* Mutant: the next command is read, and this one never answered. *)
FinishUnanswered ==
  /\ handling # NoLine
  /\ IF code = NOT_LOGGED_IN THEN UNCHANGED strand ELSE sendFTPMsg(Reply(code, handling.no))
  /\ handling' = NoLine
  /\ reading' = TRUE
  /\ UNCHANGED <<lines, code, heard, writeVars, dataVars, up>>

(* handleFTPCmd posts the reply and reads the next command. *)
FinishCommand ==
  /\ handling # NoLine
  /\ sendFTPMsg(Reply(code, handling.no))
  /\ handling' = NoLine
  /\ reading' = TRUE
  /\ UNCHANGED <<lines, code, heard, writeVars, dataVars, up>>

-----------------------------------------------------------------------------
(* Writing.                                                                *)

startSendingMsgs == writes' = writes + 1

(* Mutant: every reply starts a write. *)
PostReplyAlwaysWrites ==
  /\ Run("post")
  /\ msgOutputQueue' = Append(msgOutputQueue, Head(strand).msg)
  /\ startSendingMsgs
  /\ strand' = Tail(strand)
  /\ UNCHANGED <<readVars, sent, dataVars, up>>

(* The handler sendFTPMsg posts. *)
PostReply ==
  /\ Run("post")
  /\ msgOutputQueue' = Append(msgOutputQueue, Head(strand).msg)
  /\ IF msgOutputQueue = <<>> THEN startSendingMsgs ELSE UNCHANGED writes
  /\ strand' = Tail(strand)
  /\ UNCHANGED <<readVars, sent, dataVars, up>>

(* An async_write writes the front of the queue to the connection. *)
WriteReply ==
  /\ writes > 0 /\ up
  /\ sent' = Append(sent, Head(msgOutputQueue))
  /\ writes' = writes - 1
  /\ strand' = Append(strand, Written)
  /\ UNCHANGED <<readVars, msgOutputQueue, dataVars, up>>

(* It fails; the handler only says so, and the queue stays as it is. *)
WriteFails ==
  /\ writes > 0 /\ ~up
  /\ writes' = writes - 1
  /\ UNCHANGED <<readVars, strand, msgOutputQueue, sent, dataVars, up>>

(* Mutant: the chain of writes stops after each. *)
WriteDoneStops ==
  /\ Run("written")
  /\ msgOutputQueue' = Tail(msgOutputQueue)
  /\ strand' = Tail(strand)
  /\ UNCHANGED <<readVars, writes, sent, dataVars, up>>

(* The completion of a write starts the next. *)
WriteDone ==
  /\ Run("written")
  /\ msgOutputQueue' = Tail(msgOutputQueue)
  /\ IF Tail(msgOutputQueue) # <<>> THEN startSendingMsgs ELSE UNCHANGED writes
  /\ strand' = Tail(strand)
  /\ UNCHANGED <<readVars, sent, dataVars, up>>

-----------------------------------------------------------------------------
(* The transfers, on any thread.                                           *)

(* The accept handler gets the connection that waits in the backlog. *)
Accept(t) ==
  /\ t.stage = "accepting"
  /\ conn[port] = "backlog"
  /\ conn' = [conn EXCEPT ![port] = "served"]
  /\ transfers' = (transfers \ {t}) \cup
       {[no |-> t.no, verb |-> t.verb, big |-> t.big, stage |-> "moving", conn |-> port]}
  /\ UNCHANGED <<readVars, strand, writeVars, port, up>>

(* It gets an error when the acceptor was closed under it. *)
AcceptFails(t) ==
  /\ t.stage = "aborted"
  /\ transfers' = transfers \ {t}
  /\ sendFTPMsg(Reply(TRANSFER_ABORTED, t.no))
  /\ UNCHANGED <<readVars, writeVars, port, conn, up>>

(* The last handler of a transfer closes the connection with the last      *)
(* reference to it.                                                        *)
Close(t) ==
  /\ transfers' = transfers \ {t}
  /\ conn' = [conn EXCEPT ![t.conn] = "shut"]

(* A transfer ends well: 226 is posted.  peer says whether the client has  *)
(* its end of this connection open, reads whether it reads from it.  What  *)
(* is sent ends when it is in the socket buffers or the client reads it;   *)
(* what is received ends when the client has closed its end.               *)
Complete(t, peer, reads) ==
  /\ t.stage = "moving"
  /\ IF t.verb = "STOR" THEN ~peer ELSE t.big => reads
  /\ Close(t)
  /\ sendFTPMsg(Reply(CLOSING_DATA_CONNECTION, t.no))
  /\ UNCHANGED <<readVars, writeVars, port, up>>

(* The client has closed its end before all was sent: nothing is posted. *)
SendFails(t, peer) ==
  /\ t.stage = "moving"
  /\ t.verb = "RETR" /\ ~peer
  /\ Close(t)
  /\ UNCHANGED <<readVars, strand, writeVars, port, up>>

=============================================================================
