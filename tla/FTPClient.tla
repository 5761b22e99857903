------------------------------ MODULE FTPClient ------------------------------
(***************************************************************************)
(* The client library (FTP-Client/FTPClient.cpp) and the server it talks   *)
(* to (ControlChannel): one client, one control connection.                *)
(*                                                                         *)
(* Every call of the library is a script of commands and blocking reads of *)
(* one reply each, on one thread; awaiting is the read it is blocked in.   *)
(* Whoever uses the library may make any call when the last has returned,  *)
(* or close the connection; and the connection may be lost at any time.    *)
(*                                                                         *)
(* recvFTPMsg reads what has come in so far, at least one reply, keeps the *)
(* first and drops the rest with its local buffer.  A read is taken to end *)
(* at the end of a reply: each is written at once, and is far shorter than *)
(* the buffer it is read into.                                             *)
(***************************************************************************)
EXTENDS ControlChannel, FiniteSets

VARIABLES
  awaiting,    \* what the call in progress waits for, see Awaiting
  call,        \* the transfer command of a call that needs a data connection
  lastNo,      \* the number of the last command sent
  dataSocket,  \* dataSocket_: the acceptor it is connected to, 0 when closed
  taken,       \* how many replies were read from the connection
  used,        \* the last of those that was kept
  astray       \* what has gone wrong: "dropped" a reply, "abandoned" a transfer

clientVars == <<awaiting, call, lastNo, dataSocket, taken, used, astray>>
channelVars == <<readVars, strand, writeVars, dataVars, up>>
vars == <<channelVars, clientVars>>

(* "idle": no call in progress.  Otherwise the greeting, the only reply of *)
(* a command, the reply to USER, PASS, PASV or to the transfer command     *)
(* ("opening"), the end of the data ("data"), or the final reply.          *)
Awaiting == {"idle", "greeting", "reply", "USER", "PASS", "PASV", "opening",
             "data", "final"}

Calls == [verb : {"RETR", "STOR"}, big : BOOLEAN]
NoCall == [verb |-> "RETR", big |-> FALSE]

ClientTypeOK ==
  /\ awaiting \in Awaiting
  /\ call \in Calls
  /\ lastNo \in 0 .. MaxCommands
  /\ dataSocket \in 0 .. MaxCommands
  /\ taken \in Nat
  /\ used \in Replies
  /\ astray \subseteq {"dropped", "abandoned"}

TypeOK == ChannelTypeOK /\ ClientTypeOK

Init ==
  /\ ChannelInit
  /\ awaiting = "greeting"
  /\ call = NoCall
  /\ lastNo = 0
  /\ dataSocket = 0
  /\ taken = 0
  /\ used = Greeting
  /\ astray = {}

isNegative(m) == m.code >= 400

sendCmd(verb, big) ==
  /\ lastNo' = lastNo + 1
  /\ lines' = Append(lines, [no |-> lastNo', verb |-> verb, big |-> big])

(* What a step of the client leaves alone of the server. *)
ServerUnchanged == UNCHANGED <<reading, handling, code, heard, strand, writeVars, up>>

Available == SubSeq(sent, taken + 1, Len(sent))

(* The read a call is blocked in can return. *)
Ready == up /\ Available # <<>>

(* The call gets a reply, and then waits for next. *)
recvFTPMsg(next) ==
  /\ \E n \in 1 .. Len(Available) :
       /\ taken' = taken + n
       /\ astray' = IF n > 1 THEN astray \cup {"dropped"} ELSE astray
  /\ used' = Head(Available)
  /\ awaiting' = next

-----------------------------------------------------------------------------
(* The calls.                                                              *)

MayCall(commands) == up /\ awaiting = "idle" /\ lastNo + commands <= MaxCommands

(* mkdir, cd, pwd, rmdir and rm. *)
OneCommand ==
  /\ MayCall(1)
  /\ sendCmd("MKD", FALSE)
  /\ awaiting' = "reply"
  /\ ServerUnchanged
  /\ UNCHANGED <<dataVars, call, dataSocket, taken, used, astray>>

(* login and signup. *)
Login ==
  /\ MayCall(2)
  /\ sendCmd("USER", FALSE)
  /\ awaiting' = "USER"
  /\ ServerUnchanged
  /\ UNCHANGED <<dataVars, call, dataSocket, taken, used, astray>>

(* download, ls and upload begin with resetDataSocket. *)
Transfer(verb, big) ==
  /\ MayCall(2)
  /\ sendCmd("PASV", FALSE)
  /\ call' = [verb |-> verb, big |-> big]
  /\ awaiting' = "PASV"
  /\ ServerUnchanged
  /\ UNCHANGED <<dataVars, dataSocket, taken, used, astray>>

(* A read whose reply ends the call. *)
LastReply ==
  /\ awaiting \in {"greeting", "reply", "PASS", "final"} /\ Ready
  /\ recvFTPMsg("idle")
  /\ ServerUnchanged
  /\ UNCHANGED <<lines, dataVars, call, lastNo, dataSocket>>

UserReply ==
  /\ awaiting = "USER" /\ Ready
  /\ IF Head(Available).code = USER_NAME_OK
     THEN recvFTPMsg("PASS") /\ sendCmd("PASS", FALSE)
     ELSE recvFTPMsg("idle") /\ UNCHANGED <<lines, lastNo>>
  /\ ServerUnchanged
  /\ UNCHANGED <<dataVars, call, dataSocket>>

(* Connecting succeeds while the acceptor is the server's open one. *)
Connect(no) ==
  /\ conn' = [conn EXCEPT ![no] = "backlog"]
  /\ dataSocket' = no
  /\ UNCHANGED <<port, transfers>>

(* The end of resetDataSocket: with an address, the old data connection is *)
(* closed, a new one made and the transfer command sent.  If the old one   *)
(* was reset, closing it may throw.  A reply that has no address in it     *)
(* makes the parsing throw, which ends the call.                           *)
PasvReply ==
  /\ awaiting = "PASV" /\ Ready
  /\ LET m == Head(Available) IN
       IF m.code = ENTERING_PASSIVE_MODE
       THEN \/ /\ m.no = port /\ port # 0
               /\ recvFTPMsg("opening") /\ Connect(m.no) /\ sendCmd(call.verb, call.big)
            \/ /\ m.no # port \/ (dataSocket # 0 /\ conn[dataSocket] = "shut")
               /\ recvFTPMsg("idle")
               /\ dataSocket' = 0
               /\ UNCHANGED <<lines, lastNo, dataVars>>
       ELSE recvFTPMsg("idle") /\ UNCHANGED <<lines, lastNo, dataVars, dataSocket>>
  /\ ServerUnchanged
  /\ UNCHANGED call

OpeningReply ==
  /\ awaiting = "opening" /\ Ready
  /\ recvFTPMsg(IF isNegative(Head(Available)) THEN "idle" ELSE "data")
  /\ ServerUnchanged
  /\ UNCHANGED <<lines, dataVars, call, lastNo, dataSocket>>

(* Mutant: the call returns without its final reply. *)
EndOfDataForgets ==
  /\ awaiting = "data"
  /\ call.verb = "RETR" => conn[dataSocket] = "shut"
  /\ call.verb = "STOR" /\ call.big => conn[dataSocket] = "served"
  /\ dataSocket' = 0
  /\ awaiting' = "idle"
  /\ ServerUnchanged
  /\ UNCHANGED <<lines, dataVars, call, lastNo, taken, used, astray>>

(* All data has been received, up to the server's close, or sent; what     *)
(* does not fit in the socket buffers goes only when the server receives.  *)
(* The data connection is closed before the final reply is read.           *)
EndOfData ==
  /\ awaiting = "data"
  /\ call.verb = "RETR" => conn[dataSocket] = "shut"
  /\ call.verb = "STOR" /\ call.big => conn[dataSocket] = "served"
  /\ dataSocket' = 0
  /\ awaiting' = "final"
  /\ ServerUnchanged
  /\ UNCHANGED <<lines, dataVars, call, lastNo, taken, used, astray>>

(* The call returns early: the local file cannot be read or written, or    *)
(* sending fails as the server has reset the connection.  The final reply  *)
(* is not read, and dataSocket_ stays open.                                *)
Abandon ==
  /\ awaiting = "data" /\ up
  /\ awaiting' = "idle"
  /\ astray' = astray \cup {"abandoned"}
  /\ ServerUnchanged
  /\ UNCHANGED <<lines, dataVars, call, lastNo, dataSocket, taken, used>>

(* The connection is closed or lost, and so is the data connection.  The   *)
(* read the call is blocked in fails, and so does every later call.  An    *)
(* eof is ignored: what has come of a reply by then is still taken, or its *)
(* parsing throws.                                                         *)
Disconnect ==
  /\ up
  /\ up' = FALSE
  /\ awaiting' = "idle"
  /\ dataSocket' = 0
  /\ \/ UNCHANGED <<taken, used>>
     \/ /\ awaiting \notin {"idle", "data"} /\ Available # <<>>
        /\ taken' = taken + 1 /\ used' = Head(Available)
  /\ UNCHANGED <<readVars, strand, writeVars, dataVars, call, lastNo, astray>>

-----------------------------------------------------------------------------

Peer(t) == dataSocket = t.conn
PeerReads(t) == Peer(t) /\ awaiting = "data"

Strand == HandleCommand \/ FinishCommand \/ PostReply \/ WriteDone
Socket == ReadLines \/ ReadFails \/ WriteReply \/ WriteFails
EndTransfer(t) == AcceptFails(t) \/ Complete(t, Peer(t), PeerReads(t)) \/ SendFails(t, Peer(t))

Server ==
  /\ \/ Strand
     \/ Socket
     \/ \E t \in transfers : Accept(t) \/ EndTransfer(t)
  /\ UNCHANGED clientVars

ClientReads == LastReply \/ UserReply \/ PasvReply \/ OpeningReply \/ EndOfData

ClientCalls ==
  \/ OneCommand
  \/ Login
  \/ \E verb \in {"RETR", "STOR"}, big \in BOOLEAN : Transfer(verb, big)

Next == Server \/ ClientReads \/ ClientCalls \/ Abandon \/ Disconnect

(* Threads run what their queues hold, sockets carry what is written, and  *)
(* the client, once in a call, goes on with it; nobody has to make a call. *)
Fairness ==
  /\ WF_vars(Strand /\ UNCHANGED clientVars)
  /\ WF_vars((ReadLines \/ ReadFails) /\ UNCHANGED clientVars)
  /\ WF_vars((WriteReply \/ WriteFails) /\ UNCHANGED clientVars)
  /\ WF_vars((\E t \in transfers : Accept(t)) /\ UNCHANGED clientVars)
  /\ \A no \in Numbers :
       WF_vars((\E t \in transfers : t.no = no /\ EndTransfer(t)) /\ UNCHANGED clientVars)
  /\ WF_vars(ClientReads)

Spec == Init /\ [][Next]_vars
FairSpec == Spec /\ Fairness

-----------------------------------------------------------------------------
(* Properties.                                                             *)

(* The strand holds a handler that does this. *)
InStrand(op) == \E i \in DOMAIN strand : strand[i].op = op

(* One async_write at a time is under way on the control connection, and   *)
(* while replies wait there is one, or its completion: no reply is left to *)
(* a chain that has stopped.                                               *)
OneWrite ==
  /\ writes <= 1
  /\ \A i, j \in DOMAIN strand :
       strand[i].op = "written" /\ strand[j].op = "written" => i = j
  /\ InStrand("written") => writes = 0
  /\ writes = 1 \/ InStrand("written") => msgOutputQueue # <<>>
  /\ up /\ msgOutputQueue # <<>> => writes = 1 \/ InStrand("written")

(* When a call returns nothing of it is left anywhere between client and   *)
(* server, not a line, a handler, a reply or a transfer, whatever order    *)
(* the threads of the server have posted its replies in: the next call     *)
(* starts afresh.  (The last reply may still wait for its own completion.) *)
NothingLeftOver ==
  awaiting = "idle" /\ up /\ astray = {} =>
    /\ lines = <<>> /\ handling = NoLine /\ reading
    /\ Available = <<>>
    /\ ~InStrand("heard") /\ ~InStrand("post")
    /\ msgOutputQueue # <<>> => InStrand("written") /\ Len(msgOutputQueue) = 1
    /\ transfers = {}

(* A call takes for its answer only replies to its own last command, for   *)
(* as long as no reply was dropped and no transfer abandoned.              *)
InStep ==
  [][taken' # taken /\ astray' = {} => used'.no = lastNo]_vars

(* Every command the server reads is answered once and in the order read,  *)
(* though transfers end in between; see CommandReplies.                    *)
First(m) == ~IsFinal(m) /\ m # Greeting
AnswersTo(no) == Cardinality({i \in DOMAIN sent : First(sent[i]) /\ sent[i].no = no})
Answers == INSTANCE CommandReplies WITH
  Commands <- Numbers, heard <- heard, answers <- [no \in Numbers |-> AnswersTo(no)],
  up <- up
AnswersSpec == Answers!Spec

(* Every call returns, unless a reply was dropped with the one before it   *)
(* or an earlier call has left its final reply behind.                     *)
CallsReturn == awaiting # "idle" ~> awaiting = "idle" \/ astray # {}
=============================================================================
