----------------------------- MODULE DataSend -----------------------------
(***************************************************************************)
(* How a session sends a file (RETR) or a listing (LIST, NLST) over its    *)
(* data connection: FTP-Server/FTPSession.cpp from PASV to the 226.        *)
(*                                                                         *)
(* Four parties move independently: the command handlers, in               *)
(* msgWriteStrand_; the accept handlers, which no strand protects; the     *)
(* file reads, in fileRWStrand_; the buffer dataBuffer_ and the writes to  *)
(* the socket, in dataBufStrand_.  A strand is a queue of handlers that    *)
(* run one at a time, here one per step; net::post appends to it.  The     *)
(* strands of one session are shared by all its transfers.                 *)
(*                                                                         *)
(* writeDataToSocket, its completion and the next writeDataToSocket form   *)
(* a chain, which carries the socket and the fetchMore of the transfer     *)
(* that started it.                                                        *)
(*                                                                         *)
(* The accept handler of LIST asks the file system about every entry of    *)
(* the directory and catches nothing: an entry that has gone, or a         *)
(* directory, whose size nobody can tell, ends the process.                *)
(***************************************************************************)
EXTENDS Naturals, Sequences, FiniteSets

CONSTANTS
  Transfers,    \* the transfer commands the client issues
  Files,        \* those that are RETR; the others send a listing
  Blocks,       \* how many full buffers (of 1 MiB) each file holds
  Null,         \* the null charbuf_ptr; also "no transfer"
  Sequential,   \* the client waits for a final reply before the next command
  PeersBreak    \* data connections may break

ASSUME DataSendAssumption ==
  /\ Files \subseteq Transfers
  /\ Blocks \in [Files -> Nat]
  /\ Null \notin Transfers \cup [of : Transfers, no : Nat]
  /\ Sequential \in BOOLEAN /\ PeersBreak \in BOOLEAN

VARIABLES
  running,     \* the process is there
  acceptor,    \* dataAcceptor_: "closed", "open" (not listening), "listening"
  pending,     \* the transfers whose async_accept is outstanding, in order
  state,       \* how far each transfer is, see States
  toPost,      \* the calls its accept handler has still to make
  pos,         \* the buffers read from its file; all read is eof()
  fileStrand,  \* fileRWStrand_: the reads posted, each for a transfer
  ending,      \* the transfer whose read still has to post its null pointer
  bufStrand,   \* dataBufStrand_: the handlers posted
  dataBuffer,  \* dataBuffer_
  writing,     \* the async_writes under way
  broken,      \* the transfers whose data connection is broken
  sent,        \* the buffers written to the socket of each transfer
  finals       \* the final replies posted for each transfer

acceptVars == <<acceptor, pending, state, toPost>>
readVars == <<pos, fileStrand, ending>>
chainVars == <<bufStrand, dataBuffer, writing, broken, sent>>
workVars == <<acceptVars, readVars, chainVars, finals>>
vars == <<running, workVars>>

CLOSING_DATA_CONNECTION == 226
ERROR_OPENING_DATA_CONNECTION == 425
TRANSFER_ABORTED == 426
FILE_ACTION_NOT_TAKEN == 450
ACTION_ABORTED_LOCAL_ERROR == 451

(* "failed": its accept has completed with an error, its handler is still  *)
(* to run.                                                                 *)
States == {"unused", "refused", "accepting", "failed", "accepted", "aborted"}

(* A file is read into its full buffers and one more, possibly empty, at   *)
(* which the stream is at its end.  A listing is one buffer.               *)
BufferCount(t) == IF t \in Files THEN Blocks[t] + 1 ELSE 1
Buffer(t, i) == [of |-> t, no |-> i]
Content == [t \in Transfers |-> [i \in 1 .. BufferCount(t) |-> Buffer(t, i)]]
Buffers == [of : Transfers, no : Nat]

(* A handler of dataBufStrand_: addDataToBufferAndSend's, which brings its *)
(* data; writeDataToSocket's; or the completion of an async_write.  of is  *)
(* the socket, more whether fetchMore reads on, as only a file's does.     *)
Add(t, data, more) == [op |-> "add", of |-> t, data |-> data, more |-> more, ok |-> TRUE]
Write(t, more)     == [op |-> "write", of |-> t, data |-> Null, more |-> more, ok |-> TRUE]
Done(t, more, ok)  == [op |-> "done", of |-> t, data |-> Null, more |-> more, ok |-> ok]

Handlers ==
  {h \in [op : {"add", "write", "done"}, of : Transfers,
          data : Buffers \cup {Null}, more : BOOLEAN, ok : BOOLEAN] :
     h.more => h.of \in Files}
Writes ==
  {w \in [of : Transfers, data : Buffers, more : BOOLEAN] : w.more => w.of \in Files}

AcceptTypeOK ==
  /\ acceptor \in {"closed", "open", "listening"}
  /\ pending \in Seq(Transfers)
  /\ state \in [Transfers -> States]
  /\ toPost \in [Transfers -> 0 .. 3]

ReadTypeOK ==
  /\ pos \in [Transfers -> Nat]
  /\ fileStrand \in Seq(Files)
  /\ ending \in Files \cup {Null}

ChainTypeOK ==
  /\ bufStrand \in Seq(Handlers)
  /\ dataBuffer \in Seq(Buffers \cup {Null})
  /\ writing \subseteq Writes
  /\ broken \subseteq Transfers
  /\ sent \in [Transfers -> Seq(Buffers)]

Finals == {226, 425, 426, 450, 451}
FinalsTypeOK == finals \in [Transfers -> Seq(Finals)]

WorkTypeOK == AcceptTypeOK /\ ReadTypeOK /\ ChainTypeOK /\ FinalsTypeOK
TypeOK == running \in BOOLEAN /\ WorkTypeOK

Init ==
  /\ running = TRUE
  /\ acceptor = "closed"
  /\ pending = <<>>
  /\ state = [t \in Transfers |-> "unused"]
  /\ toPost = [t \in Transfers |-> 0]
  /\ pos = [t \in Transfers |-> 0]
  /\ fileStrand = <<>>
  /\ ending = Null
  /\ bufStrand = <<>>
  /\ dataBuffer = <<>>
  /\ writing = {}
  /\ broken = {}
  /\ sent = [t \in Transfers |-> <<>>]
  /\ finals = [t \in Transfers |-> <<>>]

SendFinal(t, code) == finals' = [finals EXCEPT ![t] = Append(@, code)]

-----------------------------------------------------------------------------
(* The commands, in msgWriteStrand_.                                       *)

(* PASV closes the acceptor it has, which fails the accepts outstanding,   *)
(* then opens, binds and listens; the socket is left as it was when one of *)
(* the three calls fails.                                                  *)
PASV ==
  /\ acceptor' \in {"closed", "open", "listening"}
  /\ pending' = <<>>
  /\ state' = [t \in Transfers |->
                 IF state[t] = "accepting" THEN "failed" ELSE state[t]]
  /\ UNCHANGED <<toPost, readVars, chainVars, finals>>

(* A client that is Sequential has an answer to its earlier transfers, or  *)
(* has seen their data connection break.                                   *)
MayIssue(t) ==
  /\ state[t] = "unused"
  /\ Sequential => \A u \in Transfers :
       state[u] = "unused" \/ finals[u] # <<>> \/ u \in broken

(* async_accept waits for a peer on a listening socket and fails at once   *)
(* on any other.                                                           *)
AsyncAccept(t) ==
  /\ IF acceptor = "listening"
     THEN /\ pending' = Append(pending, t)
          /\ state' = [state EXCEPT ![t] = "accepting"]
     ELSE /\ state' = [state EXCEPT ![t] = "failed"]
          /\ UNCHANGED pending
  /\ UNCHANGED <<acceptor, toPost, readVars, chainVars, finals>>

RETR(t) ==
  /\ t \in Files
  /\ MayIssue(t)
  /\ acceptor # "closed"
  /\ AsyncAccept(t)

Refuse(t, code) ==
  /\ MayIssue(t)
  /\ state' = [state EXCEPT ![t] = "refused"]
  /\ SendFinal(t, code)
  /\ UNCHANGED <<acceptor, pending, toPost, readVars, chainVars>>

(* The acceptor is not open, or the file cannot be opened. *)
RETRRefused(t) ==
  /\ t \in Files
  /\ \/ acceptor = "closed" /\ Refuse(t, ERROR_OPENING_DATA_CONNECTION)
     \/ acceptor # "closed" /\ Refuse(t, ACTION_ABORTED_LOCAL_ERROR)

(* LIST and NLST do not look whether the acceptor is open. *)
LIST(t) ==
  /\ t \notin Files
  /\ MayIssue(t)
  /\ AsyncAccept(t)

(* There is no such directory, or it may not be read. *)
LISTRefused(t) == t \notin Files /\ Refuse(t, FILE_ACTION_NOT_TAKEN)

-----------------------------------------------------------------------------
(* The accept handlers.                                                    *)

(* Mutant: one read too many is started. *)
AcceptFourReads ==
  /\ pending # <<>>
  /\ LET t == Head(pending) IN
       /\ state' = [state EXCEPT ![t] = "accepted"]
       /\ toPost' = [toPost EXCEPT ![t] = IF t \in Files THEN 4 ELSE 2]
  /\ pending' = Tail(pending)
  /\ UNCHANGED <<acceptor, readVars, chainVars, finals>>

(* The client connects, and the oldest accept gets the connection.  The    *)
(* handler starts three reads of a file, or adds a listing and its end.    *)
Accept ==
  /\ pending # <<>>
  /\ LET t == Head(pending) IN
       /\ state' = [state EXCEPT ![t] = "accepted"]
       /\ toPost' = [toPost EXCEPT ![t] = IF t \in Files THEN 3 ELSE 2]
  /\ pending' = Tail(pending)
  /\ UNCHANGED <<acceptor, readVars, chainVars, finals>>

(* The accept fails for another reason, such as too many open files. *)
AcceptError ==
  /\ pending # <<>>
  /\ state' = [state EXCEPT ![Head(pending)] = "failed"]
  /\ pending' = Tail(pending)
  /\ UNCHANGED <<acceptor, toPost, readVars, chainVars, finals>>

AcceptFailed(t) ==
  /\ state[t] = "failed"
  /\ state' = [state EXCEPT ![t] = "aborted"]
  /\ SendFinal(t, TRANSFER_ABORTED)
  /\ UNCHANGED <<acceptor, pending, toPost, readVars, chainVars>>

(* Mutant: the end of a listing is added before the listing. *)
PostNextEndFirst(t) ==
  /\ toPost[t] > 0
  /\ toPost' = [toPost EXCEPT ![t] = @ - 1]
  /\ IF t \in Files
     THEN /\ fileStrand' = Append(fileStrand, t)
          /\ UNCHANGED bufStrand
     ELSE /\ bufStrand' = Append(bufStrand,
               Add(t, IF toPost[t] = 2 THEN Null ELSE Buffer(t, 1), FALSE))
          /\ UNCHANGED fileStrand
  /\ UNCHANGED <<acceptor, pending, state, pos, ending, dataBuffer, writing,
                 broken, sent, finals>>

(* The next call of the accept handler, while the strands already work on  *)
(* the ones before: readFileDataAndSend, or addDataToBufferAndSend.        *)
PostNext(t) ==
  /\ toPost[t] > 0
  /\ toPost' = [toPost EXCEPT ![t] = @ - 1]
  /\ IF t \in Files
     THEN /\ fileStrand' = Append(fileStrand, t)
          /\ UNCHANGED bufStrand
     ELSE /\ bufStrand' = Append(bufStrand,
               Add(t, IF toPost[t] = 2 THEN Buffer(t, 1) ELSE Null, FALSE))
          /\ UNCHANGED fileStrand
  /\ UNCHANGED <<acceptor, pending, state, pos, ending, dataBuffer, writing,
                 broken, sent, finals>>

(* The accept handler of a LIST throws before it has posted anything.  That *)
(* of NLST only takes the names it was given.                              *)
ListingThrows(t) ==
  /\ t \notin Files /\ toPost[t] = 2
  /\ running' = FALSE
  /\ UNCHANGED workVars

-----------------------------------------------------------------------------
(* fileRWStrand_: the handler of readFileDataAndSend.                      *)

ReadAtEof ==
  /\ ending = Null /\ fileStrand # <<>>
  /\ LET t == Head(fileStrand) IN pos[t] = BufferCount(t)
  /\ fileStrand' = Tail(fileStrand)
  /\ UNCHANGED <<acceptVars, pos, ending, chainVars, finals>>

(* Mutant: the end of the file is not told from a full buffer. *)
ReadBufferNoEnd ==
  /\ ending = Null /\ fileStrand # <<>>
  /\ LET t == Head(fileStrand) IN
       /\ pos[t] < BufferCount(t)
       /\ pos' = [pos EXCEPT ![t] = @ + 1]
       /\ bufStrand' = Append(bufStrand, Add(t, Buffer(t, pos'[t]), TRUE))
  /\ fileStrand' = Tail(fileStrand)
  /\ UNCHANGED <<acceptVars, ending, dataBuffer, writing, broken, sent, finals>>

(* A buffer is read and handed on; at the end of the file there is nothing *)
(* more to fetch, and the null pointer is posted next.                     *)
ReadBuffer ==
  /\ ending = Null /\ fileStrand # <<>>
  /\ LET t == Head(fileStrand) IN
       /\ pos[t] < BufferCount(t)
       /\ pos' = [pos EXCEPT ![t] = @ + 1]
       /\ bufStrand' = Append(bufStrand,
            Add(t, Buffer(t, pos'[t]), pos'[t] < BufferCount(t)))
       /\ ending' = IF pos'[t] = BufferCount(t) THEN t ELSE Null
  /\ fileStrand' = Tail(fileStrand)
  /\ UNCHANGED <<acceptVars, dataBuffer, writing, broken, sent, finals>>

PostEnd ==
  /\ ending # Null
  /\ bufStrand' = Append(bufStrand, Add(ending, Null, FALSE))
  /\ ending' = Null
  /\ UNCHANGED <<acceptVars, pos, fileStrand, dataBuffer, writing, broken,
                 sent, finals>>

-----------------------------------------------------------------------------
(* dataBufStrand_.                                                         *)

Runs(op) == bufStrand # <<>> /\ Head(bufStrand).op = op

(* Mutant: every addition starts a chain of writes. *)
AddDataAlwaysWrites ==
  /\ Runs("add")
  /\ LET h == Head(bufStrand) IN
       /\ dataBuffer' = Append(dataBuffer, h.data)
       /\ bufStrand' = Append(Tail(bufStrand), Write(h.of, h.more))
  /\ UNCHANGED <<acceptVars, readVars, writing, broken, sent, finals>>

(* addDataToBufferAndSend's handler: only an addition to an empty buffer   *)
(* starts a chain; the fetchMore of any other is dropped.                  *)
AddData ==
  /\ Runs("add")
  /\ LET h == Head(bufStrand) IN
       /\ dataBuffer' = Append(dataBuffer, h.data)
       /\ bufStrand' = IF dataBuffer = <<>>
                       THEN Append(Tail(bufStrand), Write(h.of, h.more))
                       ELSE Tail(bufStrand)
  /\ UNCHANGED <<acceptVars, readVars, writing, broken, sent, finals>>

(* writeDataToSocket's handler: write the oldest buffer, which stays in    *)
(* the deque meanwhile...                                                  *)
WriteData ==
  /\ Runs("write")
  /\ Head(dataBuffer) # Null
  /\ LET h == Head(bufStrand) IN
       writing' = writing \cup
         {[of |-> h.of, data |-> Head(dataBuffer), more |-> h.more]}
  /\ bufStrand' = Tail(bufStrand)
  /\ UNCHANGED <<acceptVars, readVars, dataBuffer, broken, sent, finals>>

(* ...or, at the null pointer, end the chain and answer 226. *)
WriteEnd ==
  /\ Runs("write")
  /\ Head(dataBuffer) = Null
  /\ dataBuffer' = Tail(dataBuffer)
  /\ SendFinal(Head(bufStrand).of, CLOSING_DATA_CONNECTION)
  /\ bufStrand' = Tail(bufStrand)
  /\ UNCHANGED <<acceptVars, readVars, writing, broken, sent>>

(* The socket has taken a buffer, or fails if its connection is broken;    *)
(* the completion goes to the strand.                                      *)
WriteCompletes(w) ==
  /\ w \in writing
  /\ writing' = writing \ {w}
  /\ sent' = IF w.of \in broken THEN sent
             ELSE [sent EXCEPT ![w.of] = Append(@, w.data)]
  /\ bufStrand' = Append(bufStrand, Done(w.of, w.more, w.of \notin broken))
  /\ UNCHANGED <<acceptVars, readVars, dataBuffer, broken, finals>>

(* Mutant: the chain ends after one buffer. *)
WriteDoneStops ==
  /\ Runs("done")
  /\ dataBuffer' = Tail(dataBuffer)
  /\ LET h == Head(bufStrand) IN
       fileStrand' = IF h.ok /\ h.more THEN Append(fileStrand, h.of) ELSE fileStrand
  /\ bufStrand' = Tail(bufStrand)
  /\ UNCHANGED <<acceptVars, pos, ending, writing, broken, sent, finals>>

(* The completion: the buffer is popped; after an error that is all, else  *)
(* the chain fetches one more buffer, with the fetchMore it was started    *)
(* with, and goes on if there is anything to write.                        *)
WriteDone ==
  /\ Runs("done")
  /\ dataBuffer' = Tail(dataBuffer)
  /\ LET h == Head(bufStrand) IN
       /\ fileStrand' = IF h.ok /\ h.more
                        THEN Append(fileStrand, h.of) ELSE fileStrand
       /\ bufStrand' = IF h.ok /\ dataBuffer' # <<>>
                       THEN Append(Tail(bufStrand), Write(h.of, h.more))
                       ELSE Tail(bufStrand)
  /\ UNCHANGED <<acceptVars, pos, ending, writing, broken, sent, finals>>

(* The server learns that the data connection is broken: client or network. *)
Break(t) ==
  /\ PeersBreak
  /\ state[t] = "accepted" /\ finals[t] = <<>> /\ t \notin broken
  /\ broken' = broken \cup {t}
  /\ UNCHANGED <<acceptVars, readVars, bufStrand, dataBuffer, writing, sent, finals>>

-----------------------------------------------------------------------------

Client ==
  \/ PASV
  \/ \E t \in Transfers :
       RETR(t) \/ RETRRefused(t) \/ LIST(t) \/ LISTRefused(t) \/ Break(t)
  \/ Accept \/ AcceptError

FileStrand == ReadAtEof \/ ReadBuffer \/ PostEnd

BufStrand == AddData \/ WriteData \/ WriteEnd \/ WriteDone

Sockets == \E w \in writing : WriteCompletes(w)

AcceptHandlers(t) == AcceptFailed(t) \/ PostNext(t)

Work ==
  \/ Client
  \/ \E t \in Transfers : AcceptHandlers(t)
  \/ FileStrand
  \/ BufStrand
  \/ Sockets

Next ==
  /\ running
  /\ \/ Work /\ UNCHANGED running
     \/ \E t \in Transfers : ListingThrows(t)

(* The io_context runs on several threads, which run whatever handler is   *)
(* ready, and a socket whose peer reads takes what it is given.  Nothing   *)
(* obliges the client.                                                     *)
Fairness ==
  /\ \A t \in Transfers : WF_vars(running /\ AcceptHandlers(t) /\ UNCHANGED running)
  /\ WF_vars(running /\ FileStrand /\ UNCHANGED running)
  /\ WF_vars(running /\ BufStrand /\ UNCHANGED running)
  /\ WF_vars(running /\ Sockets /\ UNCHANGED running)

Spec == Init /\ [][Next]_vars
FairSpec == Spec /\ Fairness

-----------------------------------------------------------------------------
(* Properties that hold for every client.                                  *)

InChain(h) == h.op \in {"write", "done"}

(* There is at most one chain of writes, so that no two async_writes run   *)
(* on a socket at once; and while there is one the deque is not empty, so  *)
(* that the front() and pop_front() of writeDataToSocket are defined.      *)
OneChain ==
  /\ \A i, j \in DOMAIN bufStrand :
       InChain(bufStrand[i]) /\ InChain(bufStrand[j]) => i = j
  /\ \A w, x \in writing : w = x
  /\ (\E i \in DOMAIN bufStrand : InChain(bufStrand[i])) => writing = {}
  /\ (\E i \in DOMAIN bufStrand : InChain(bufStrand[i])) \/ writing # {}
       => dataBuffer # <<>>

(* The memory a session takes stays bounded, however slow its peers are    *)
(* and however its transfers mix and break: buffers read but not written,  *)
(* and reads to come, are never more than three for each file and one for  *)
(* each listing that it began to send.                                     *)
Accepted == {t \in Transfers : state[t] = "accepted"}
ReadsToStart == {read \in Files \X (1 .. 3) : read[2] <= toPost[read[1]]}
BuffersHeld == {i \in DOMAIN dataBuffer : dataBuffer[i] # Null}
BuffersToAdd ==
  {i \in DOMAIN bufStrand : bufStrand[i].op = "add" /\ bufStrand[i].data # Null}

MemoryBounded ==
  Cardinality(ReadsToStart) + Len(fileStrand)
    + Cardinality(BuffersHeld) + Cardinality(BuffersToAdd)
      <= 3 * Cardinality(Accepted \cap Files) + Cardinality(Accepted \ Files)

-----------------------------------------------------------------------------
(* Properties for a client that is Sequential.                             *)

(* What goes to a data connection is a prefix of its own file or listing:  *)
(* no buffer is lost, repeated, overtaken or sent to another connection.   *)
SentInOrder ==
  \A t \in Transfers :
    /\ Len(sent[t]) <= Len(Content[t])
    /\ sent[t] = SubSeq(Content[t], 1, Len(sent[t]))

-----------------------------------------------------------------------------
(* Properties for connections that, besides, do not break.                 *)

(* A buffer that waits is going to be written: the deque is never left     *)
(* with something in it and no chain to take it out.                       *)
BufferIsDrained ==
  dataBuffer # <<>> =>
    writing # {} \/ \E i \in DOMAIN bufStrand : InChain(bufStrand[i])

(* Every transfer whose accept has completed, either way, is answered,     *)
(* unless a listing has ended the process.                                 *)
TransferIsAnswered ==
  \A t \in Transfers :
    state[t] \in {"accepted", "failed"} ~> finals[t] # <<>> \/ ~running

(* The session keeps the promise of DataStream. *)
Stream == INSTANCE DataStream WITH
  Transfers <- Transfers, Content <- Content, sent <- sent, finals <- finals
StreamSpec == Stream!Spec

=============================================================================
