---------------------------- MODULE DataReceive ----------------------------
(***************************************************************************)
(* How sessions receive files (STOR and APPE) over their data connections: *)
(* FTP-Server/FTPSession.cpp from the command to the last byte on disk,    *)
(* for several sessions, which share the file system and one flag,         *)
(* isUploading_.                                                           *)
(*                                                                         *)
(* STOR takes one step for each access to something shared, because the    *)
(* handlers of other sessions run on other threads meanwhile.  An upload   *)
(* then alternates between a read of its socket, whose completion no       *)
(* strand protects, and a write to its file in fileRWStrand_, whose        *)
(* handler starts the next read (fetchMore) before it writes.              *)
(*                                                                         *)
(* A file is the log of what was written to it since it was truncated.     *)
(* What the session's other state decides (the login, the data port, the   *)
(* directory bits) is a choice here.                                       *)
(***************************************************************************)
EXTENDS Naturals, Sequences, FiniteSets

CONSTANTS
  Sessions,
  Uploads,     \* the upload commands that clients issue
  Appends,     \* those that are APPE; the others are STOR
  Owner,       \* the session that each is issued in
  Paths,
  Path,        \* the file that each names
  Size,        \* how many buffers (of 1 MiB, the last shorter) each sends
  Null,        \* no upload, nothing
  PeersBreak,  \* data connections may break
  DiskFails    \* a write to a file may fail

ASSUME DataReceiveAssumption ==
  /\ Appends \subseteq Uploads
  /\ Owner \in [Uploads -> Sessions]
  /\ Path \in [Uploads -> Paths]
  /\ Size \in [Uploads -> Nat]
  /\ Null \notin Uploads \cup [of : Uploads, no : Nat, more : BOOLEAN]
  /\ PeersBreak \in BOOLEAN /\ DiskFails \in BOOLEAN

VARIABLES
  isUploading,  \* isUploading_, shared by all sessions
  at,           \* how far the command handler of each upload is, see Steps
  conn,         \* what its data connection does, see Conns
  received,     \* how many buffers it has received
  fileStrand,   \* fileRWStrand_ of each session: the writes posted
  writing,      \* the write that is past its fetchMore(), or Null
  bad,          \* the uploads whose file stream has failed
  store,        \* what has been written to each file since its truncation
  finals        \* the final replies posted for each upload

commandVars == <<isUploading, at>>
strandVars == <<fileStrand, writing, bad, store>>
vars == <<commandVars, conn, received, strandVars, finals>>

(* "opened" to "receiving" are the places inside handleFTPCmdSTOR. *)
Steps == {"unused", "opened", "checked", "claimed", "receiving", "replied", "refused"}
InHandler == {"opened", "checked", "claimed", "receiving"}

(* "idle": between a read and the next; "ending": its last read has been   *)
(* answered but not yet handed on.                                         *)
Conns == {"none", "accepting", "reading", "idle", "ending", "closed"}

Buffer(u, i) == [of |-> u, no |-> i]
Old == Buffer(Null, 0)  \* what a file holds from earlier
Contents == [of : Uploads \cup {Null}, no : Nat]
Writes == [of : Uploads, no : Nat, more : BOOLEAN]

CLOSING_DATA_CONNECTION == 226
TRANSFER_ABORTED == 426
ACTION_NOT_TAKEN == 550  \* also for 425, 451, 530 and 553 before the open
FILENAME_NOT_ALLOWED == 553

CommandTypeOK == isUploading \in BOOLEAN /\ at \in [Uploads -> Steps]

ConnTypeOK ==
  /\ conn \in [Uploads -> Conns]
  /\ received \in [Uploads -> Nat]

StrandTypeOK ==
  /\ fileStrand \in [Sessions -> Seq(Writes)]
  /\ writing \in [Sessions -> Writes \cup {Null}]
  /\ bad \subseteq Uploads

StoreTypeOK == store \in [Paths -> Seq(Contents)]

FinalsTypeOK == finals \in [Uploads -> Seq({226, 426, 550, 553})]

TypeOK == CommandTypeOK /\ ConnTypeOK /\ StrandTypeOK /\ StoreTypeOK /\ FinalsTypeOK

Init ==
  /\ isUploading = FALSE
  /\ at = [u \in Uploads |-> "unused"]
  /\ conn = [u \in Uploads |-> "none"]
  /\ received = [u \in Uploads |-> 0]
  /\ fileStrand = [s \in Sessions |-> <<>>]
  /\ writing = [s \in Sessions |-> Null]
  /\ bad = {}
  /\ store = [p \in Paths |-> <<Old>>]
  /\ finals = [u \in Uploads |-> <<>>]

SendFinal(u, code) == finals' = [finals EXCEPT ![u] = Append(@, code)]

-----------------------------------------------------------------------------
(* The commands, in msgWriteStrand_ of their session.                      *)

Step(u, from, to) == at[u] = from /\ at' = [at EXCEPT ![u] = to]

(* No command of the same session is being handled. *)
StrandFree(u) == \A v \in Uploads : Owner[v] = Owner[u] => at[v] \notin InHandler

(* One of the early returns before the file is opened. *)
Refuse(u) ==
  /\ Step(u, "unused", "refused")
  /\ StrandFree(u)
  /\ SendFinal(u, ACTION_NOT_TAKEN)
  /\ UNCHANGED <<isUploading, conn, received, strandVars>>

(* STOR opens its file for output, which truncates it. *)
OpenSTOR(u) ==
  /\ u \notin Appends
  /\ Step(u, "unused", "opened")
  /\ StrandFree(u)
  /\ store' = [store EXCEPT ![Path[u]] = <<>>]
  /\ UNCHANGED <<isUploading, conn, received, fileStrand, writing, bad, finals>>

FindUploading(u) ==
  /\ isUploading
  /\ Step(u, "opened", "refused")
  /\ SendFinal(u, FILENAME_NOT_ALLOWED)
  /\ UNCHANGED <<isUploading, conn, received, strandVars>>

FindFree(u) ==
  /\ ~isUploading
  /\ Step(u, "opened", "checked")
  /\ UNCHANGED <<isUploading, conn, received, strandVars, finals>>

(* thisClientUploading_ is set and cleared along with isUploading_, and no *)
(* other handler of the session runs in between.                           *)
Claim(u) ==
  /\ Step(u, "checked", "claimed")
  /\ isUploading' = TRUE
  /\ UNCHANGED <<conn, received, strandVars, finals>>

receiveFile(u) == conn' = [conn EXCEPT ![u] = "accepting"]

ReceiveSTOR(u) ==
  /\ Step(u, "claimed", "receiving")
  /\ receiveFile(u)
  /\ UNCHANGED <<isUploading, received, strandVars, finals>>

(* Mutant: the flag is left set. *)
ReleaseForgets(u) ==
  /\ Step(u, "receiving", "replied")
  /\ UNCHANGED <<isUploading, conn, received, strandVars, finals>>

Release(u) ==
  /\ Step(u, "receiving", "replied")
  /\ isUploading' = FALSE
  /\ UNCHANGED <<conn, received, strandVars, finals>>

(* APPE does not look at the flag, and keeps what the file holds. *)
APPE(u) ==
  /\ u \in Appends
  /\ Step(u, "unused", "replied")
  /\ StrandFree(u)
  /\ receiveFile(u)
  /\ UNCHANGED <<isUploading, received, strandVars, finals>>

-----------------------------------------------------------------------------
(* The accept and read handlers, in no strand.                             *)

SetConn(u, from, to) == conn[u] = from /\ conn' = [conn EXCEPT ![u] = to]

Accept(u) ==
  /\ SetConn(u, "accepting", "reading")
  /\ UNCHANGED <<commandVars, received, strandVars, finals>>

(* The accept fails, for instance because a PASV closes the acceptor. *)
AcceptFailed(u) ==
  /\ SetConn(u, "accepting", "closed")
  /\ SendFinal(u, TRANSFER_ABORTED)
  /\ UNCHANGED <<commandVars, received, strandVars>>

(* writeDataToFile, with a fetchMore that reads on or with the default. *)
writeDataToFile(u, i, more) ==
  fileStrand' = [fileStrand EXCEPT
    ![Owner[u]] = Append(@, [of |-> u, no |-> i, more |-> more])]

(* Mutant: the next read is started right away, and again by fetchMore. *)
ReadFullReadsOn(u) ==
  /\ conn[u] = "reading"
  /\ received[u] < Size[u]
  /\ received' = [received EXCEPT ![u] = @ + 1]
  /\ writeDataToFile(u, received'[u], TRUE)
  /\ UNCHANGED <<commandVars, conn, writing, bad, store, finals>>

(* A full buffer has come. *)
ReadFull(u) ==
  /\ SetConn(u, "reading", "idle")
  /\ received[u] < Size[u]
  /\ received' = [received EXCEPT ![u] = @ + 1]
  /\ writeDataToFile(u, received'[u], TRUE)
  /\ UNCHANGED <<commandVars, writing, bad, store, finals>>

(* The read completes with an error, because the client has sent all and   *)
(* closed its socket or because the connection broke; rest: it also brings *)
(* what came since the last full buffer.  The code answers 226 first.      *)
ReadEnd(u, rest) ==
  /\ rest => received[u] < Size[u]
  /\ received' = [received EXCEPT ![u] = IF rest THEN @ + 1 ELSE @]
  /\ SetConn(u, "reading", IF rest THEN "ending" ELSE "closed")
  /\ received'[u] = Size[u] \/ PeersBreak
  /\ SendFinal(u, CLOSING_DATA_CONNECTION)
  /\ UNCHANGED <<commandVars, strandVars>>

(* Mutant: the rest is forgotten. *)
PostLastForgets(u) ==
  /\ SetConn(u, "ending", "closed")
  /\ UNCHANGED <<commandVars, received, strandVars, finals>>

PostLast(u) ==
  /\ SetConn(u, "ending", "closed")
  /\ writeDataToFile(u, received[u], FALSE)
  /\ UNCHANGED <<commandVars, received, writing, bad, store, finals>>

-----------------------------------------------------------------------------
(* fileRWStrand_: the handler of writeDataToFile.                          *)

(* Mutant: after a failed write the client's data is no longer read. *)
FetchMoreIfGood(s) ==
  /\ writing[s] = Null /\ fileStrand[s] # <<>>
  /\ writing' = [writing EXCEPT ![s] = Head(fileStrand[s])]
  /\ fileStrand' = [fileStrand EXCEPT ![s] = Tail(@)]
  /\ LET w == Head(fileStrand[s]) IN
       conn' = IF w.more /\ w.of \notin bad
               THEN [conn EXCEPT ![w.of] = "reading"] ELSE conn
  /\ UNCHANGED <<commandVars, received, bad, store, finals>>

(* fetchMore() starts the next read... *)
FetchMore(s) ==
  /\ writing[s] = Null /\ fileStrand[s] # <<>>
  /\ writing' = [writing EXCEPT ![s] = Head(fileStrand[s])]
  /\ fileStrand' = [fileStrand EXCEPT ![s] = Tail(@)]
  /\ LET w == Head(fileStrand[s]) IN
       conn' = IF w.more THEN [conn EXCEPT ![w.of] = "reading"] ELSE conn
  /\ UNCHANGED <<commandVars, received, bad, store, finals>>

(* ...then the buffer is written to the stream, if that is still good. *)
WriteFile(s) ==
  /\ writing[s] # Null
  /\ LET w == writing[s] IN
       store' = IF w.of \in bad THEN store
                ELSE [store EXCEPT ![Path[w.of]] = Append(@, Buffer(w.of, w.no))]
  /\ writing' = [writing EXCEPT ![s] = Null]
  /\ UNCHANGED <<commandVars, conn, received, fileStrand, bad, finals>>

(* Mutant: the stream recovers from a failed write. *)
WriteFailsOnce(s) ==
  /\ DiskFails
  /\ writing[s] # Null
  /\ writing' = [writing EXCEPT ![s] = Null]
  /\ UNCHANGED <<commandVars, conn, received, fileStrand, bad, store, finals>>

(* The write fails, and with it every later one to this stream, which the  *)
(* code does not look at.                                                  *)
WriteFails(s) ==
  /\ DiskFails
  /\ writing[s] # Null
  /\ bad' = bad \cup {writing[s].of}
  /\ writing' = [writing EXCEPT ![s] = Null]
  /\ UNCHANGED <<commandVars, conn, received, fileStrand, store, finals>>

-----------------------------------------------------------------------------

Handler(u) ==
  \/ FindUploading(u) \/ FindFree(u) \/ Claim(u) \/ ReceiveSTOR(u) \/ Release(u)

Client(u) ==
  \/ Refuse(u) \/ OpenSTOR(u) \/ APPE(u)
  \/ Accept(u) \/ AcceptFailed(u) \/ ReadFull(u)
  \/ \E rest \in BOOLEAN : ReadEnd(u, rest)

FileStrand(s) == FetchMore(s) \/ WriteFile(s) \/ WriteFails(s)

Next ==
  \/ \E u \in Uploads : Client(u) \/ Handler(u) \/ PostLast(u)
  \/ \E s \in Sessions : FileStrand(s)

(* Handlers that have begun go on, and those posted to a strand run.       *)
(* Nothing obliges the client.                                             *)
Fairness ==
  /\ \A u \in Uploads : WF_vars(Handler(u)) /\ WF_vars(PostLast(u))
  /\ \A s \in Sessions : WF_vars(FileStrand(s))

Spec == Init /\ [][Next]_vars
FairSpec == Spec /\ Fairness

-----------------------------------------------------------------------------
(* Properties.                                                             *)

(* A write that waits for its turn is the only one of its upload, and that *)
(* upload reads nothing meanwhile: no two reads of a socket are ever       *)
(* outstanding, so that its buffers are posted in the order they came.     *)
OneRead ==
  \A s \in Sessions : \A i, j \in DOMAIN fileStrand[s] :
    LET w == fileStrand[s][i] IN
      /\ conn[w.of] = IF w.more THEN "idle" ELSE "closed"
      /\ fileStrand[s][j].of = w.of => i = j

(* What an upload has in its file is a run of its buffers, each once and   *)
(* in order, none missing in between, whatever the other uploads of its    *)
(* session do and even if the disk fills up on the way; and the run begins *)
(* with the first buffer unless another upload truncated the file.         *)
Stored(u) == {i \in DOMAIN store[Path[u]] : store[Path[u]][i].of = u}
StoredNo(u, i) == store[Path[u]][i].no
Alone(u) == \A v \in Uploads : Path[v] = Path[u] => v = u \/ v \in Appends

StoredInOrder ==
  \A u \in Uploads :
    /\ \A i, j \in Stored(u) :
         i < j /\ (\A k \in Stored(u) : k <= i \/ j <= k)
           => StoredNo(u, j) = StoredNo(u, i) + 1
    /\ Alone(u) => \A i \in Stored(u) :
         (\A k \in Stored(u) : i <= k) => StoredNo(u, i) = 1

(* isUploading_ is set only while some STOR is between setting and         *)
(* clearing it: a STOR is refused because of another one, never because of *)
(* one that is gone.                                                       *)
FlagIsHeld == isUploading => \E u \in Uploads : at[u] \in {"claimed", "receiving"}

(* An upload keeps reading what its client sends, even into a stream that  *)
(* has failed: the client is never left with a full socket.                *)
ReadGoesOn == \A u \in Uploads : conn[u] = "idle" ~> conn[u] = "reading"

(* Everything that came of an upload that was answered 226 is in its file  *)
(* at last, unless the disk failed or another STOR truncated the file.     *)
AllStored ==
  \A u \in Uploads :
    Alone(u) /\ finals[u] = <<CLOSING_DATA_CONNECTION>>
      ~> u \in bad \/ Cardinality(Stored(u)) = received[u]

-----------------------------------------------------------------------------
(* What the code does not do although it says so.                          *)

(* FTPSession.cpp:717, "Another client is uploading.": two sessions do not *)
(* upload with STOR at the same time.  Both may find the flag clear before *)
(* either sets it.                                                         *)
UploadsNow(u) == u \notin Appends /\ conn[u] \in {"accepting", "reading", "idle", "ending"}
OneUploader ==
  \A u, v \in Uploads : UploadsNow(u) /\ UploadsNow(v) => Owner[u] = Owner[v]

=============================================================================
