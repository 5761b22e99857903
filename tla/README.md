# A TLA+ model of the FTP server and its client

This directory models the programs of this repository: a multi-threaded FTP
server (`FTP-Server/`), the client library it comes with (`FTP-Client/`), and
the parts of the networking library (`networking-ts-impl/`) their behaviour
rests on: the scheduler with its reactor, strands, and the composed reads and
writes. TLC checks the modules on small instances, and TLAPS proves the
invariants that matter most for every value of the constants.

Line numbers below are those of `FTP-Server/FTPSession.cpp` unless another file
is named. `networking-ts-impl/include/experimental/__net_ts/` is left out in
front of the files of the library.

## 1. The system

`main()` creates an `FTPServer`, which accepts connections and runs one
`io_context` on several threads. Every connection becomes an `FTPSession`. A
handler runs on whichever thread is free; handlers posted to the same *strand*
run one at a time and in order. A session has three strands:

| strand | what runs in it |
|---|---|
| `msgWriteStrand_` | the command handlers and the queue of replies |
| `fileRWStrand_` | reads of files that are sent, writes of files that come |
| `dataBufStrand_` | the deque `dataBuffer_` and the writes to data sockets |

Accept handlers and the reads of data sockets are in no strand. Sessions share
the account table, the registry, the flag `isUploading_` and the file system.

### Components

| component | state | operations | hard because of | what makes it correct |
|---|---|---|---|---|
| Accounts (`UserDatabase`) | map from names to accounts, the anonymous account, under a mutex | `getUser`, `addUser` | threads | an account is never taken over; a password is checked |
| Registry (`FTPLoggedUser`) | set of sessions, under a mutex | `join`, `leave` | threads, lifetime | who is logged in is in it |
| Command session | `sessionUser_`, `username_`, `lastCmd_` | 30 FTP commands | order of commands, other sessions | the login is that of the name and password given |
| Sending | acceptor, `dataBuffer_`, two strands, sockets | PASV, RETR, LIST, NLST and five kinds of handlers | interleaving, order, broken connections, memory | the peer gets the file, whole and in order, then the client gets 226 |
| Receiving | `isUploading_`, file streams, sockets | STOR, APPE and three kinds of handlers | threads of other sessions, broken connections, full disk | the file is what the client sent; STORs exclude each other |
| Files and directories | the tree, `ftpWorkingDir_`, `renameSrcPath_` | CWD, CDUP, RNFR, RNTO, DELE, RMD, MKD, SIZE | look-then-act, exceptions | refused commands change nothing, no file is lost |
| Control channel | `cmdInputStr_`, `msgOutputQueue_` | `readFTPCmd`, `sendFTPMsg`, `startSendingMsgs` | replies posted by several threads, lines read together, write errors | every command is answered once, in order |
| Notifications | `notiSocket_` of each session | NOTI, `deliver` | several announcers, reconnects, buffers that are gone before they are written | writes of announcements begin in their order, and none is missing for a client that is connected |
| Accept loop, lifetimes | acceptor, `shared_ptr`s in handlers and registry | `start`, `acceptSession`, the destructor | errors, exceptions, objects kept alive by handlers | clients are served; nobody calls a dead session |
| Client library (`FTPClient`) | two sockets, a call in progress | connect, login, upload, download, ... | replies that come together, early returns | it stays in step with the server; calls return |
| Composed operations | a write's and a read's progress | `write`, `read_until`, `read` | pieces of any size, delimiters cut in two | what is written arrives, lines at once, buffers full |
| Scheduler and reactor | queue of operations, event, epoll set | `post`, `run`, `start_op`, `deregister_descriptor` | lost wake-ups, edges reported once | every handler runs once; input that came is read |
| Strands | two queues and a flag each | `post`, `dispatch`, the invoker | the ready queue is used without the mutex | one handler at a time, in order, all of them |
| Listing text, command line | none | formatting, parsing | | |

They interact by calls (command session to accounts, registry, sending,
receiving), by handlers posted to strands (replies to the control channel,
reads and writes among the strands), by the two kinds of connections between
server and client, and by the shared state named above.

## 2. Modules

| module | models | state and actions |
|---|---|---|
| `UserDatabase` | `UserDatabase.cpp` | `userDb`; operators `getUser`, `addUser` as atomic parts of a handler's step |
| `FTPLoggedUsers` | `FTPLoggedUsers.hpp` | `loggedUsers`, `news`; `join`, `leave` likewise |
| `FTPSession` (EXTENDS both) | 95-105, 129-150, 171-342, 457-519, 584-591 | one `Handle...` per command or class of commands, then `Finish`, the end of `handleFTPCmd` |
| `DataStream` | what a download promises | abstract: chunks in order, one reply |
| `DataSend` | 386-453, 599-629, 661-682, 903-1077 | one action per kind of handler, strands as sequences of handlers |
| `DataReceive` | 684-727, 751-781, 1079-1125 | STOR in one action per access to shared state, one action per handler of the data path |
| `FTPFiles` | 344-384, 526-578, 729-744, 793-891 | one action per command; RNTO, DELE, SIZE in two, the look and the call |
| `CommandReplies` | what a session promises on its control connection | abstract: commands heard and answered |
| `ControlChannel` | 95-169, 318-342, 599-629, 996-1012, 1060-1075 | `msgWriteStrand_` as a sequence of handlers; reads and writes that complete or fail; transfers reduced to accepting, moving, over |
| `FTPClient` (EXTENDS `ControlChannel`) | `FTP-Client/FTPClient.cpp` | a call as a script: `awaiting` is the read it is blocked in, one action for the end of each |
| `FTPServer` | `FTPServer.cpp`, `FTPLoggedUsers.hpp`, 81-117, 475-492 | `phase` of each session; join and leave as lock, change, one `deliver` per member, unlock; NOTI as a close and a connect; the writes of announcements, which may wait (`queued`), be cut in two (`cut`) and find another text at their place |
| `ComposedOperations` | `impl/write.hpp`, `impl/read_until.hpp`, `impl/read.hpp`, `detail/consuming_buffers.hpp` | one action per `write_some` or `read_some`, of any number of bytes |
| `Executor` | what an `io_context` promises | abstract: due, current, done |
| `Scheduler` | `detail/impl/scheduler.ipp`, `detail/posix_event.hpp`, `detail/impl/epoll_reactor.ipp` | `pc` of each thread; what one hold of a mutex covers is one step |
| `StrandQueue` | what a strand promises | abstract: a queue each, and the handlers every thread is in |
| `Strand` | `detail/impl/strand_executor_service.{hpp,ipp}` | a stack of calls per thread; one action per hold of the strand's mutex |
| `MC...` | | instances for TLC |
| `..._proofs` | | theorems and proofs |

How they fit together:

* `FTPSession` composes accounts and registry; `FTPClient` composes the client
  with the control channel; `ComposedOperations` has both ends of a connection.
* Four detailed modules implement abstract ones by `INSTANCE ... WITH`:
  `DataSend` implements `DataStream`, `FTPClient` (its server side)
  `CommandReplies`, `Scheduler` `Executor`, and `Strand` `StrandQueue`.
* What one module assumes another one shows. That a strand is a queue whose
  handlers run one at a time (all modules of the server) is `StrandSpec`; that
  what is posted to the `io_context` runs (`Strand`) is `ExecutorSpec`; that an
  upload is read in full buffers (`DataReceive`) is `BuffersFull`; that the
  line a read hands over is whole, and that nothing is lost but what stood
  behind a line in the same read (`ReadLines` of `ControlChannel`, `recvFTPMsg`
  of `FTPClient`), is `LinesArrive`.
* Which commands are let through is decided in `FTPSession`; `DataSend`,
  `DataReceive` and `FTPFiles` take a session that is logged in. `DataReceive`
  sees files as logs of writes, `FTPFiles` as entries of a tree.

### How finely steps are cut

* A strand is a queue; its first handler runs as one step, except where it
  posts twice or touches what another strand sees in between (`ReadBuffer`
  then `PostEnd`; `ReadEnd` then `PostLast`; `FetchMore` then `WriteFile`;
  `PostNext` once for each call of the accept handler; `HandleCommand` then
  `FinishCommand`, between which a transfer may post its 226).
* `PASS` after `UADD` does `addUser` and `join` in one step: both are atomic,
  and no step of another session reads both account table and registry.
* `WriteDone` of `DataSend` posts the next read and the next write in one step.
  They go to different strands, so their order cannot be seen.
* The completion of an accept and the start of its handler are one step in the
  good case. An accept that fails completes first and is handled later,
  because a transfer may be started in between.
* `Break` of `DataSend` is the moment the server learns of a broken connection;
  every write that completes after it fails.
* `DataReceive` keeps, in place of a file's bytes, the log of what was written
  since the file was truncated. Data in a stream's own buffer counts as
  written. What two uploads do to each other's bytes is not told from the log;
  which buffers each of them wrote, and in which order, is.
* `DataSend` and `DataReceive` record final replies; the 150 before them, and
  the order of the two, are in `ControlChannel`.
* In `ControlChannel` a command is accepted or refused without a reason, which
  covers whatever the other modules decide. In `FTPClient` a line or reply
  arrives whole (see above); a read gets one or more of those that have come,
  and keeps the first. A call whose reply never comes ends with one failure,
  whichever the exception is.
* In `ComposedOperations` a line may be written when the write of the one
  before has completed, whether or not that one was read. `crowded` and
  `dropped` are history variables, of a line begun too early and of the bytes
  cleared behind a line.
* In `FTPServer` a call of `deliver` comes wholly before or after each of the
  two calls NOTI makes on `notiSocket_`, the close and the connect, and the
  descriptor of a closed socket is not given to another connection. What is at
  the place of a string that is gone is the announcement, the text of a later
  one, or neither.
* `RMD` and `CWD` are one step, although the library visits the tree entry by
  entry. The root directory of the accounts, `Home`, is one of the paths and
  not `/`: a path that sorts before it becomes `Home`, and one that is beside
  it and sorts after it stays as it is (350), so that commands may work outside
  of `Home`. Parameters that lead to other places than the paths of the
  instance are not enumerated (`Takes`). There are no links.
* In `FTPFiles` files are there from the start: uploads, which create and
  change files, are in `DataReceive`, which keeps no tree.
* A call to the file system fails for the reasons a tree has. Permissions are
  left out, and with them the branches that answer 550 for a lack of them.
* `Scheduler` has reads and accepts on its sockets, a unit of input for each,
  and signals and spurious wake-ups as POSIX allows them. `Strand` runs what
  it posts on any thread of the `io_context` and lets handlers dispatch and
  post from inside other handlers, of the same strand or another.

## 3. Properties and runs

Every property of a passing run has a mutant in its module, marked `Mutant:`:
a variant of one definition, as a slip in the code would make it, that no
specification uses. TLC finds the property violated once the mutant takes the
definition's place.

| run | instance | what it shows |
|---|---|---|
| `session` | two sessions; the test account, one further name, the empty name; two passwords | safety of login and registry under every order and interleaving of commands |
| `send` | a file of four full buffers, one of one, a listing; one after the other; no breaks | a buffer that waits is written, every transfer is answered unless the listing's handler throws and ends the server, and the refinement of `DataStream`: whole, in order, then 226 |
| `overlap` | the short file and the listing at once; connections break | one chain of writes, bounded memory |
| `receive` | two sessions, two STORs of one buffer to one file and an APPE of two, unwaited for, to another; breaks and a full disk | order of reads and writes, the flag; reading goes on, everything is stored at last |
| `files` | one session; every tree of up to two files on the root directory `h`, `h/a`, `h/b`, `h/a/b`, and `i` and `/` outside of it | renames and deletions, refused commands, also outside of the root directory |
| `client` | four commands, any calls, a connection that may be lost at any time | one write of a reply at a time and none left behind (`OneWrite`); nothing of a call is left when it returns (`NothingLeftOver`); answers are taken for the right command (`InStep`); every command is answered, in order (`AnswersSpec`); calls return (`CallsReturn`) |
| `server` | two clients, two commands; one write of an announcement may be taken in part | writes of announcements begin in their order and for all who are connected (`HeardInOrder`, `NobodyMissed`), only living sessions are told (`ToldAreAlive`), clients are accepted while the loop runs and no command waits for ever (`ClientsAreServed`) |
| `transfer` | every placement of `\r` and `\n` in lines of up to five bytes, alone or before one or two others; uploads and listings of up to seven bytes; buffers of three, a kernel that holds four, pieces of one to three | lines arrive whole, in order and as soon as they are there, and all of them until one is dropped behind another; that happens only to a line begun before the one in front of it was read; full buffers; everything else arrives unless the connection breaks |
| `strand` | two strands, four handlers, three of them of one strand, three threads | one at a time, and the refinement of `StrandQueue` |
| `scheduler` | three threads, one socket, two handlers, one unit of input | no operation is queued twice, no wake-up and no input lost, the refinement of `Executor`, and reads that complete |

The bounds are small, but the cases of the code are in them. A file of four
buffers has more buffers than the three reads started at once, one of a single
buffer (two reads) has fewer, so reads at the end of the file occur. Two
uploads of one session share its strand, and one of another session shares the
file and the flag. Two sessions suffice for races over a name or the registry's
mutex: all actions read one session's state and what is shared. Four commands
are two transfers, or a login, and what follows from what the first leaves; two
of the clients of `server` let both announce at the same time (a QUIT does so
twice), one of them connect or reconnect in between, and a rest be written
behind a later write. Three threads are one in `epoll_wait`, one in a handler
and one asleep, or two that are woken at once. Seven bytes are two full buffers
and a rest, six two full buffers, and a message is longer than a piece and than
the kernel's room. Six paths give a directory with an entry, an empty one, a
missing parent and a target that exists, and a path on each side of the
comparison at 350. `CHECK_DEADLOCK FALSE` is right in all runs: the clients
stop when they have issued what the instance has for them, and the threads of
an `io_context` sleep when there is nothing to do.

`NothingLeftOver`, `InStep` and `CallsReturn` speak of calls while nothing has
gone *astray*: the client has dropped no reply and abandoned no transfer. Both
happen in the code, see below, and the runs have them; what is shown is that
nothing else brings client and server out of step.

### Where the code does not do what it says

Each of these runs checks one statement of a comment or reply, and TLC violates
it. `PROJECT.json` quotes the statement.

| run | property | what happens |
|---|---|---|
| `mixed` | `SentInOrder` | what a broken transfer left in `dataBuffer_` goes out on the next transfer's connection, or ends it |
| `one` | `OneUploader` | two sessions find `isUploading_` clear (715) before either sets it (719), and both upload |

`SentInOrder` holds while connections do not break: that is part of the
refinement of `DataStream` in `send`.

Other disagreements are plain from the lines, and the models have them without
a run:

* Sessions. QUIT leaves the registry at 587 and the end of the same command
  enters it again at 328. Every known command announces "logged in". A session
  whose connection is lost stays in the registry, which keeps it alive. A
  session that is destroyed calls `shared_from_this()` (88), which throws out
  of the destructor and ends the server. No anonymous account is created,
  although main.cpp:13-15 speaks of one (`Init`).
* Uploads. `isUploading_` is cleared at 722-723, before the upload starts, so a
  second STOR need not be that early. 226 is posted before the last buffer is
  written (1103-1107), also when the connection broke in the middle. A STOR
  refused because another is uploading has truncated its file (710 is before
  715).
* Listings. The accept handler of LIST asks for the size and the time of every
  entry (402-413), which throws on a subdirectory and on an entry that is gone:
  the server ends and the LIST is not answered (`ListingThrows`).
* Control channel. A PASV that is refused has closed the acceptor (605), so
  accepts that wait fail (`ReopenAcceptor`).
* Announcements. `deliver` hands `async_write` a buffer that points into a
  string of `join` or `leave` (FTPLoggedUsers.hpp:21, 27), which is gone when
  these return; `write.hpp`:419 asks for buffers "that they remain valid until
  the handler is called." A write that has to wait, behind the connect of NOTI,
  behind other writes or for a client that does not read, sends what is at that
  place by then (`Texts`). The rest of a write that was taken in part goes out
  behind later ones, or over another connection (`SendRest`).
* Files. `FTP2LocalPath` compares paths in lexicographic order (350): `..` from
  the root directory comes back to it, `../i` does not if `i` sorts behind it.
  RNTO looks for the target and renames in two steps (826-840):
  `RenameKeepsFiles` holds for one session and fails for two, and
  `DeleteSparesDirectories` likewise, as `fs::remove` takes an empty directory
  that came to the file's place. A failed RNFR keeps the source of an earlier
  one (796, 810). A call that throws ends the server (`Throw`). A file that
  opens but cannot be read is sent as empty buffers for ever (1016).
* Client. `recvFTPMsg` keeps the first reply of what it read and drops the
  rest; the server begins its 226 as soon as the write of the 150 completes, so
  both may come together. A transfer that returns early leaves its 226 behind:
  from then on every answer is taken for the one before. The client then sends
  a second command before the server has read the first, the server drops the
  second line with its buffer (139), and the client waits for ever; this needs
  five commands. `rm` sends RMD.
* Server. `remote_endpoint()` throws if the client has gone before it was
  accepted (`AcceptGone`). The accept loop ends at the first error
  (`AcceptFails`), and a failed bind does not stop `start`. NOTI connects to
  the server's own local address, and a second NOTI on a broken connection
  throws (`ShutdownThrows`), as does a port that is no number (`StoiThrows`).
  `get_logged_user` is not used.

## 4. Fairness

`FTPServer::start` (FTPServer.cpp:26-29) runs the `io_context` on several
threads, which run any handler that is ready. A handler that was posted is
therefore run, and one that has begun goes on: weak fairness of each strand, of
each accept handler and of each command handler that has begun. `Scheduler` and
`Strand` show what this rests on: there, only the threads' own steps are fair.

* `DataSend`: `WF_vars(Sockets)` says that a socket takes what it is given,
  which TCP grants to a peer that reads; so `TransferIsAnswered` is about peers
  that read. Nothing is asked of the client.
* `DataReceive`: commands, connections and data may fail to come; the liveness
  properties begin with what the server has received.
* `FTPClient`: the connection carries what is written or fails, and a call that
  is begun goes on when its reply is there (`WF_vars(ClientReads)`); nobody has
  to make a call. The end of each transfer is fair on its own, as each has its
  own handlers.
* `FTPServer`: each session's handler that has begun goes on. `std::mutex` is
  not fair, but weak fairness is enough as finitely many commands compete.
* `ComposedOperations`: the kernels carry at least a byte some time, and the
  `io_context` runs the operations again; nobody need write or close.
* `Scheduler`, `Strand`: weak fairness of each thread's steps: threads get the
  processor and handlers return. Signals and spurious wake-ups come as they
  like; a signal wakes one sleeper if there is one.

## 5. Proofs

The proofs are for any values of the constants (sessions, names, transfers,
files, threads, strands, sockets, delimiters, sizes), and use only the named
assumptions on them, which TLC evaluates in every run.

* `FTPSession_proofs`: `TypeCorrect`, `LoginSafe`, `NobodySafe`,
  `PasswordSafe`, `RegistrySafe`, `AccountsSafe`, `SignUpSafe`.
  `LoginMatchesName` is not inductive: that a 230 belongs to the current
  account needs to know that nobody is logged in between a name and its
  password, which needs what `lastCmd_` will become. The invariant `IInv` is
  the conjunction of the type invariant and the four state properties, which
  support each other; the two action properties follow from the code of
  `addUser` and from `IInv`.
* `DataSend_proofs`, for every client: `TypeCorrect`, `ChainSafe` and
  `MemorySafe`. `OneChain` is inductive with the types: `AddData` starts a
  chain only when the deque is empty, a chain keeps its buffer in the deque
  until its completion, and each link of a chain replaces the one before.
  `MemoryBounded` counts places in the strands and the deque (`Load`), and
  needs three facts: an accept that is waited for is that of one transfer, not
  yet accepted (`PendingApart`), only an accepted one has anything to post
  (`Posting`), and what is being written is data and not the null pointer
  (`WritesData`), so that every read that is fetched pays for itself.
* `DataSend_proofs`, for a client that is `Sequential` and connections that do
  not break: `NothingStrands` (`BufferIsDrained`), `KeepsOrder`
  (`SentInOrder`) and `ImplementsDataStream`, the safety part of the
  refinement. What the transfer has posted lies in one line over the strand,
  the deque and the write under way (`Flow`), and one number says where the
  line begins; a transfer that is not the one at work has nothing anywhere
  (`Quiet`). The two hypotheses are needed: the run `mixed` violates
  `SentInOrder` without them.
* `DataReceive_proofs`: `TypeCorrect`, `ReadsSafe` and `FlagSafe`. `OneRead`
  needs two facts to be inductive: an upload whose handler has not called
  `receiveFile` has no connection (`NoConnYet`), so that STOR and APPE never
  restart a connection with a write waiting; and the writes of a strand are
  those of its session (`Owned`), so that taking one off leaves no other of
  the same upload in another strand. `OrderSafe` (`StoredInOrder`) needs to
  know where the buffers that are not yet stored are: one number says which
  buffer of an upload is stored next (`Upcoming`), and it follows the last one
  in its file (`Continues`).
* `FTPClient_proofs`: `TypeCorrect` and `WritesSafe` (`OneWrite`). The
  completion of a write stays in the strand until it has run (`Has`, `Once`),
  and while there is one, no write is under way; the reply being written stays
  at the front until then. The types need that whoever has a second command to
  send has room for it (`RoomLeft`) and that a `heard` handler has a line.
  `StartsAfresh` (`NothingLeftOver`) and `AnswersOwn` (`InStep`) count, over
  every place a command, a reply or a handler can be in, what the call under
  way has brought about: while nothing is astray that is one command and the
  replies it has still to get, and the client and the server take turns
  (`Turn`, `Lock`); a line that opens a data connection is on its way only with
  an acceptor for it (`OwnLine`). `ImplementsCommandReplies` holds also when
  they are out of step: the first replies to the commands are written, queued,
  posted or in the hands of the handler, and from one of these places to the
  next, as within each, the numbers rise (`Line`); together they are the
  commands heard, each once (`OnceEach`); and what is still to be heard is
  younger (`Arriving`). So the next first reply written is the one to the first
  command without one.
* `FTPServer_proofs`: `TypeCorrect`, `ToldSafe` (`ToldAreAlive`),
  `OrderSafe` (`HeardInOrder`) and `AllHear` (`NobodyMissed`). Only the thread
  with the mutex has members to tell; the writes begun for a client and those
  that wait for its socket are, one behind the other, in the order of their
  announcements, each once, and older than the announcement being made unless
  it was told already. Rests come between, and of what waited the text may be a
  later one, but no later than the last: so an announcement sent whole and at
  once is not older than anything the client was sent before. `AllHear` says
  that a write was begun or waits, not that its text is right, which it need
  not be: whoever was connected when an announcement began is
  told, has still to be told, or has gone.
* `FTPServer_proofs` again, about `FTPFiles`, whose names are its own so that
  one module can extend both: `FilesTypeCorrect` (`FilesTypeOK`; that a working
  directory is one of the paths is the guard of `Takes` and no result) and
  `RefusalsSafe` (`RefusedChangesNothing`), for any sessions, paths and
  parameters. That RMD of nothing removes nothing, although it removes without
  a look, needs that only directories have entries (`OnlyDirs`); this is
  inductive because a rename or MKD needs a directory to put something into,
  and `Rebase` keeps the order of what it moves (`RebaseBelow`). For one
  session (`Alone`), `RenameSafe` (`RenameKeepsFiles`) and `DeleteSafe`
  (`DeleteSparesDirectories`): what the look has found holds at the call
  (`LookHolds`), `Rebase` back finds every file that was moved, and nothing is
  below a file. With a second session both fail, see section 3.
* `Strand_proofs`: `TypeCorrect` and `MutualExclusion` (`OneAtATime`). A strand
  has one invoker at most, posted (`QueuedAlone`) or held by one frame of one
  thread (`OneInvoker`), and is locked while it has one; a handler that was
  called inside another has the strand's invoker below it on its own stack.
  `ImplementsStrandQueue`: the safety part of the refinement. A handler is
  submitted when `enqueue` has the mutex and starts when the invoker takes it
  off. The one that locked the strand is pushed later, without the mutex, and is
  the first all the same: the ready queue stays empty until then
  (`PushedFirst`), and both are empty while the strand is free (`FreeIsEmpty`).
* `Scheduler_proofs`: `TypeCorrect`, `NoLostWakeup` (`WorkIsFetched`) and
  `NoLostInput` (`InputIsSeen`). One thread has the Task (`OneTask`); where
  `task_interrupted_` is set that thread has been poked (`Poked`); and whoever
  leaves something in the queue signals or goes on to look (`Fetched`).
  `try_speculative_` is clear only after the end was read (`Spent`), and a
  closed socket has no reads (`ClosedIsEmpty`). `NeverLinkedTwice`
  (`LinkedOnce`): the Task stands in the queue behind all that the reactor has
  found, or a thread is in it, and an operation is in one place only.
  `ImplementsExecutor`: each step takes one handler from due to current to done
  or changes none of the three, the safety part of the refinement.
* `ComposedOperations_proofs`: `TypeCorrect`, `SearchSafe` (`NoLineWaits`) and
  `LinesSafe` (`LinesArrive`). No delimiter begins before `search_position`
  (`Searched`). Until bytes are dropped, what was handed over, what was read and
  what is on its way are, one behind the other, a beginning of the lines that
  are written, so that the first full delimiter in it is the end of the next
  line; and bytes are dropped only behind a line that was still on its way when
  the next was begun (`crowded`). `UploadsSafe` (`BuffersFull`): the buffers
  handed over and the one being filled are, one behind the other, the beginning
  of what was sent; what flattening does when a buffer is added is proved from
  the definition of the fold.

Only model-checked: the liveness properties and the fairness of the abstract
specifications, which are beyond this prover. Every invariant and every action
property that a passing run checks is a theorem, and the safety part of each of
the refinements.

## 6. Not modelled

* The text of listings and of replies, permissions, timestamps, ASCII mode
  (TYPE only changes how a file is opened): formatting and data.
* The command line of the client: parsing. `FTPClient` lets any call follow
  any other. The parsing of a listing by the client, likewise.
* `FTPServer::stop()`, which runs only when the server is destroyed, after
  `run()` has returned; shutting down the services of the `io_context`.
* In the scheduler: readiness for writing, timers, signals, the count of
  outstanding work and `stop` (the server's `dummy_` work keeps the count above
  zero). Of the reactors, only epoll's; select, kqueue, IOCP and the Windows
  services are for other systems.
* The interfaces of sockets, acceptors, buffers, endpoints and executors, the
  resolver, and futures: headers that pass calls on, or that neither program
  uses.
* The largest size of a dynamic buffer: neither program sets one.

The hazards of `PROJECT.json` that have no property say why in their note.

## 7. Possible extensions

1. Write readiness in the scheduler, with `start_op` for connects and writes.
2. Uploads and renames on one tree: `DataReceive` composed with `FTPFiles`.
3. The same command session with `FTPFiles` below it, so that a reply's code is
   the one the tree gives.
