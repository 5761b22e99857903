------------------------------ MODULE FTPServer ------------------------------
(***************************************************************************)
(* The server as a process: the accept loop (FTP-Server/FTPServer.cpp),    *)
(* the life of a session from its connection to its destructor, and the    *)
(* announcements every command makes to the other sessions over the second *)
(* connections that NOTI opens (FTPLoggedUsers.hpp, FTPSession::deliver).  *)
(*                                                                         *)
(* FTPLoggedUsers takes join and leave for one step.  Here they are what   *)
(* the code does: lock mutex_, change the set, deliver to one member after *)
(* the other, unlock.  NOTI and the completion of its connect take no lock *)
(* and may come at any moment.  What a command does besides is of no       *)
(* matter here; a sign-up, which joins in its handler already, makes the   *)
(* same announcement twice and is not told from other commands.            *)
(*                                                                         *)
(* deliver gives async_write a buffer that points into a string of join or *)
(* leave, which is gone when sendMsgToAllClient returns.  A write that has *)
(* to wait, behind a connect, behind other writes, or for a client that    *)
(* does not read, sends what is at that place by then: the announcement,   *)
(* the text of a later one, or neither.  What a write had to leave over is *)
(* started again as a write of its own, which others may come before.      *)
(* That two threads touch notiSocket_ at once is left out: deliver is      *)
(* taken to come wholly before or after each of the two calls NOTI makes.  *)
(*                                                                         *)
(* No thread catches what leaves io_context::run(), so an exception in a   *)
(* handler ends the process.                                               *)
(***************************************************************************)
EXTENDS Naturals, Sequences, FiniteSets

CONSTANTS
  Sessions,     \* the clients, each with its FTPSession object
  NoSession,    \* nobody holds mutex_
  MaxCommands,  \* bound: the commands all clients send together
  MaxCuts       \* bound: the writes of announcements that are sent in two parts

ASSUME ServerAssumption ==
  NoSession \notin Sessions /\ MaxCommands \in Nat /\ MaxCuts \in Nat

VARIABLES
  running,      \* the process is there
  accepting,    \* async_accept of acceptor_ is outstanding, or its handler
  phase,        \* what each session is doing, see Phases
  quitting,     \* the sessions whose last command was QUIT
  commands,     \* how many commands were sent
  mutex,        \* the session whose thread holds FTPLoggedUser::mutex_
  loggedUsers,  \* logged_users_
  news,         \* how many announcements were made; the last one's number
  toTell,       \* the members the announcement of each thread has to reach
  noti,         \* notiSocket_, see Sockets
  queued,       \* the writes that wait for the socket, in their order
  cut,          \* the announcements of which the rest has to be written yet
  heard,        \* what was sent to each client, see Pieces
  late          \* those whose socket got connected after the last one began

serverVars == <<running, accepting>>
sessionVars == <<phase, quitting, commands>>
registryVars == <<mutex, loggedUsers, news, toTell>>
notiVars == <<noti, queued, cut, heard, late>>
vars == <<serverVars, sessionVars, registryVars, notiVars>>

(* "none": not connected; "connected": in the backlog of the listening     *)
(* socket; "reading": async_read_until is pending; "noti": in NOTI, the    *)
(* old socket closed; "leave", "join": about to call the registry;         *)
(* "leaving", "joining": delivering, with the mutex; "ended": after QUIT;  *)
(* "lost": the read has failed; "destroyed".                               *)
Phases == {"none", "connected", "reading", "noti", "leave", "leaving", "join", "joining",
           "ended", "lost", "destroyed"}

(* "broken": open and not connected, as connect has failed or the listener *)
(* has gone.                                                               *)
Sockets == {"closed", "connecting", "connected", "broken"}

(* What a write sends: for the announcement no, what was read at its place *)
(* (0 for no announcement); all of it at once ("whole") or after a wait    *)
(* ("late"), the beginning ("part"), or what was left ("rest").            *)
Pieces == [no : Nat, text : Nat, how : {"whole", "late", "part", "rest"}]
Writes == [no : Nat, how : {"late", "rest"}]

TypeOK ==
  /\ running \in BOOLEAN /\ accepting \in BOOLEAN
  /\ phase \in [Sessions -> Phases]
  /\ quitting \subseteq Sessions
  /\ commands \in 0 .. MaxCommands
  /\ mutex \in Sessions \cup {NoSession}
  /\ loggedUsers \subseteq Sessions
  /\ news \in Nat
  /\ toTell \in [Sessions -> SUBSET Sessions]
  /\ noti \in [Sessions -> Sockets]
  /\ queued \in [Sessions -> Seq(Writes)]
  /\ cut \in [Sessions -> SUBSET Nat]
  /\ heard \in [Sessions -> Seq(Pieces)]
  /\ late \subseteq Sessions

(* start() with a port that is free: had open, bind or listen failed, it   *)
(* would go on all the same, and the first accept would fail.              *)
Init ==
  /\ running = TRUE
  /\ accepting = TRUE
  /\ phase = [s \in Sessions |-> "none"]
  /\ quitting = {}
  /\ commands = 0
  /\ mutex = NoSession
  /\ loggedUsers = {}
  /\ news = 0
  /\ toTell = [s \in Sessions |-> {}]
  /\ noti = [s \in Sessions |-> "closed"]
  /\ queued = [s \in Sessions |-> <<>>]
  /\ cut = [s \in Sessions |-> {}]
  /\ heard = [s \in Sessions |-> <<>>]
  /\ late = {}

Goto(s, p) == phase' = [phase EXCEPT ![s] = p]

Terminate ==
  /\ running' = FALSE
  /\ UNCHANGED accepting

-----------------------------------------------------------------------------
(* The accept loop.                                                        *)

ClientConnects(s) ==
  /\ phase[s] = "none"
  /\ Goto(s, "connected")
  /\ UNCHANGED <<serverVars, quitting, commands, registryVars, notiVars>>

(* A new session is made, greets its client and reads; the next accept is  *)
(* started.                                                                *)
AcceptSession(s) ==
  /\ accepting
  /\ phase[s] = "connected"
  /\ Goto(s, "reading")
  /\ UNCHANGED <<serverVars, quitting, commands, registryVars, notiVars>>

(* The client has gone before it was accepted: remote_endpoint() throws.   *)
AcceptGone(s) ==
  /\ accepting
  /\ phase[s] = "connected"
  /\ Goto(s, "lost")
  /\ Terminate
  /\ UNCHANGED <<quitting, commands, registryVars, notiVars>>

(* The accept fails, for want of file descriptors: no other is started.    *)
AcceptFails ==
  /\ accepting
  /\ accepting' = FALSE
  /\ UNCHANGED <<running, sessionVars, registryVars, notiVars>>

-----------------------------------------------------------------------------
(* Commands.                                                               *)

Command(s) ==
  /\ phase[s] = "reading"
  /\ commands < MaxCommands
  /\ commands' = commands + 1

HandleOther(s) ==
  /\ Command(s)
  /\ Goto(s, "join")
  /\ UNCHANGED <<quitting, serverVars, registryVars, notiVars>>

HandleQUIT(s) ==
  /\ Command(s)
  /\ quitting' = quitting \cup {s}
  /\ Goto(s, "leave")
  /\ UNCHANGED <<serverVars, registryVars, notiVars>>

(* NOTI closes the socket it has, and with it go the writes that wait, *)
HandleNOTI(s) ==
  /\ Command(s)
  /\ noti[s] # "broken"
  /\ noti' = [noti EXCEPT ![s] = "closed"]
  /\ queued' = [queued EXCEPT ![s] = <<>>]
  /\ Goto(s, "noti")
  /\ UNCHANGED <<serverVars, quitting, registryVars, cut, heard, late>>

(* and connects it anew. *)
Reconnect(s) ==
  /\ phase[s] = "noti"
  /\ noti' = [noti EXCEPT ![s] = "connecting"]
  /\ Goto(s, "join")
  /\ UNCHANGED <<serverVars, quitting, commands, registryVars, queued, cut, heard, late>>

(* shutdown() throws on a socket that is open and not connected, *)
ShutdownThrows(s) ==
  /\ Command(s)
  /\ noti[s] # "closed"
  /\ Terminate
  /\ UNCHANGED <<phase, quitting, registryVars, notiVars>>

(* or stoi, as the port is no number. *)
StoiThrows(s) ==
  /\ phase[s] = "noti"
  /\ Terminate
  /\ UNCHANGED <<sessionVars, registryVars, notiVars>>

(* The client is gone: the handler of the read only says so. *)
ReadFails(s) ==
  /\ phase[s] = "reading"
  /\ Goto(s, "lost")
  /\ UNCHANGED <<serverVars, quitting, commands, registryVars, notiVars>>

(* When nothing holds a lost session any more, its destructor calls        *)
(* shared_from_this(), which throws, out of a destructor.                  *)
Destroy(s) ==
  /\ phase[s] = "lost"
  /\ s \notin loggedUsers
  /\ Goto(s, "destroyed")
  /\ Terminate
  /\ UNCHANGED <<quitting, commands, registryVars, notiVars>>

-----------------------------------------------------------------------------
(* The registry.                                                           *)

(* Mutant: the mutex is not waited for. *)
AnnounceUnlocked(s, users) ==
  /\ mutex' = s
  /\ loggedUsers' = users
  /\ news' = news + 1
  /\ toTell' = [toTell EXCEPT ![s] = users]
  /\ late' = {}

(* With the lock, the set is changed and its members are to be told. *)
Announce(s, users) ==
  /\ mutex = NoSession
  /\ mutex' = s
  /\ loggedUsers' = users
  /\ news' = news + 1
  /\ toTell' = [toTell EXCEPT ![s] = users]
  /\ late' = {}

join(s) ==
  /\ phase[s] = "join"
  /\ Announce(s, loggedUsers \cup {s})
  /\ Goto(s, "joining")
  /\ UNCHANGED <<serverVars, quitting, commands, noti, queued, cut, heard>>

leave(s) ==
  /\ phase[s] = "leave"
  /\ Announce(s, loggedUsers \ {s})
  /\ Goto(s, "leaving")
  /\ UNCHANGED <<serverVars, quitting, commands, noti, queued, cut, heard>>

(* What is at the place of announcement no when a write reads it.  While   *)
(* the announcement is being made the string is there.  Later the place is *)
(* anybody's: nothing was written there since, or a later announcement.    *)
Texts(no) ==
  IF no = news /\ \E s \in Sessions : toTell[s] # {} THEN {no} ELSE {0} \cup (no .. news)

Send(u, no, text, how) ==
  heard' = [heard EXCEPT ![u] = Append(@, [no |-> no, text |-> text, how |-> how])]

(* Only the beginning is taken; async_write will write the rest. *)
SendPart(u, no, text) ==
  /\ Cardinality(UNION {{s} \X {i \in DOMAIN heard[s] : heard[s][i].how = "part"} :
                          s \in Sessions}) < MaxCuts
  /\ Send(u, no, text, "part")
  /\ cut' = [cut EXCEPT ![u] = @ \cup {no}]

Wait(u, no, how) == queued' = [queued EXCEPT ![u] = Append(@, [no |-> no, how |-> how])]

Told(s, u) ==
  /\ u \in toTell[s]
  /\ toTell' = [toTell EXCEPT ![s] = @ \ {u}]
  /\ UNCHANGED <<serverVars, sessionVars, mutex, loggedUsers, news, noti, late>>

(* Mutant: a socket that is connecting is waited for. *)
deliverWaits(s, u) ==
  /\ Told(s, u)
  /\ noti[u] # "connecting"
  /\ IF noti[u] = "connected" THEN Send(u, news, news, "whole") ELSE UNCHANGED heard
  /\ UNCHANGED <<queued, cut>>

(* Mutant: a write goes out before those that wait. *)
deliverOvertakes(s, u) ==
  /\ Told(s, u)
  /\ \/ noti[u] \in {"connecting", "connected"} /\ Wait(u, news, "late") /\ UNCHANGED heard
     \/ noti[u] = "connected" /\ Send(u, news, news, "whole") /\ UNCHANGED queued
     \/ noti[u] \in {"closed", "broken"} /\ UNCHANGED <<queued, heard>>
  /\ UNCHANGED cut

(* deliver: async_write tries at once when the socket is connected and no  *)
(* write waits, and sends as much as the client's window takes; otherwise  *)
(* the write waits behind the connect, or behind the others.               *)
deliver(s, u) ==
  /\ Told(s, u)
  /\ \/ /\ noti[u] \in {"closed", "broken"}
        /\ UNCHANGED <<queued, cut, heard>>
     \/ /\ noti[u] \in {"connecting", "connected"}
        /\ Wait(u, news, "late")
        /\ UNCHANGED <<cut, heard>>
     \/ /\ noti[u] = "connected" /\ queued[u] = <<>>
        /\ \/ Send(u, news, news, "whole") /\ UNCHANGED cut
           \/ SendPart(u, news, news)
        /\ UNCHANGED queued

(* Mutant: the mutex is released before the last is told. *)
UnlockEarly(s) ==
  /\ mutex = s
  /\ mutex' = NoSession
  /\ phase' = [phase EXCEPT ![s] =
                 CASE @ = "leaving"      -> "join"
                   [] s \in quitting     -> "ended"
                   [] OTHER              -> "reading"]
  /\ UNCHANGED <<serverVars, quitting, commands, loggedUsers, news, toTell, notiVars>>

(* All are told.  What handleFTPCmd does next: after leave, in QUIT, it    *)
(* joins; after join it reads on, unless the command was QUIT.             *)
Unlock(s) ==
  /\ mutex = s
  /\ toTell[s] = {}
  /\ mutex' = NoSession
  /\ phase' = [phase EXCEPT ![s] =
                 CASE @ = "leaving"      -> "join"
                   [] s \in quitting     -> "ended"
                   [] OTHER              -> "reading"]
  /\ UNCHANGED <<serverVars, quitting, commands, loggedUsers, news, toTell, notiVars>>

-----------------------------------------------------------------------------
(* The second connections.                                                 *)

NotiConnects(s) ==
  /\ noti[s] = "connecting"
  /\ noti' = [noti EXCEPT ![s] = "connected"]
  /\ late' = late \cup {s}
  /\ UNCHANGED <<serverVars, sessionVars, registryVars, queued, cut, heard>>

(* The socket takes the first of the writes that wait, or some of it. *)
SendNext(s) ==
  /\ noti[s] = "connected" /\ queued[s] # <<>>
  /\ LET w == Head(queued[s]) IN
       \E text \in Texts(w.no) :
         \/ Send(s, w.no, text, w.how) /\ UNCHANGED cut
         \/ w.how = "late" /\ SendPart(s, w.no, text)
  /\ queued' = [queued EXCEPT ![s] = Tail(@)]
  /\ UNCHANGED <<serverVars, sessionVars, registryVars, noti, late>>

(* async_write goes on with what a write has left over: on the socket as   *)
(* it is now, behind the writes that were started meanwhile.               *)
SendRest(s, no) ==
  /\ no \in cut[s]
  /\ cut' = [cut EXCEPT ![s] = @ \ {no}]
  /\ IF noti[s] \in {"connecting", "connected"} THEN Wait(s, no, "rest") ELSE UNCHANGED queued
  /\ UNCHANGED <<serverVars, sessionVars, registryVars, noti, heard, late>>

(* The connect fails, or the listener goes away later. *)
NotiBreaks(s) ==
  /\ noti[s] \in {"connecting", "connected"}
  /\ noti' = [noti EXCEPT ![s] = "broken"]
  /\ queued' = [queued EXCEPT ![s] = <<>>]
  /\ UNCHANGED <<serverVars, sessionVars, registryVars, cut, heard, late>>

-----------------------------------------------------------------------------

Handler(s) ==
  Reconnect(s) \/ join(s) \/ leave(s) \/ (\E u \in Sessions : deliver(s, u)) \/ Unlock(s)

Handle(s) == HandleOther(s) \/ HandleQUIT(s) \/ HandleNOTI(s) \/ ShutdownThrows(s)

Notify(s) ==
  NotiConnects(s) \/ NotiBreaks(s) \/ SendNext(s) \/ (\E no \in cut[s] : SendRest(s, no))

Next ==
  /\ running
  /\ \/ AcceptFails
     \/ \E s \in Sessions :
          \/ ClientConnects(s) \/ AcceptSession(s) \/ AcceptGone(s)
          \/ Handle(s) \/ StoiThrows(s) \/ Handler(s)
          \/ ReadFails(s) \/ Destroy(s)
          \/ Notify(s)

(* Threads go on with what they have begun, and the acceptor with each     *)
(* client that connects.  std::mutex promises nothing to a thread that     *)
(* waits while others come and go; with finitely many commands its turn    *)
(* comes at last.                                                          *)
Fairness ==
  \A s \in Sessions :
    /\ WF_vars(running /\ Handler(s))
    /\ WF_vars(running /\ AcceptSession(s))

Spec == Init /\ [][Next]_vars
FairSpec == Spec /\ Fairness

-----------------------------------------------------------------------------
(* Properties.                                                             *)

(* Writes begin in the order of the announcements they are for, each once, *)
(* though any number of threads announce, writes wait, and the client may  *)
(* reconnect in between.  Only what a write had to leave over comes        *)
(* between.  What a write that waited sends may be the text of a later     *)
(* announcement; but an announcement that is sent whole and at once is     *)
(* never older than anything the client was sent before.                   *)
Begins(p) == p.how # "rest"

Follows(p, q) ==
  /\ Begins(p) /\ Begins(q) => p.no < q.no
  /\ q.how = "whole" => q.text = q.no /\ p.no <= q.no /\ p.text <= q.text

HeardInOrder ==
  \A s \in Sessions : \A i, j \in DOMAIN heard[s] : i < j => Follows(heard[s][i], heard[s][j])

(* While no announcement is being made, for whoever is registered and was  *)
(* connected when the last one was begun a write of it has begun, or waits *)
(* for its turn.                                                           *)
NobodyMissed ==
  mutex = NoSession => \A s \in loggedUsers :
    noti[s] = "connected" /\ s \notin late /\ news > 0 =>
      \/ \E i \in DOMAIN heard[s] : heard[s][i].no = news
      \/ \E i \in DOMAIN queued[s] : queued[s][i].no = news

(* Only the thread with the mutex has somebody left to tell, and only a    *)
(* member of the registry: deliver is never called on a session that may   *)
(* be destroyed under it.                                                  *)
ToldAreAlive ==
  \A s \in Sessions : toTell[s] # {} =>
    /\ mutex = s
    /\ toTell[s] \subseteq loggedUsers
    /\ \A u \in toTell[s] : phase[u] # "destroyed"

(* A client that stays is served: its session is made unless the accept    *)
(* loop has ended, and every command comes to its end, as the mutex is     *)
(* always released.                                                        *)
ClientsAreServed ==
  \A s \in Sessions :
    /\ phase[s] = "connected" ~> phase[s] # "connected" \/ ~accepting \/ ~running
    /\ phase[s] \in {"noti", "leave", "leaving", "join", "joining"}
         ~> phase[s] \in {"reading", "ended", "lost"} \/ ~running

=============================================================================
