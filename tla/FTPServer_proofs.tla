-------------------------- MODULE FTPServer_proofs --------------------------
(***************************************************************************)
(* For any number of clients and commands: announcements are delivered     *)
(* only to sessions that are registered and alive; writes to a client      *)
(* begin in the order of the announcements, and one that goes out whole at *)
(* once is no older than what was sent before; and for nobody that was     *)
(* connected a write is missing.                                           *)
(*                                                                         *)
(* The argument: only the thread with mutex_ has members left to tell, and *)
(* what each of those was sent, or waits for it, is older than the         *)
(* announcement being made; what waits is younger than what was sent, but  *)
(* for the rests of writes that were cut, and nothing is younger than the  *)
(* last announcement.                                                      *)
(*                                                                         *)
(* The second half of this module is about the tree of files its sessions  *)
(* work on (FTPFiles): for any paths, parameters and contents, a command   *)
(* that is refused has changed nothing, for any number of sessions; for a  *)
(* session that is alone, RNTO loses no file and DELE no directory.        *)
(*                                                                         *)
(* The argument: only directories have entries (OnlyDirs), so nothing is   *)
(* below a path that is absent or a file; and Rebase moves what is below   *)
(* one path to below another, and back, one to one.                        *)
(***************************************************************************)
EXTENDS FTPServer, FTPFiles, SequenceTheorems, TLAPS

(* Only the thread with mutex_ has somebody to tell, a member. *)
TellsMembers ==
  \A s \in Sessions : toTell[s] # {} => mutex = s /\ toTell[s] \subseteq loggedUsers

MembersLive == \A s \in loggedUsers : phase[s] # "destroyed"

LifeInv == TypeOK /\ TellsMembers /\ MembersLive

(* h is what one client was sent, q the writes that wait for it. *)
HeardFine(h) == \A i, j \in DOMAIN h : i < j => Follows(h[i], h[j])
Increasing(q) ==
  \A i, j \in DOMAIN q : i < j /\ Begins(q[i]) /\ Begins(q[j]) => q[i].no < q[j].no
Before(h, q) ==
  \A i \in DOMAIN h, j \in DOMAIN q : Begins(h[i]) /\ Begins(q[j]) => h[i].no < q[j].no
UpTo(r, n) == \A i \in DOMAIN r : r[i].no <= n
TextsUpTo(h, n) == \A i \in DOMAIN h : h[i].text <= n
Under(r, n) == \A i \in DOMAIN r : Begins(r[i]) => r[i].no < n

OrderFine(h, q, c, n) ==
  /\ HeardFine(h) /\ Increasing(q) /\ Before(h, q)
  /\ UpTo(h, n) /\ TextsUpTo(h, n) /\ UpTo(q, n)
  /\ \A k \in c : k <= n

(* What the order is for one client. *)
OrderOf(u) ==
  /\ OrderFine(heard[u], queued[u], cut[u], news)
  /\ \A s \in Sessions : u \in toTell[s] => Under(heard[u], news) /\ Under(queued[u], news)

NewsOrder == \A u \in Sessions : OrderOf(u)

-----------------------------------------------------------------------------
(* Sequences of pieces and writes.                                         *)

LEMMA AppendAt ==
  ASSUME NEW S, NEW r \in Seq(S), NEW x \in S
  PROVE  /\ Append(r, x) \in Seq(S)
         /\ \A i \in DOMAIN Append(r, x) :
              \/ i \in DOMAIN r /\ Append(r, x)[i] = r[i]
              \/ i = Len(r) + 1 /\ Append(r, x)[i] = x
         /\ \A i, j \in DOMAIN Append(r, x) : i < j => i \in DOMAIN r /\ Append(r, x)[i] = r[i]
         /\ \A i \in DOMAIN r : i \in DOMAIN Append(r, x) /\ Append(r, x)[i] = r[i]
         /\ Len(r) + 1 \in DOMAIN Append(r, x) /\ Append(r, x)[Len(r) + 1] = x
<1>1. /\ Append(r, x) \in Seq(S) /\ Len(r) \in Nat
      /\ DOMAIN r = 1 .. Len(r)
      /\ DOMAIN Append(r, x) = 1 .. (Len(r) + 1)
      /\ \A i \in 1 .. Len(r) : Append(r, x)[i] = r[i]
      /\ Append(r, x)[Len(r) + 1] = x
  OBVIOUS
<1> QED BY <1>1

LEMMA TailAt ==
  ASSUME NEW S, NEW r \in Seq(S), r # <<>>
  PROVE  /\ Tail(r) \in Seq(S) /\ Head(r) \in S
         /\ 1 \in DOMAIN r /\ Head(r) = r[1]
         /\ \A i \in DOMAIN Tail(r) : i + 1 \in DOMAIN r /\ 1 < i + 1 /\ Tail(r)[i] = r[i + 1]
         /\ \A i \in DOMAIN r : r[i] = Head(r) \/ \E j \in DOMAIN Tail(r) : Tail(r)[j] = r[i]
<1>1. /\ Tail(r) \in Seq(S) /\ Head(r) \in S /\ Len(r) \in Nat /\ Len(r) > 0
      /\ DOMAIN r = 1 .. Len(r) /\ Head(r) = r[1] /\ Len(Tail(r)) = Len(r) - 1
      /\ \A i \in 1 .. (Len(r) - 1) : Tail(r)[i] = r[i + 1]
  BY HeadTailProperties
<1>2. DOMAIN Tail(r) = 1 .. (Len(r) - 1) BY <1>1, LenProperties
<1>3. \A i \in DOMAIN Tail(r) : i + 1 \in DOMAIN r /\ 1 < i + 1 /\ Tail(r)[i] = r[i + 1]
  BY <1>1, <1>2
<1>4. ASSUME NEW i \in DOMAIN r PROVE r[i] = Head(r) \/ \E j \in DOMAIN Tail(r) : Tail(r)[j] = r[i]
  <2>1. CASE i = 1 BY <1>1, <2>1
  <2>2. CASE i # 1
    <3>1. i - 1 \in DOMAIN Tail(r) /\ Tail(r)[i - 1] = r[i] BY <1>1, <1>2, <2>2
    <3> QED BY <3>1
  <2> QED BY <2>1, <2>2
<1> QED BY <1>1, <1>3, <1>4

LEMMA PieceTypes ==
  ASSUME NEW no \in Nat, NEW text \in Nat, NEW how \in {"whole", "late", "part", "rest"}
  PROVE  [no |-> no, text |-> text, how |-> how] \in Pieces
BY DEF Pieces

LEMMA WriteTypes ==
  ASSUME NEW no \in Nat, NEW how \in {"late", "rest"}
  PROVE  [no |-> no, how |-> how] \in Writes
BY DEF Writes

(* A piece x is sent. *)
LEMMA SentFine ==
  ASSUME NEW h \in Seq(Pieces), NEW x \in Pieces, NEW n \in Nat,
         HeardFine(h), UpTo(h, n), TextsUpTo(h, n), x.no <= n, x.text <= n,
         \A i \in DOMAIN h : Follows(h[i], x)
  PROVE  /\ HeardFine(Append(h, x))
         /\ UpTo(Append(h, x), n) /\ TextsUpTo(Append(h, x), n)
<1> DEFINE a == Append(h, x)
<1>1. /\ \A i \in DOMAIN a : (i \in DOMAIN h /\ a[i] = h[i]) \/ (i = Len(h) + 1 /\ a[i] = x)
      /\ \A i, j \in DOMAIN a : i < j => i \in DOMAIN h /\ a[i] = h[i]
  BY AppendAt
<1> HIDE DEF a
<1>2. HeardFine(a) BY <1>1 DEF HeardFine
<1>3. UpTo(a, n) BY <1>1 DEF UpTo
<1>4. TextsUpTo(a, n) BY <1>1 DEF TextsUpTo
<1> QED BY <1>2, <1>3, <1>4 DEF a

(* A write w is started and has to wait. *)
LEMMA WaitFine ==
  ASSUME NEW h \in Seq(Pieces), NEW q \in Seq(Writes), NEW c, NEW w \in Writes, NEW n \in Nat,
         OrderFine(h, q, c, n), w.no <= n,
         Begins(w) => /\ \A i \in DOMAIN h : Begins(h[i]) => h[i].no < w.no
                      /\ \A i \in DOMAIN q : Begins(q[i]) => q[i].no < w.no
  PROVE  OrderFine(h, Append(q, w), c, n)
<1> DEFINE a == Append(q, w)
<1>1. /\ \A i \in DOMAIN a : (i \in DOMAIN q /\ a[i] = q[i]) \/ (i = Len(q) + 1 /\ a[i] = w)
      /\ \A i, j \in DOMAIN a : i < j => i \in DOMAIN q /\ a[i] = q[i]
  BY AppendAt
<1> HIDE DEF a
<1>2. Increasing(a) BY <1>1 DEF Increasing, OrderFine
<1>3. Before(h, a) BY <1>1 DEF Before, OrderFine
<1>4. UpTo(a, n) BY <1>1 DEF UpTo, OrderFine
<1> QED BY <1>2, <1>3, <1>4 DEF OrderFine, a

(* The first of the writes that wait is sent: x is what it sends. *)
LEMMA NextFine ==
  ASSUME NEW h \in Seq(Pieces), NEW q \in Seq(Writes), NEW c, NEW x \in Pieces, NEW n \in Nat,
         OrderFine(h, q, c, n), q # <<>>, x.no = Head(q).no, x.text <= n,
         x.how # "whole", Begins(x) => Begins(Head(q))
  PROVE  /\ OrderFine(Append(h, x), Tail(q), c \cup {x.no}, n)
         /\ Under(h, n) /\ Under(q, n) => Under(Append(h, x), n) /\ Under(Tail(q), n)
<1> DEFINE a == Append(h, x)
           b == Tail(q)
<1>1. \A i \in DOMAIN a : (i \in DOMAIN h /\ a[i] = h[i]) \/ (i = Len(h) + 1 /\ a[i] = x)
  BY AppendAt
<1>2. /\ 1 \in DOMAIN q /\ Head(q) = q[1]
      /\ \A i \in DOMAIN b : i + 1 \in DOMAIN q /\ 1 < i + 1 /\ b[i] = q[i + 1]
      /\ b \in Seq(Writes)
  BY TailAt
<1>3. \A i, j \in DOMAIN b : i < j => i + 1 < j + 1
  <2>1. \A i \in DOMAIN b : i \in Nat BY <1>2, LenProperties
  <2> QED BY <2>1
<1>4. x.no \in Nat /\ x.no <= n BY <1>2 DEF OrderFine, UpTo, Pieces
<1>5. \A i \in DOMAIN h : Follows(h[i], x)
  BY <1>2 DEF OrderFine, Before, Follows
<1>6. HeardFine(a) /\ UpTo(a, n) /\ TextsUpTo(a, n)
  BY <1>4, <1>5, SentFine DEF OrderFine
<1> HIDE DEF a, b
<1>7. Increasing(b) BY <1>2, <1>3 DEF Increasing, OrderFine
<1>8. Before(a, b)
  <2> SUFFICES ASSUME NEW i \in DOMAIN a, NEW j \in DOMAIN b, Begins(a[i]), Begins(b[j])
               PROVE  a[i].no < b[j].no
    BY DEF Before
  <2>1. j + 1 \in DOMAIN q /\ 1 < j + 1 /\ b[j] = q[j + 1] BY <1>2
  <2>2. CASE i \in DOMAIN h /\ a[i] = h[i] BY <2>1, <2>2 DEF OrderFine, Before
  <2>3. CASE a[i] = x
    <3>1. Begins(q[1]) /\ 1 \in DOMAIN q BY <1>2, <2>3
    <3>2. q[1].no < q[j + 1].no BY <2>1, <3>1 DEF OrderFine, Increasing
    <3> QED BY <1>2, <2>1, <2>3, <3>2
  <2> QED BY <1>1, <2>2, <2>3
<1>9. UpTo(b, n) BY <1>2 DEF UpTo, OrderFine
<1>10. ASSUME Under(h, n), Under(q, n) PROVE Under(a, n) /\ Under(b, n)
  <2>1. Under(b, n) BY <1>2, <1>10 DEF Under
  <2>2. Begins(x) => x.no < n BY <1>2, <1>10 DEF Under
  <2>3. Under(a, n) BY <1>1, <1>10, <2>2 DEF Under
  <2> QED BY <2>1, <2>3
<1>11. \A k \in c \cup {x.no} : k <= n BY <1>4 DEF OrderFine
<1>12. OrderFine(a, b, c \cup {x.no}, n) BY <1>6, <1>7, <1>8, <1>9, <1>11 DEF OrderFine
<1> QED BY <1>10, <1>12 DEF a, b

(* Announcement n, which nothing of was sent, is sent at once. *)
LEMMA FreshFine ==
  ASSUME NEW h \in Seq(Pieces), NEW c, NEW n \in Nat, NEW how \in {"whole", "part"},
         OrderFine(h, <<>>, c, n), Under(h, n)
  PROVE  OrderFine(Append(h, [no |-> n, text |-> n, how |-> how]), <<>>, c \cup {n}, n)
<1> DEFINE x == [no |-> n, text |-> n, how |-> how]
<1>1. x \in Pieces BY PieceTypes
<1>2. x.no = n /\ x.text = n /\ x.how = how OBVIOUS
<1> HIDE DEF x
<1>3. \A i \in DOMAIN h : Follows(h[i], x)
  BY <1>2 DEF OrderFine, UpTo, TextsUpTo, Under, Follows
<1>4. n <= n OBVIOUS
<1>5. HeardFine(Append(h, x)) /\ UpTo(Append(h, x), n) /\ TextsUpTo(Append(h, x), n)
  BY <1>1, <1>2, <1>3, <1>4, SentFine DEF OrderFine
<1>6. DOMAIN <<>> = {} OBVIOUS
<1>7. Increasing(<<>>) /\ Before(Append(h, x), <<>>) /\ UpTo(<<>>, n)
  BY <1>6 DEF Increasing, Before, UpTo
<1>8. \A k \in c \cup {n} : k <= n BY <1>4 DEF OrderFine
<1> QED BY <1>5, <1>7, <1>8 DEF OrderFine, x

-----------------------------------------------------------------------------
(* Types.                                                                  *)

LEMMA InitTyped == Init => TypeOK
BY ServerAssumption DEF Init, TypeOK, Phases, Sockets

LEMMA GotoTyped ==
  ASSUME TypeOK, NEW s \in Sessions, NEW p \in Phases, Goto(s, p)
  PROVE  phase' \in [Sessions -> Phases]
BY DEF Goto, TypeOK

LEMMA AnnounceTyped ==
  ASSUME TypeOK, NEW s \in Sessions, NEW users \in SUBSET Sessions, Announce(s, users)
  PROVE  /\ mutex' \in Sessions \cup {NoSession} /\ loggedUsers' \subseteq Sessions
         /\ news' \in Nat /\ toTell' \in [Sessions -> SUBSET Sessions]
         /\ late' \subseteq Sessions
BY DEF Announce, TypeOK

LEMMA TextTypes ==
  ASSUME TypeOK, NEW no \in Nat, NEW text \in Texts(no)
  PROVE  text \in Nat /\ (text <= news \/ text = no)
BY DEF Texts, TypeOK

LEMMA SendTyped ==
  ASSUME TypeOK, NEW u \in Sessions, NEW no \in Nat, NEW text \in Nat,
         NEW how \in {"whole", "late", "part", "rest"}, Send(u, no, text, how)
  PROVE  heard' \in [Sessions -> Seq(Pieces)]
<1> DEFINE x == [no |-> no, text |-> text, how |-> how]
<1>1. x \in Pieces BY PieceTypes
<1>2. heard' = [heard EXCEPT ![u] = Append(heard[u], x)] BY DEF Send
<1> HIDE DEF x
<1>3. Append(heard[u], x) \in Seq(Pieces) BY <1>1 DEF TypeOK
<1> QED BY <1>2, <1>3 DEF TypeOK

LEMMA SendPartTyped ==
  ASSUME TypeOK, NEW u \in Sessions, NEW no \in Nat, NEW text \in Nat, SendPart(u, no, text)
  PROVE  heard' \in [Sessions -> Seq(Pieces)] /\ cut' \in [Sessions -> SUBSET Nat]
<1>1. heard' \in [Sessions -> Seq(Pieces)] BY SendTyped DEF SendPart
<1>2. cut' \in [Sessions -> SUBSET Nat] BY DEF SendPart, TypeOK
<1> QED BY <1>1, <1>2

LEMMA WaitTyped ==
  ASSUME TypeOK, NEW u \in Sessions, NEW no \in Nat, NEW how \in {"late", "rest"},
         Wait(u, no, how)
  PROVE  queued' \in [Sessions -> Seq(Writes)]
<1> DEFINE w == [no |-> no, how |-> how]
<1>1. w \in Writes BY WriteTypes
<1>2. queued' = [queued EXCEPT ![u] = Append(queued[u], w)] BY DEF Wait
<1> HIDE DEF w
<1>3. Append(queued[u], w) \in Seq(Writes) BY <1>1 DEF TypeOK
<1> QED BY <1>2, <1>3 DEF TypeOK

LEMMA StepTyped == TypeOK /\ [Next]_vars => TypeOK'
<1> SUFFICES ASSUME TypeOK, [Next]_vars PROVE TypeOK' OBVIOUS
<1> USE ServerAssumption DEF serverVars, sessionVars, registryVars, notiVars
<1>0. \A p \in {"connected", "reading", "noti", "lost", "join", "leave", "joining", "leaving",
                 "destroyed"} : p \in Phases
  BY DEF Phases
<1>1. ASSUME AcceptFails PROVE TypeOK' BY <1>1 DEF AcceptFails, TypeOK
<1>2. ASSUME NEW s \in Sessions,
             ClientConnects(s) \/ AcceptSession(s) \/ AcceptGone(s) \/ ReadFails(s) \/ Destroy(s)
      PROVE  TypeOK'
  <2>1. phase' \in [Sessions -> Phases]
    BY <1>0, <1>2, GotoTyped
    DEF ClientConnects, AcceptSession, AcceptGone, ReadFails, Destroy
  <2> QED
    BY <1>2, <2>1
    DEF ClientConnects, AcceptSession, AcceptGone, ReadFails, Destroy, Terminate, TypeOK
<1>3. ASSUME NEW s \in Sessions, Handle(s) \/ StoiThrows(s) \/ Reconnect(s) PROVE TypeOK'
  <2>1. commands' \in 0 .. MaxCommands
    BY <1>3
    DEF Handle, HandleOther, HandleQUIT, HandleNOTI, ShutdownThrows, StoiThrows, Reconnect,
        Command, TypeOK
  <2>2. phase' \in [Sessions -> Phases]
    <3>1. UNCHANGED phase \/ Goto(s, "join") \/ Goto(s, "leave") \/ Goto(s, "noti")
      BY <1>3
      DEF Handle, HandleOther, HandleQUIT, HandleNOTI, ShutdownThrows, StoiThrows, Reconnect
    <3> QED BY <1>0, <3>1, GotoTyped DEF TypeOK
  <2>3. HandleNOTI(s) => TypeOK'
    <3>1. <<>> \in Seq(Writes) OBVIOUS
    <3> QED BY <2>1, <2>2, <3>1 DEF HandleNOTI, TypeOK, Sockets
  <2>4. Reconnect(s) => TypeOK' BY <2>1, <2>2 DEF Reconnect, TypeOK, Sockets
  <2> QED
    BY <1>3, <2>1, <2>2, <2>3, <2>4
    DEF Handle, HandleOther, HandleQUIT, ShutdownThrows, StoiThrows, Terminate, TypeOK
<1>4. ASSUME NEW s \in Sessions, join(s) \/ leave(s) PROVE TypeOK'
  <2>1. phase' \in [Sessions -> Phases] BY <1>0, <1>4, GotoTyped DEF join, leave
  <2>2. \E users \in SUBSET Sessions : Announce(s, users)
    BY <1>4 DEF join, leave, TypeOK
  <2>3. /\ mutex' \in Sessions \cup {NoSession} /\ loggedUsers' \subseteq Sessions
        /\ news' \in Nat /\ toTell' \in [Sessions -> SUBSET Sessions]
        /\ late' \subseteq Sessions
    BY <2>2, AnnounceTyped
  <2> QED BY <1>4, <2>1, <2>3 DEF join, leave, TypeOK
<1>5. ASSUME NEW s \in Sessions, NEW u \in Sessions, deliver(s, u) PROVE TypeOK'
  <2>0. news \in Nat BY DEF TypeOK
  <2>1. queued' \in [Sessions -> Seq(Writes)]
    BY <1>5, <2>0, WaitTyped DEF deliver, TypeOK
  <2>2. heard' \in [Sessions -> Seq(Pieces)] /\ cut' \in [Sessions -> SUBSET Nat]
    BY <1>5, <2>0, SendTyped, SendPartTyped DEF deliver, TypeOK
  <2>3. toTell' \in [Sessions -> SUBSET Sessions] BY <1>5 DEF deliver, Told, TypeOK
  <2>4. UNCHANGED <<serverVars, sessionVars, mutex, loggedUsers, news, noti, late>>
    BY <1>5 DEF deliver, Told
  <2> QED BY <2>1, <2>2, <2>3, <2>4 DEF TypeOK
<1>6. ASSUME NEW s \in Sessions, Unlock(s) PROVE TypeOK'
  <2>1. phase' \in [Sessions -> Phases] BY <1>6 DEF Unlock, TypeOK, Phases
  <2> QED BY <1>6, <2>1 DEF Unlock, TypeOK
<1>7. ASSUME NEW s \in Sessions, NotiConnects(s) PROVE TypeOK'
  BY <1>7 DEF NotiConnects, TypeOK, Sockets
<1>8. ASSUME NEW s \in Sessions, NotiBreaks(s) PROVE TypeOK'
  <2>1. queued' \in [Sessions -> Seq(Writes)] /\ noti' \in [Sessions -> Sockets]
    BY <1>8 DEF NotiBreaks, TypeOK, Sockets
  <2> QED BY <1>8, <2>1 DEF NotiBreaks, TypeOK
<1>9. ASSUME NEW s \in Sessions, SendNext(s) PROVE TypeOK'
  <2>1. /\ Head(queued[s]) \in Writes /\ Tail(queued[s]) \in Seq(Writes) /\ queued[s] # <<>>
        /\ news \in Nat
    BY <1>9, TailAt DEF SendNext, TypeOK
  <2>2. Head(queued[s]).no \in Nat /\ Head(queued[s]).how \in {"late", "rest"}
    BY <2>1 DEF Writes
  <2>3. heard' \in [Sessions -> Seq(Pieces)] /\ cut' \in [Sessions -> SUBSET Nat]
    <3>1. PICK text \in Texts(Head(queued[s]).no) :
            \/ Send(s, Head(queued[s]).no, text, Head(queued[s]).how) /\ UNCHANGED cut
            \/ SendPart(s, Head(queued[s]).no, text)
      BY <1>9 DEF SendNext
    <3>2. text \in Nat BY <2>1, <2>2, TextTypes
    <3>3. PICK n, how : n = Head(queued[s]).no /\ how = Head(queued[s]).how OBVIOUS
    <3>4. n \in Nat /\ how \in {"whole", "late", "part", "rest"} BY <2>2, <3>3
    <3>5. CASE Send(s, n, text, how) /\ UNCHANGED cut BY <3>2, <3>4, <3>5, SendTyped DEF TypeOK
    <3>6. CASE SendPart(s, n, text) BY <3>2, <3>4, <3>6, SendPartTyped
    <3> QED BY <3>1, <3>3, <3>5, <3>6
  <2>4. queued' \in [Sessions -> Seq(Writes)] BY <1>9, <2>1 DEF SendNext, TypeOK
  <2> QED BY <1>9, <2>3, <2>4 DEF SendNext, TypeOK
<1>10. ASSUME NEW s \in Sessions, NEW no \in cut[s], SendRest(s, no) PROVE TypeOK'
  <2>1. no \in Nat BY DEF TypeOK
  <2>2. queued' \in [Sessions -> Seq(Writes)]
    BY <1>10, <2>1, WaitTyped DEF SendRest, TypeOK
  <2>3. cut' \in [Sessions -> SUBSET Nat] BY <1>10 DEF SendRest, TypeOK
  <2> QED BY <1>10, <2>2, <2>3 DEF SendRest, TypeOK
<1>11. CASE UNCHANGED vars BY <1>11 DEF vars, TypeOK
<1> QED
  BY <1>1, <1>2, <1>3, <1>4, <1>5, <1>6, <1>7, <1>8, <1>9, <1>10, <1>11
  DEF Next, Handler, Notify

-----------------------------------------------------------------------------
(* Who is told.                                                            *)

LEMMA InitLife == Init => LifeInv
<1> SUFFICES ASSUME Init PROVE LifeInv OBVIOUS
<1> QED BY InitTyped DEF Init, LifeInv, TellsMembers, MembersLive

LEMMA StepLife == LifeInv /\ [Next]_vars => LifeInv'
<1> SUFFICES ASSUME LifeInv, [Next]_vars PROVE TellsMembers' /\ MembersLive'
  BY StepTyped DEF LifeInv
<1> USE ServerAssumption DEF serverVars, sessionVars, registryVars, notiVars
<1>0. TypeOK /\ TellsMembers /\ MembersLive BY DEF LifeInv
<1> DEFINE Goal == TellsMembers' /\ MembersLive'
<1>1. ASSUME AcceptFails PROVE Goal
  BY <1>0, <1>1 DEF AcceptFails, TellsMembers, MembersLive
<1>2. ASSUME NEW s \in Sessions,
             ClientConnects(s) \/ AcceptSession(s) \/ AcceptGone(s) \/ ReadFails(s) \/ Destroy(s)
      PROVE  Goal
  BY <1>0, <1>2
  DEF ClientConnects, AcceptSession, AcceptGone, ReadFails, Destroy, Goto, TellsMembers,
      MembersLive, TypeOK
<1>3. ASSUME NEW s \in Sessions, Handle(s) \/ StoiThrows(s) \/ Reconnect(s) PROVE Goal
  BY <1>0, <1>3
  DEF Handle, HandleOther, HandleQUIT, HandleNOTI, ShutdownThrows, StoiThrows, Reconnect, Goto,
      TellsMembers, MembersLive, TypeOK
<1>4. ASSUME NEW s \in Sessions, join(s) \/ leave(s) PROVE Goal
  <2>a. Announce(s, loggedUsers \cup {s}) \/ Announce(s, loggedUsers \ {s})
    BY <1>4 DEF join, leave
  <2>b. /\ loggedUsers \cup {s} \in SUBSET (loggedUsers \cup {s})
        /\ loggedUsers \ {s} \in SUBSET (loggedUsers \cup {s})
    OBVIOUS
  <2>1. PICK users \in SUBSET (loggedUsers \cup {s}) : Announce(s, users)
    <3> HIDE DEF Goal
    <3> QED BY <2>a, <2>b, Zenon
  <2>2. Goto(s, "joining") \/ Goto(s, "leaving") BY <1>4 DEF join, leave
  <2>3. \A u \in Sessions : toTell[u] = {} BY <1>0, <2>1 DEF Announce, TellsMembers
  <2>4. TellsMembers' BY <1>0, <2>1, <2>3 DEF Announce, TellsMembers, TypeOK
  <2>5. MembersLive' BY <1>0, <2>1, <2>2 DEF Announce, Goto, MembersLive, TypeOK
  <2> QED BY <2>4, <2>5
<1>5. ASSUME NEW s \in Sessions, NEW u \in Sessions, deliver(s, u) PROVE Goal
  BY <1>0, <1>5 DEF deliver, Told, TellsMembers, MembersLive, TypeOK
<1>6. ASSUME NEW s \in Sessions, Unlock(s) PROVE Goal
  <2>1. TellsMembers' BY <1>0, <1>6 DEF Unlock, TellsMembers
  <2>2. \A u \in Sessions : phase'[u] = "destroyed" => phase[u] = "destroyed"
    BY <1>0, <1>6 DEF Unlock, TypeOK
  <2>3. MembersLive' BY <1>0, <1>6, <2>2 DEF Unlock, MembersLive, TypeOK
  <2> QED BY <2>1, <2>3
<1>7. ASSUME NEW s \in Sessions, Notify(s) PROVE Goal
  <2>1. UNCHANGED <<phase, loggedUsers, mutex, toTell>>
    BY <1>7 DEF Notify, NotiConnects, NotiBreaks, SendNext, SendRest
  <2> QED BY <1>0, <2>1 DEF TellsMembers, MembersLive
<1>8. CASE UNCHANGED vars BY <1>0, <1>8 DEF vars, TellsMembers, MembersLive
<1> QED BY <1>1, <1>2, <1>3, <1>4, <1>5, <1>6, <1>7, <1>8 DEF Next, Handler

LEMMA AlwaysLife == Spec => []LifeInv
<1> QED BY InitLife, StepLife, PTL DEF Spec

-----------------------------------------------------------------------------
(* In which order.                                                         *)

LEMMA InitOrder == Init => NewsOrder
<1> SUFFICES ASSUME Init, NEW u \in Sessions PROVE OrderOf(u) BY DEF NewsOrder
<1>1. heard[u] = <<>> /\ queued[u] = <<>> /\ cut[u] = {} /\ \A s \in Sessions : toTell[s] = {}
  BY DEF Init
<1>2. DOMAIN <<>> = {} OBVIOUS
<1>3. OrderFine(<<>>, <<>>, {}, news)
  BY <1>2 DEF OrderFine, HeardFine, Increasing, Before, UpTo, TextsUpTo
<1> QED BY <1>1, <1>3 DEF OrderOf

(* A step that leaves alone one client. *)
LEMMA OtherOrder ==
  ASSUME NEW u \in Sessions, OrderOf(u), heard'[u] = heard[u], queued'[u] = queued[u],
         cut'[u] = cut[u], news' = news, \A s \in Sessions : toTell'[s] \subseteq toTell[s]
  PROVE  OrderOf(u)'
BY DEF OrderOf

(* A step that leaves alone what is sent, waits and is to be told. *)
LEMMA SilentOrder ==
  ASSUME NewsOrder, UNCHANGED <<heard, queued, cut, news>>,
         \A s \in Sessions : toTell'[s] \subseteq toTell[s]
  PROVE  NewsOrder'
<1>1. \A u \in Sessions : OrderOf(u)' BY OtherOrder DEF NewsOrder
<1> QED BY <1>1 DEF NewsOrder

(* The writes of client s that wait are dropped with the socket. *)
LEMMA DroppedOrder ==
  ASSUME TypeOK, NewsOrder, NEW s \in Sessions, UNCHANGED <<heard, cut, news, toTell>>,
         queued' = [queued EXCEPT ![s] = <<>>]
  PROVE  NewsOrder'
<1>1. ASSUME NEW u \in Sessions, u # s PROVE OrderOf(u)'
  <2>1. queued'[u] = queued[u] BY <1>1 DEF TypeOK
  <2> QED BY <2>1, OtherOrder DEF NewsOrder
<1>2. queued'[s] = <<>> BY DEF TypeOK
<1>3. DOMAIN <<>> = {} OBVIOUS
<1>4. OrderFine(heard[s], <<>>, cut[s], news)
  BY <1>3 DEF NewsOrder, OrderOf, OrderFine, Increasing, Before, UpTo
<1>5. Under(<<>>, news) BY <1>3 DEF Under
<1>6. OrderOf(s)' BY <1>2, <1>4, <1>5 DEF NewsOrder, OrderOf
<1> QED BY <1>1, <1>6 DEF NewsOrder

LEMMA AnnounceOrder ==
  ASSUME TypeOK, NewsOrder, news' = news + 1, UNCHANGED <<heard, queued, cut>>
  PROVE  NewsOrder'
<1> SUFFICES ASSUME NEW u \in Sessions PROVE OrderOf(u)' BY DEF NewsOrder
<1>1. OrderFine(heard[u], queued[u], cut[u], news) BY DEF NewsOrder, OrderOf
<1>2. /\ news \in Nat /\ cut[u] \subseteq Nat
      /\ \A i \in DOMAIN heard[u] : heard[u][i] \in Pieces
      /\ \A i \in DOMAIN queued[u] : queued[u][i] \in Writes
  <2>1. heard[u] \in Seq(Pieces) /\ queued[u] \in Seq(Writes) BY DEF TypeOK
  <2> QED BY <2>1 DEF TypeOK
<1>3. /\ \A i \in DOMAIN heard[u] : heard[u][i].no \in Nat /\ heard[u][i].text \in Nat
      /\ \A i \in DOMAIN queued[u] : queued[u][i].no \in Nat
  BY <1>2 DEF Pieces, Writes
<1>4. UpTo(heard[u], news + 1) /\ TextsUpTo(heard[u], news + 1) /\ UpTo(queued[u], news + 1)
  BY <1>1, <1>2, <1>3 DEF OrderFine, UpTo, TextsUpTo
<1>5. \A k \in cut[u] : k <= news + 1 BY <1>1, <1>2 DEF OrderFine
<1>6. Under(heard[u], news + 1) /\ Under(queued[u], news + 1)
  BY <1>1, <1>2, <1>3 DEF OrderFine, UpTo, Under
<1>7. OrderFine(heard[u], queued[u], cut[u], news + 1) BY <1>1, <1>4, <1>5 DEF OrderFine
<1> QED BY <1>6, <1>7 DEF OrderOf

LEMMA DeliverOrder ==
  ASSUME LifeInv, NewsOrder, NEW s \in Sessions, NEW u \in Sessions, deliver(s, u)
  PROVE  NewsOrder'
<1>0. TypeOK /\ TellsMembers BY DEF LifeInv
<1>1. /\ news \in Nat /\ news' = news /\ u \in toTell[s] /\ mutex = s
      /\ heard[u] \in Seq(Pieces) /\ queued[u] \in Seq(Writes)
      /\ \A r \in Sessions : toTell'[r] \subseteq toTell[r]
  BY <1>0 DEF deliver, Told, TellsMembers, TypeOK
<1>2. \A r \in Sessions : u \notin toTell'[r]
  BY <1>0, <1>1 DEF deliver, Told, TellsMembers, TypeOK
<1>3. OrderOf(u) /\ Under(heard[u], news) /\ Under(queued[u], news)
  BY <1>1 DEF NewsOrder, OrderOf
<1>4. ASSUME NEW v \in Sessions, v # u PROVE OrderOf(v)'
  <2>1. heard'[v] = heard[v] /\ queued'[v] = queued[v] /\ cut'[v] = cut[v]
    BY <1>0, <1>4 DEF deliver, Send, SendPart, Wait, TypeOK
  <2> QED BY <1>1, <2>1, OtherOrder DEF NewsOrder
<1>5. CASE UNCHANGED <<queued, cut, heard>> BY <1>1, <1>5, SilentOrder
<1>6. CASE Wait(u, news, "late") /\ UNCHANGED <<cut, heard>>
  <2> DEFINE w == [no |-> news, how |-> "late"]
  <2>1. w \in Writes /\ w.no = news /\ w.no <= news
    <3>1. w \in Writes BY <1>1, WriteTypes
    <3>2. w.no = news OBVIOUS
    <3>3. w.no <= news BY <1>1, <3>2
    <3> QED BY <3>1, <3>2, <3>3
  <2>2. queued'[u] = Append(queued[u], w) BY <1>0, <1>6 DEF Wait, TypeOK
  <2> HIDE DEF w
  <2>3. OrderFine(heard[u], Append(queued[u], w), cut[u], news)
    BY <1>1, <1>3, <2>1, WaitFine DEF OrderOf, Under
  <2>4. OrderOf(u)' BY <1>1, <1>2, <1>6, <2>2, <2>3 DEF OrderOf
  <2> QED BY <1>4, <2>4 DEF NewsOrder
<1>7. ASSUME NEW how \in {"whole", "part"}, Send(u, news, news, how), queued[u] = <<>>,
             UNCHANGED queued, cut'[u] \subseteq cut[u] \cup {news}
      PROVE  NewsOrder'
  <2> DEFINE x == [no |-> news, text |-> news, how |-> how]
  <2>1. heard'[u] = Append(heard[u], x) BY <1>0, <1>7 DEF Send, TypeOK
  <2>2. OrderFine(Append(heard[u], x), <<>>, cut[u] \cup {news}, news)
    BY <1>1, <1>3, <1>7, FreshFine DEF OrderOf
  <2> HIDE DEF x
  <2>3. OrderFine(Append(heard[u], x), <<>>, cut'[u], news) BY <1>7, <2>2 DEF OrderFine
  <2>4. OrderOf(u)' BY <1>1, <1>2, <1>7, <2>1, <2>3 DEF OrderOf
  <2> QED BY <1>4, <2>4 DEF NewsOrder
<1>8. SendPart(u, news, news) => cut'[u] \subseteq cut[u] \cup {news}
  BY <1>0 DEF SendPart, TypeOK
<1> QED BY <1>5, <1>6, <1>7, <1>8 DEF deliver, SendPart

LEMMA NextOrder ==
  ASSUME LifeInv, NewsOrder, NEW s \in Sessions, SendNext(s)
  PROVE  NewsOrder'
<1>0. TypeOK BY DEF LifeInv
<1> DEFINE w == Head(queued[s])
<1>1. /\ heard[s] \in Seq(Pieces) /\ queued[s] \in Seq(Writes) /\ queued[s] # <<>>
      /\ news \in Nat /\ UNCHANGED <<news, toTell>>
      /\ queued'[s] = Tail(queued[s])
      /\ \A v \in Sessions : v # s => queued'[v] = queued[v]
  BY <1>0 DEF SendNext, registryVars, TypeOK
<1>2. w \in Writes BY <1>1, TailAt
<1>3. w.no \in Nat /\ w.how \in {"late", "rest"} BY <1>2 DEF Writes
<1>4. PICK text \in Texts(w.no), how \in {"late", "rest", "part"} :
        /\ Send(s, w.no, text, how)
        /\ how = w.how \/ (how = "part" /\ w.how = "late")
        /\ UNCHANGED cut \/ cut' = [cut EXCEPT ![s] = cut[s] \cup {w.no}]
  <2>1. PICK text \in Texts(w.no) :
          \/ Send(s, w.no, text, w.how) /\ UNCHANGED cut
          \/ w.how = "late" /\ SendPart(s, w.no, text)
    BY DEF SendNext
  <2> HIDE DEF w
  <2>2. CASE Send(s, w.no, text, w.how) /\ UNCHANGED cut
    <3> WITNESS text \in Texts(w.no)
    <3>1. w.how \in {"late", "rest", "part"} BY <1>3
    <3> WITNESS w.how \in {"late", "rest", "part"}
    <3> QED BY <2>2
  <2>3. CASE w.how = "late" /\ SendPart(s, w.no, text) BY <2>3 DEF SendPart
  <2> QED BY <2>1, <2>2, <2>3
<1>5. OrderOf(s) BY DEF NewsOrder
<1>6. w.no <= news
  <2>1. 1 \in DOMAIN queued[s] /\ w = queued[s][1] BY <1>1, TailAt
  <2> QED BY <1>5, <2>1 DEF OrderOf, OrderFine, UpTo
<1>7. text \in Nat /\ text <= news BY <1>0, <1>1, <1>3, <1>6, TextTypes
<1> DEFINE x == [no |-> w.no, text |-> text, how |-> how]
<1>8. x \in Pieces BY <1>3, <1>7, PieceTypes
<1>9. x.no = w.no /\ x.text = text /\ x.how = how OBVIOUS
<1>10. /\ heard'[s] = Append(heard[s], x)
       /\ \A v \in Sessions : v # s => heard'[v] = heard[v]
  BY <1>0, <1>4 DEF Send, TypeOK
<1> HIDE DEF x
<1>11. /\ cut'[s] \subseteq cut[s] \cup {x.no}
       /\ \A v \in Sessions : v # s => cut'[v] = cut[v]
  BY <1>0, <1>4, <1>9 DEF TypeOK
<1>12. x.how # "whole" /\ (Begins(x) => Begins(w)) BY <1>4, <1>9 DEF Begins
<1>13. /\ OrderFine(Append(heard[s], x), Tail(queued[s]), cut[s] \cup {x.no}, news)
       /\ Under(heard[s], news) /\ Under(queued[s], news)
            => Under(Append(heard[s], x), news) /\ Under(Tail(queued[s]), news)
  BY <1>1, <1>5, <1>7, <1>8, <1>9, <1>12, NextFine DEF OrderOf
<1>14. OrderFine(Append(heard[s], x), Tail(queued[s]), cut'[s], news)
  BY <1>11, <1>13 DEF OrderFine
<1>15. OrderOf(s)' BY <1>1, <1>5, <1>10, <1>13, <1>14 DEF OrderOf
<1>16. ASSUME NEW v \in Sessions, v # s PROVE OrderOf(v)'
  BY <1>1, <1>10, <1>11, <1>16, OtherOrder DEF NewsOrder
<1> QED BY <1>15, <1>16 DEF NewsOrder

LEMMA RestOrder ==
  ASSUME LifeInv, NewsOrder, NEW s \in Sessions, NEW no \in cut[s], SendRest(s, no)
  PROVE  NewsOrder'
<1>0. TypeOK BY DEF LifeInv
<1>1. /\ heard[s] \in Seq(Pieces) /\ queued[s] \in Seq(Writes) /\ no \in Nat
      /\ news \in Nat /\ UNCHANGED <<heard, news, toTell>> /\ cut'[s] \subseteq cut[s]
      /\ \A v \in Sessions : v # s => cut'[v] = cut[v]
  BY <1>0 DEF SendRest, registryVars, TypeOK
<1>2. OrderOf(s) BY DEF NewsOrder
<1>3. ASSUME NEW v \in Sessions, v # s PROVE OrderOf(v)'
  <2>1. queued'[v] = queued[v] BY <1>0, <1>3 DEF SendRest, Wait, TypeOK
  <2> QED BY <1>1, <1>3, <2>1, OtherOrder DEF NewsOrder
<1>4. ASSUME NEW q, queued'[s] = q, OrderFine(heard[s], q, cut[s], news),
             Under(queued[s], news) => Under(q, news)
      PROVE  OrderOf(s)'
  <2>1. OrderFine(heard[s], q, cut'[s], news) BY <1>1, <1>4 DEF OrderFine
  <2> QED BY <1>1, <1>2, <1>4, <2>1 DEF OrderOf
<1>5. CASE UNCHANGED queued
  <2>1. OrderOf(s)' BY <1>2, <1>4, <1>5 DEF OrderOf
  <2> QED BY <1>3, <2>1 DEF NewsOrder
<1>6. CASE Wait(s, no, "rest")
  <2> DEFINE w == [no |-> no, how |-> "rest"]
  <2>1. w \in Writes /\ w.no = no /\ ~Begins(w) BY <1>1, WriteTypes DEF Begins
  <2>2. queued'[s] = Append(queued[s], w) BY <1>0, <1>6 DEF Wait, TypeOK
  <2> HIDE DEF w
  <2>3. w.no <= news BY <1>2, <2>1 DEF OrderOf, OrderFine
  <2>4. OrderFine(heard[s], Append(queued[s], w), cut[s], news)
    BY <1>1, <1>2, <2>1, <2>3, WaitFine DEF OrderOf
  <2>5. Under(queued[s], news) => Under(Append(queued[s], w), news)
    <3>1. \A i \in DOMAIN Append(queued[s], w) :
            \/ i \in DOMAIN queued[s] /\ Append(queued[s], w)[i] = queued[s][i]
            \/ Append(queued[s], w)[i] = w
      BY <1>1, <2>1, AppendAt
    <3> QED BY <2>1, <3>1 DEF Under
  <2>6. OrderOf(s)' BY <1>4, <2>2, <2>4, <2>5
  <2> QED BY <1>3, <2>6 DEF NewsOrder
<1> QED BY <1>5, <1>6 DEF SendRest

LEMMA StepOrder == LifeInv /\ NewsOrder /\ [Next]_vars => NewsOrder'
<1> SUFFICES ASSUME LifeInv, NewsOrder, [Next]_vars PROVE NewsOrder' OBVIOUS
<1> USE ServerAssumption DEF serverVars, sessionVars, registryVars, notiVars
<1>0. TypeOK /\ TellsMembers BY DEF LifeInv
<1>1. ASSUME AcceptFails PROVE NewsOrder' BY <1>1, SilentOrder DEF AcceptFails
<1>2. ASSUME NEW s \in Sessions,
             ClientConnects(s) \/ AcceptSession(s) \/ AcceptGone(s) \/ ReadFails(s) \/ Destroy(s)
      PROVE  NewsOrder'
  BY <1>2, SilentOrder
  DEF ClientConnects, AcceptSession, AcceptGone, ReadFails, Destroy
<1>3. ASSUME NEW s \in Sessions, Handle(s) \/ StoiThrows(s) \/ Reconnect(s) PROVE NewsOrder'
  <2>1. CASE HandleOther(s) \/ HandleQUIT(s) \/ ShutdownThrows(s) \/ StoiThrows(s) \/ Reconnect(s)
    BY <2>1, SilentOrder DEF HandleOther, HandleQUIT, ShutdownThrows, StoiThrows, Reconnect
  <2>2. CASE HandleNOTI(s) BY <1>0, <2>2, DroppedOrder DEF HandleNOTI
  <2> QED BY <1>3, <2>1, <2>2 DEF Handle
<1>4. ASSUME NEW s \in Sessions, join(s) \/ leave(s) PROVE NewsOrder'
  BY <1>0, <1>4, AnnounceOrder DEF join, leave, Announce
<1>5. ASSUME NEW s \in Sessions, NEW u \in Sessions, deliver(s, u) PROVE NewsOrder'
  BY <1>5, DeliverOrder
<1>6. ASSUME NEW s \in Sessions, Unlock(s) PROVE NewsOrder'
  BY <1>6, SilentOrder DEF Unlock
<1>7. ASSUME NEW s \in Sessions, Notify(s) PROVE NewsOrder'
  <2>1. CASE NotiConnects(s) BY <2>1, SilentOrder DEF NotiConnects
  <2>2. CASE NotiBreaks(s) BY <1>0, <2>2, DroppedOrder DEF NotiBreaks
  <2>3. CASE SendNext(s) BY <2>3, NextOrder
  <2>4. CASE \E no \in cut[s] : SendRest(s, no) BY <2>4, RestOrder
  <2> QED BY <1>7, <2>1, <2>2, <2>3, <2>4 DEF Notify
<1>8. CASE UNCHANGED vars BY <1>8, SilentOrder DEF vars
<1> QED
  BY <1>1, <1>2, <1>3, <1>4, <1>5, <1>6, <1>7, <1>8 DEF Next, Handler

-----------------------------------------------------------------------------
(* For whom a write has begun.                                             *)

Has(r, n) == \E i \in DOMAIN r : r[i].no = n
Begun(u) == Has(heard[u], news) \/ Has(queued[u], news)

(* For a member that was connected when the announcement was begun a write *)
(* has begun or waits, or the thread with mutex_ has still to tell it.     *)
ToldOf(u) ==
  u \in loggedUsers /\ noti[u] = "connected" /\ u \notin late /\ news > 0 =>
    Begun(u) \/ \E s \in Sessions : u \in toTell[s]

AllTold == \A u \in Sessions : ToldOf(u)

LEMMA HasAppended ==
  ASSUME NEW S, NEW r \in Seq(S), NEW x \in S
  PROVE  Has(Append(r, x), x.no) /\ \A n : Has(r, n) => Has(Append(r, x), n)
<1>1. /\ \A i \in DOMAIN r : i \in DOMAIN Append(r, x) /\ Append(r, x)[i] = r[i]
      /\ Len(r) + 1 \in DOMAIN Append(r, x) /\ Append(r, x)[Len(r) + 1] = x
  BY AppendAt
<1> QED BY <1>1 DEF Has

(* A step that makes no announcement and takes back nothing from u. *)
LEMMA OtherTold ==
  ASSUME NEW u \in Sessions, ToldOf(u), UNCHANGED <<news, loggedUsers>>,
         noti'[u] = "connected" => noti[u] = "connected" /\ (Begun(u) => Begun(u)'),
         u \in late => u \in late',
         \A s \in Sessions : u \in toTell[s] => u \in toTell'[s]
  PROVE  ToldOf(u)'
BY DEF ToldOf

(* A step that sends u something, or makes a write to it wait. *)
LEMMA SentHas ==
  ASSUME TypeOK, NEW u \in Sessions, NEW no \in Nat, NEW text \in Nat,
         NEW how \in {"whole", "late", "part", "rest"}, Send(u, no, text, how)
  PROVE  /\ Has(heard'[u], no) /\ \A n : Has(heard[u], n) => Has(heard'[u], n)
         /\ \A v \in Sessions : v # u => heard'[v] = heard[v]
<1> DEFINE x == [no |-> no, text |-> text, how |-> how]
<1>1. x \in Pieces /\ x.no = no BY PieceTypes
<1>2. heard'[u] = Append(heard[u], x) /\ \A v \in Sessions : v # u => heard'[v] = heard[v]
  BY DEF Send, TypeOK
<1> HIDE DEF x
<1>3. heard[u] \in Seq(Pieces) BY DEF TypeOK
<1>4. Has(Append(heard[u], x), x.no) /\ \A n : Has(heard[u], n) => Has(Append(heard[u], x), n)
  BY <1>1, <1>3, HasAppended
<1> QED BY <1>1, <1>2, <1>4

LEMMA WaitHas ==
  ASSUME TypeOK, NEW u \in Sessions, NEW no \in Nat, NEW how \in {"late", "rest"},
         Wait(u, no, how)
  PROVE  /\ Has(queued'[u], no) /\ \A n : Has(queued[u], n) => Has(queued'[u], n)
         /\ \A v \in Sessions : v # u => queued'[v] = queued[v]
<1> DEFINE w == [no |-> no, how |-> how]
<1>1. w \in Writes /\ w.no = no BY WriteTypes
<1>2. queued'[u] = Append(queued[u], w) /\ \A v \in Sessions : v # u => queued'[v] = queued[v]
  BY DEF Wait, TypeOK
<1> HIDE DEF w
<1>3. queued[u] \in Seq(Writes) BY DEF TypeOK
<1>4. /\ Has(Append(queued[u], w), w.no)
      /\ \A n : Has(queued[u], n) => Has(Append(queued[u], w), n)
  BY <1>1, <1>3, HasAppended
<1> QED BY <1>1, <1>2, <1>4

LEMMA DeliverTold ==
  ASSUME LifeInv, AllTold, NEW s \in Sessions, NEW u \in Sessions, deliver(s, u)
  PROVE  AllTold'
<1>0. TypeOK /\ news \in Nat BY DEF LifeInv, TypeOK
<1>1. /\ UNCHANGED <<news, loggedUsers, noti, late>>
      /\ toTell' = [toTell EXCEPT ![s] = toTell[s] \ {u}]
  BY DEF deliver, Told
<1>2. ASSUME NEW v \in Sessions, v # u PROVE ToldOf(v)'
  <2>1. heard'[v] = heard[v] /\ queued'[v] = queued[v]
    BY <1>0, <1>2 DEF deliver, Send, SendPart, Wait, TypeOK
  <2>2. \A r \in Sessions : v \in toTell[r] => v \in toTell'[r]
    BY <1>0, <1>1, <1>2 DEF TypeOK
  <2>3. Begun(v) => Begun(v)' BY <1>1, <2>1 DEF Begun
  <2> QED BY <1>1, <2>2, <2>3, OtherTold DEF AllTold
<1>3. ToldOf(u)'
  <2>1. CASE Wait(u, news, "late")
    <3>1. Has(queued'[u], news) BY <1>0, <2>1, WaitHas
    <3> QED BY <1>1, <3>1 DEF ToldOf, Begun
  <2>2. CASE Send(u, news, news, "whole")
    <3>1. Has(heard'[u], news) BY <1>0, <2>2, SentHas
    <3> QED BY <1>1, <3>1 DEF ToldOf, Begun
  <2>3. CASE SendPart(u, news, news)
    <3>1. Has(heard'[u], news) BY <1>0, <2>3, SentHas DEF SendPart
    <3> QED BY <1>1, <3>1 DEF ToldOf, Begun
  <2>4. CASE noti[u] \in {"closed", "broken"} BY <1>1, <2>4 DEF ToldOf
  <2> QED BY <2>1, <2>2, <2>3, <2>4 DEF deliver
<1> QED BY <1>2, <1>3 DEF AllTold

LEMMA NextTold ==
  ASSUME LifeInv, AllTold, NEW s \in Sessions, SendNext(s)
  PROVE  AllTold'
<1>0. TypeOK BY DEF LifeInv
<1> DEFINE w == Head(queued[s])
<1>1. /\ queued[s] \in Seq(Writes) /\ queued[s] # <<>>
      /\ UNCHANGED <<news, loggedUsers, toTell, noti, late>>
      /\ queued'[s] = Tail(queued[s])
      /\ \A v \in Sessions : v # s => queued'[v] = queued[v]
  BY <1>0 DEF SendNext, registryVars, TypeOK
<1>2. /\ w \in Writes
      /\ \A i \in DOMAIN queued[s] :
           queued[s][i] = w \/ \E j \in DOMAIN queued'[s] : queued'[s][j] = queued[s][i]
  BY <1>1, TailAt
<1>3. w.no \in Nat /\ w.how \in {"late", "rest"} BY <1>2 DEF Writes
<1>4. PICK text \in Texts(w.no), how \in {"late", "rest", "part"} : Send(s, w.no, text, how)
  <2>1. PICK text \in Texts(w.no) :
          \/ Send(s, w.no, text, w.how) /\ UNCHANGED cut
          \/ w.how = "late" /\ SendPart(s, w.no, text)
    BY DEF SendNext
  <2> HIDE DEF w
  <2>2. CASE Send(s, w.no, text, w.how) BY <1>3, <2>2
  <2>3. CASE SendPart(s, w.no, text) BY <2>3 DEF SendPart
  <2> QED BY <2>1, <2>2, <2>3
<1> HIDE DEF w
<1>5. text \in Nat BY <1>0, <1>3, TextTypes
<1>6. /\ Has(heard'[s], w.no) /\ \A n : Has(heard[s], n) => Has(heard'[s], n)
      /\ \A v \in Sessions : v # s => heard'[v] = heard[v]
  BY <1>0, <1>3, <1>4, <1>5, SentHas
<1>7. \A n : Has(queued[s], n) => n = w.no \/ Has(queued'[s], n)
  BY <1>2 DEF Has
<1>8. Begun(s) => Begun(s)' BY <1>1, <1>6, <1>7 DEF Begun
<1>9. \A v \in Sessions : Begun(v) => Begun(v)'
  <2>1. ASSUME NEW v \in Sessions, v # s PROVE Begun(v) => Begun(v)'
    BY <1>1, <1>6, <2>1 DEF Begun
  <2> QED BY <1>8, <2>1
<1> QED BY <1>1, <1>9, OtherTold DEF AllTold

LEMMA RestTold ==
  ASSUME LifeInv, AllTold, NEW s \in Sessions, NEW no \in cut[s], SendRest(s, no)
  PROVE  AllTold'
<1>0. TypeOK /\ no \in Nat BY DEF LifeInv, TypeOK
<1>1. UNCHANGED <<news, loggedUsers, toTell, noti, late, heard>>
  BY DEF SendRest, registryVars
<1>2. \A v \in Sessions : \A n : Has(queued[v], n) => Has(queued'[v], n)
  <2>1. CASE UNCHANGED queued BY <2>1
  <2>2. CASE Wait(s, no, "rest")
    <3>1. /\ \A n : Has(queued[s], n) => Has(queued'[s], n)
          /\ \A v \in Sessions : v # s => queued'[v] = queued[v]
      BY <1>0, <2>2, WaitHas
    <3> QED BY <3>1
  <2> QED BY <2>1, <2>2 DEF SendRest
<1>3. \A v \in Sessions : Begun(v) => Begun(v)' BY <1>1, <1>2 DEF Begun
<1> QED BY <1>1, <1>3, OtherTold DEF AllTold

LEMMA StepTold == LifeInv /\ AllTold /\ [Next]_vars => AllTold'
<1> SUFFICES ASSUME LifeInv, AllTold, [Next]_vars PROVE AllTold' OBVIOUS
<1> USE ServerAssumption DEF serverVars, sessionVars, registryVars, notiVars
<1>0. TypeOK /\ \A u \in Sessions : ToldOf(u) BY DEF LifeInv, AllTold
<1>1. ASSUME UNCHANGED <<news, loggedUsers, heard, queued, noti, late, toTell>> PROVE AllTold'
  BY <1>0, <1>1 DEF AllTold, ToldOf, Begun
<1>2. ASSUME AcceptFails PROVE AllTold' BY <1>1, <1>2 DEF AcceptFails
<1>3. ASSUME NEW s \in Sessions,
             ClientConnects(s) \/ AcceptSession(s) \/ AcceptGone(s) \/ ReadFails(s) \/ Destroy(s)
      PROVE  AllTold'
  BY <1>1, <1>3 DEF ClientConnects, AcceptSession, AcceptGone, ReadFails, Destroy
(* A socket s that is not connected when the step is done. *)
<1>4. ASSUME NEW s \in Sessions, UNCHANGED <<news, loggedUsers, heard, late, toTell>>,
             NEW n, n # "connected", noti' = [noti EXCEPT ![s] = n],
             NEW q, queued' = [queued EXCEPT ![s] = q]
      PROVE  AllTold'
  <2>1. \A u \in Sessions : /\ noti'[u] = "connected" => noti[u] = "connected" /\ u # s
                            /\ u # s => queued'[u] = queued[u]
    BY <1>0, <1>4 DEF TypeOK
  <2> QED BY <1>0, <1>4, <2>1 DEF AllTold, ToldOf, Begun
<1>5. ASSUME NEW s \in Sessions, Handle(s) \/ StoiThrows(s) \/ Reconnect(s) PROVE AllTold'
  <2>1. CASE HandleOther(s) \/ HandleQUIT(s) \/ ShutdownThrows(s) \/ StoiThrows(s)
    BY <1>1, <2>1 DEF HandleOther, HandleQUIT, ShutdownThrows, StoiThrows
  <2>2. CASE HandleNOTI(s) BY <1>4, <2>2 DEF HandleNOTI
  <2>3. CASE Reconnect(s)
    <3>1. queued' = [queued EXCEPT ![s] = queued[s]] BY <1>0, <2>3 DEF Reconnect, TypeOK
    <3> QED BY <1>4, <2>3, <3>1 DEF Reconnect
  <2> QED BY <1>5, <2>1, <2>2, <2>3 DEF Handle
<1>6. ASSUME NEW s \in Sessions, NEW users, Announce(s, users) PROVE AllTold'
  <2>1. loggedUsers' = users /\ toTell'[s] = users BY <1>0, <1>6 DEF Announce, TypeOK
  <2> QED BY <2>1 DEF AllTold, ToldOf
<1>7. ASSUME NEW s \in Sessions, join(s) \/ leave(s) PROVE AllTold'
  BY <1>6, <1>7 DEF join, leave
<1>8. ASSUME NEW s \in Sessions, NEW u \in Sessions, deliver(s, u) PROVE AllTold'
  BY <1>8, DeliverTold
<1>9. ASSUME NEW s \in Sessions, Unlock(s) PROVE AllTold' BY <1>1, <1>9 DEF Unlock
<1>10. ASSUME NEW s \in Sessions, Notify(s) PROVE AllTold'
  <2>1. CASE NotiConnects(s)
    <3>1. /\ UNCHANGED <<news, loggedUsers, toTell, heard, queued>> /\ late' = late \cup {s}
          /\ noti' = [noti EXCEPT ![s] = "connected"]
      BY <2>1 DEF NotiConnects
    <3>2. \A v \in Sessions : v # s => noti'[v] = noti[v] BY <1>0, <3>1 DEF TypeOK
    <3> QED BY <1>0, <3>1, <3>2 DEF AllTold, ToldOf, Begun
  <2>2. CASE NotiBreaks(s) BY <1>4, <2>2 DEF NotiBreaks
  <2>3. CASE SendNext(s) BY <2>3, NextTold
  <2>4. CASE \E no \in cut[s] : SendRest(s, no) BY <2>4, RestTold
  <2> QED BY <1>10, <2>1, <2>2, <2>3, <2>4 DEF Notify
<1>11. CASE UNCHANGED vars BY <1>1, <1>11 DEF vars
<1> QED
  BY <1>2, <1>3, <1>5, <1>7, <1>8, <1>9, <1>10, <1>11 DEF Next, Handler

-----------------------------------------------------------------------------
(* The theorems.                                                           *)

(* Every variable keeps to its type; in particular the registry holds      *)
(* sessions only, and the mutex is held by one of them or by none.         *)
THEOREM TypeCorrect == Spec => []TypeOK
BY AlwaysLife, PTL DEF LifeInv

(* However many threads announce, deliver (FTPSession.cpp:107) is called   *)
(* under mutex_ and only on sessions that are registered, and so alive.    *)
THEOREM ToldSafe == Spec => []ToldAreAlive
<1>1. LifeInv => ToldAreAlive
  BY DEF LifeInv, TellsMembers, MembersLive, ToldAreAlive
<1> QED BY <1>1, AlwaysLife, PTL

(* However the announcements, the connects of NOTI and their failures are  *)
(* interleaved and however long writes wait or how they are cut: writes to *)
(* a client begin in the order of the announcements, and one that is sent  *)
(* whole and at once is no older than anything sent before.                *)
THEOREM OrderSafe == Spec => []HeardInOrder
<1>1. NewsOrder => HeardInOrder
  BY DEF NewsOrder, OrderOf, OrderFine, HeardFine, HeardInOrder
<1>2. Spec => []NewsOrder BY InitOrder, StepOrder, AlwaysLife, PTL DEF Spec
<1> QED BY <1>1, <1>2, PTL

(* For whoever is registered and was connected when an announcement was    *)
(* begun, a write of it has begun or waits in its turn when mutex_ is free *)
(* again, whatever NOTI does meanwhile.                                    *)
THEOREM AllHear == Spec => []NobodyMissed
<1>1. LifeInv /\ AllTold => NobodyMissed
  <2> SUFFICES ASSUME LifeInv, AllTold, mutex = NoSession, NEW u \in loggedUsers,
                      noti[u] = "connected", u \notin late, news > 0
               PROVE  Begun(u)
    BY DEF NobodyMissed, Begun, Has
  <2>1. u \in Sessions /\ \A s \in Sessions : toTell[s] = {}
    BY ServerAssumption DEF LifeInv, TypeOK, TellsMembers
  <2> QED BY <2>1 DEF AllTold, ToldOf
<1>2. Init => AllTold BY DEF Init, AllTold, ToldOf
<1>3. Spec => []AllTold BY <1>2, StepTold, AlwaysLife, PTL DEF Spec
<1> QED BY <1>1, <1>3, AlwaysLife, PTL

-----------------------------------------------------------------------------
(* Paths: what the library's operators on sequences do to them.            *)

(* Prefixes, read off place by place. *)
LEMMA PrefixAt ==
  ASSUME NEW S, NEW p \in Seq(S), NEW q \in Seq(S)
  PROVE  IsPrefix(p, q) <=> Len(p) <= Len(q) /\ \A i \in 1 .. Len(p) : p[i] = q[i]
<1>1. Len(p) \in Nat /\ Len(q) \in Nat
  OBVIOUS
<1>2. SubSeq(p, 1, Len(p)) = p
  OBVIOUS
<1>3. ASSUME Len(p) <= Len(q)
      PROVE  SubSeq(q, 1, Len(p)) = p <=> \A i \in 1 .. Len(p) : p[i] = q[i]
  <2>1. /\ SubSeq(q, 1, Len(p)) \in Seq(S) /\ Len(SubSeq(q, 1, Len(p))) = Len(p)
        /\ \A i \in 1 .. Len(p) : SubSeq(q, 1, Len(p))[i] = q[i]
    BY <1>1, <1>3
  <2> DEFINE r == SubSeq(q, 1, Len(p))
  <2>2. r \in Seq(S) /\ Len(r) = Len(p) /\ \A i \in 1 .. Len(p) : r[i] = q[i]
    BY <2>1
  <2> HIDE DEF r
  <2>3. (\A i \in 1 .. Len(p) : p[i] = q[i]) => r = p
    BY <2>2
  <2>4. r = p <=> \A i \in 1 .. Len(p) : p[i] = q[i]
    BY <2>2, <2>3
  <2> QED
    BY <2>4 DEF r
<1> QED
  BY <1>2, <1>3 DEF IsPrefix

LEMMA PrefixTransitive ==
  ASSUME NEW S, NEW p \in Seq(S), NEW q \in Seq(S), NEW r \in Seq(S),
         IsPrefix(p, q), IsPrefix(q, r)
  PROVE  IsPrefix(p, r)
<1>1. /\ Len(p) \in Nat /\ Len(q) \in Nat /\ Len(r) \in Nat
      /\ Len(p) <= Len(q) /\ Len(q) <= Len(r)
      /\ \A i \in 1 .. Len(p) : p[i] = q[i]
      /\ \A i \in 1 .. Len(q) : q[i] = r[i]
  BY PrefixAt
<1>2. Len(p) <= Len(r) /\ \A i \in 1 .. Len(p) : p[i] = r[i]
  BY <1>1
<1> QED
  BY <1>2, PrefixAt

(* Of two that begin the same path one begins the other. *)
LEMMA PrefixesCompare ==
  ASSUME NEW S, NEW p \in Seq(S), NEW q \in Seq(S), NEW r \in Seq(S),
         IsPrefix(p, r), IsPrefix(q, r)
  PROVE  IsPrefix(p, q) \/ (IsPrefix(q, p) /\ q # p)
<1>1. /\ Len(p) \in Nat /\ Len(q) \in Nat /\ Len(r) \in Nat
      /\ Len(p) <= Len(r) /\ Len(q) <= Len(r)
      /\ \A i \in 1 .. Len(p) : p[i] = r[i]
      /\ \A i \in 1 .. Len(q) : q[i] = r[i]
  BY PrefixAt
<1>2. CASE Len(p) <= Len(q)
  <2>1. \A i \in 1 .. Len(p) : p[i] = q[i]
    BY <1>1, <1>2
  <2> QED
    BY <1>2, <2>1, PrefixAt
<1>3. CASE ~(Len(p) <= Len(q))
  <2>1. Len(q) <= Len(p) /\ q # p /\ \A i \in 1 .. Len(q) : q[i] = p[i]
    BY <1>1, <1>3
  <2> QED
    BY <2>1, PrefixAt
<1> QED
  BY <1>2, <1>3

LEMMA PrefixSelf ==
  ASSUME NEW S, NEW p \in Seq(S), NEW q \in Seq(S)
  PROVE  /\ IsPrefix(p, p)
         /\ IsPrefix(p, q) /\ IsPrefix(q, p) => p = q
<1>1. IsPrefix(p, p)
  BY PrefixAt
<1>2. ASSUME IsPrefix(p, q), IsPrefix(q, p) PROVE p = q
  <2>1. /\ Len(p) \in Nat /\ Len(q) \in Nat /\ Len(p) <= Len(q) /\ Len(q) <= Len(p)
        /\ \A i \in 1 .. Len(p) : p[i] = q[i]
    BY <1>2, PrefixAt
  <2>2. Len(p) = Len(q)
    BY <2>1
  <2> QED
    BY <2>1, <2>2
<1> QED
  BY <1>1, <1>2

(* The directory a path is in. *)
LEMMA FrontPrefix ==
  ASSUME NEW S, NEW p \in Seq(S), p # <<>>
  PROVE  /\ Front(p) \in Seq(S) /\ IsPrefix(Front(p), p) /\ Front(p) # p
         /\ \A a \in Seq(S) : IsPrefix(a, p) /\ a # p => IsPrefix(a, Front(p))
<1>1. PICK n \in Nat : Len(p) = n + 1
  <2>1. Len(p) - 1 \in Nat /\ Len(p) = (Len(p) - 1) + 1
    OBVIOUS
  <2> QED
    BY <2>1, Zenon
<1>2. /\ Front(p) \in Seq(S) /\ Len(Front(p)) = n
      /\ \A i \in 1 .. n : Front(p)[i] = p[i]
  BY <1>1 DEF Front
<1>3. IsPrefix(Front(p), p) /\ Front(p) # p
  BY <1>1, <1>2, PrefixAt
<1>4. ASSUME NEW a \in Seq(S), IsPrefix(a, p), a # p PROVE IsPrefix(a, Front(p))
  <2>1. Len(a) \in Nat /\ Len(a) <= n + 1 /\ \A i \in 1 .. Len(a) : a[i] = p[i]
    BY <1>1, <1>4, PrefixAt
  <2>2. Len(a) # n + 1
    BY <1>1, <1>4, <2>1
  <2>3. Len(a) <= n
    BY <2>1, <2>2
  <2>4. \A i \in 1 .. Len(a) : a[i] = Front(p)[i]
    BY <1>2, <2>1, <2>3
  <2> QED
    BY <1>2, <2>3, <2>4, PrefixAt
<1> QED
  BY <1>2, <1>3, <1>4

(* What Rebase makes, place by place: y, then what z has behind x. *)
Rebased(r, z, x, y, l) ==
  /\ Len(r) = Len(y) + l
  /\ \A i \in 1 .. Len(y) : r[i] = y[i]
  /\ \A i \in 1 .. l : r[Len(y) + i] = z[Len(x) + i]

LEMMA RebaseAt ==
  ASSUME NEW S, NEW x \in Seq(S), NEW y \in Seq(S), NEW z \in Seq(S), NEW l \in Nat,
         Len(z) = Len(x) + l
  PROVE  Rebase(z, x, y) \in Seq(S) /\ Rebased(Rebase(z, x, y), z, x, y, l)
<1> DEFINE w == SubSeq(z, Len(x) + 1, Len(z))
<1>1. /\ w \in Seq(S) /\ Len(w) = l
      /\ \A i \in 1 .. l : w[i] = z[Len(x) + i]
  OBVIOUS
<1> HIDE DEF w
<1>2. /\ y \o w \in Seq(S) /\ Len(y \o w) = Len(y) + l
      /\ \A i \in 1 .. Len(y) : (y \o w)[i] = y[i]
      /\ \A i \in 1 .. l : (y \o w)[Len(y) + i] = w[i]
  <2>1. y \o w \in Seq(S) /\ Len(y \o w) = Len(y) + Len(w) /\ Len(y) \in Nat
    <3>1. w \in Seq(S) /\ Len(y) \in Nat
      BY <1>1
    <3>2. y \o w \in Seq(S) /\ Len(y \o w) = Len(y) + Len(w)
      BY <3>1, ConcatProperties, Zenon
    <3> QED
      BY <3>1, <3>2
  <2>2. \A i \in 1 .. Len(y) : (y \o w)[i] = y[i]
    BY <1>1
  <2>3. ASSUME NEW i \in 1 .. l PROVE (y \o w)[Len(y) + i] = w[i]
    <3>1. PICK j \in 1 .. (Len(y) + l) : j = Len(y) + i /\ ~(j <= Len(y)) /\ j - Len(y) = i
      <4>1. /\ Len(y) + i \in 1 .. (Len(y) + l) /\ ~(Len(y) + i <= Len(y))
            /\ (Len(y) + i) - Len(y) = i
        BY <2>1
      <4> QED
        BY <4>1, Zenon
    <3>2. (y \o w)[j] = w[j - Len(y)]
      BY <1>1, <2>1, <3>1
    <3> QED
      BY <3>1, <3>2
  <2> QED
    BY <1>1, <2>1, <2>2, <2>3
<1>3. Rebase(z, x, y) = y \o w
  BY DEF Rebase, w
<1> QED
  BY <1>1, <1>2, <1>3 DEF Rebased

(* Rebase moves what is below src to below dst, and back. *)
LEMMA RebaseBelow ==
  ASSUME NEW S, NEW src \in Seq(S), NEW dst \in Seq(S), NEW q \in Seq(S),
         IsPrefix(src, q)
  PROVE  /\ Rebase(q, src, dst) \in Seq(S)
         /\ IsPrefix(dst, Rebase(q, src, dst))
         /\ Rebase(Rebase(q, src, dst), dst, src) = q
         /\ \A a \in Seq(S) : IsPrefix(src, a) /\ IsPrefix(a, q) =>
              IsPrefix(Rebase(a, src, dst), Rebase(q, src, dst))
<1>1. PICK m \in Nat, n \in Nat, k \in Nat :
        Len(src) = m /\ Len(dst) = n /\ Len(q) = m + k
  <2>1. /\ Len(src) \in Nat /\ Len(dst) \in Nat /\ Len(q) \in Nat /\ Len(src) <= Len(q)
    BY PrefixAt
  <2>2. Len(q) - Len(src) \in Nat /\ Len(q) = Len(src) + (Len(q) - Len(src))
    BY <2>1
  <2> QED
    BY <2>1, <2>2, Zenon
<1>2. \A i \in 1 .. m : src[i] = q[i]
  BY <1>1, PrefixAt
<1> DEFINE r == Rebase(q, src, dst)
<1>4. /\ r \in Seq(S) /\ Len(r) = n + k
      /\ \A i \in 1 .. n : r[i] = dst[i]
      /\ \A i \in 1 .. k : r[n + i] = q[m + i]
  <2>1. Len(q) = Len(src) + k /\ k \in Nat
    BY <1>1
  <2>2. r \in Seq(S) /\ Rebased(r, q, src, dst, k)
    BY <2>1, RebaseAt, Zenon
  <2> HIDE DEF r
  <2> QED
    BY <1>1, <2>2 DEF Rebased
<1>5. IsPrefix(dst, r)
  <2> HIDE DEF r
  <2>1. Len(dst) <= Len(r) /\ \A i \in 1 .. Len(dst) : dst[i] = r[i]
    BY <1>1, <1>4
  <2> QED
    BY <1>4, <2>1, PrefixAt
<1>6. Rebase(r, dst, src) = q
  <2> DEFINE b == Rebase(r, dst, src)
  <2> HIDE DEF r
  <2>1. /\ b \in Seq(S) /\ Len(b) = m + k
        /\ \A i \in 1 .. m : b[i] = src[i]
        /\ \A i \in 1 .. k : b[m + i] = r[n + i]
    <3>1. r \in Seq(S) /\ Len(r) = Len(dst) + k /\ k \in Nat
      BY <1>1, <1>4
    <3>2. b \in Seq(S) /\ Rebased(b, r, dst, src, k)
      BY <3>1, RebaseAt, Zenon
    <3> HIDE DEF b
    <3> QED
      BY <1>1, <3>2 DEF Rebased
  <2> HIDE DEF b
  <2>2. \A i \in 1 .. (m + k) : b[i] = q[i]
    <3> TAKE i \in 1 .. (m + k)
    <3>1. CASE i <= m
      BY <1>2, <2>1, <3>1
    <3>2. CASE ~(i <= m)
      <4>1. PICK j \in 1 .. k : i = m + j
        <5>1. i - m \in 1 .. k /\ i = m + (i - m)
          BY <3>2
        <5> QED
          BY <5>1, Zenon
      <4> QED
        BY <1>4, <2>1, <4>1
    <3> QED
      BY <3>1, <3>2
  <2>3. b = q
    BY <1>1, <2>1, <2>2
  <2> QED
    BY <2>3 DEF b
<1>7. ASSUME NEW a \in Seq(S), IsPrefix(src, a), IsPrefix(a, q)
      PROVE  IsPrefix(Rebase(a, src, dst), r)
  <2>1. PICK l \in Nat : Len(a) = m + l /\ l <= k
    <3>1. Len(a) \in Nat /\ m <= Len(a) /\ Len(a) <= m + k
      BY <1>1, <1>7, PrefixAt
    <3>2. Len(a) - m \in Nat /\ Len(a) = m + (Len(a) - m) /\ Len(a) - m <= k
      BY <3>1
    <3> QED
      BY <3>2, Zenon
  <2>2. \A i \in 1 .. (m + l) : a[i] = q[i]
    BY <1>7, <2>1, PrefixAt
  <2> DEFINE b == Rebase(a, src, dst)
  <2> HIDE DEF r
  <2>3. /\ b \in Seq(S) /\ Len(b) = n + l
        /\ \A i \in 1 .. n : b[i] = dst[i]
        /\ \A i \in 1 .. l : b[n + i] = a[m + i]
    <3>1. Len(a) = Len(src) + l /\ l \in Nat
      BY <1>1, <2>1
    <3>2. b \in Seq(S) /\ Rebased(b, a, src, dst, l)
      BY <3>1, RebaseAt, Zenon
    <3> HIDE DEF b
    <3> QED
      BY <1>1, <3>2 DEF Rebased
  <2> HIDE DEF b
  <2>4. \A i \in 1 .. (n + l) : b[i] = r[i]
    <3> TAKE i \in 1 .. (n + l)
    <3>1. CASE i <= n
      BY <1>4, <2>3, <3>1
    <3>2. CASE ~(i <= n)
      <4>1. PICK j \in 1 .. l : i = n + j
        <5>1. i - n \in 1 .. l /\ i = n + (i - n)
          BY <3>2
        <5> QED
          BY <5>1, Zenon
      <4>2. b[i] = a[m + j]
        BY <2>3, <4>1
      <4>3. r[i] = q[m + j]
        BY <1>4, <2>1, <4>1
      <4>4. a[m + j] = q[m + j]
        <5>1. m + j \in 1 .. (m + l)
          BY <4>1
        <5> QED
          BY <2>2, <5>1
      <4> QED
        BY <4>2, <4>3, <4>4
    <3> QED
      BY <3>1, <3>2
  <2>5. IsPrefix(b, r)
    <3>1. Len(b) <= Len(r)
      BY <1>4, <2>1, <2>3
    <3> QED
      BY <1>4, <2>3, <2>4, <3>1, PrefixAt
  <2> QED
    BY <2>5 DEF b
<1> QED
  BY <1>4, <1>5, <1>6, <1>7

(* Paths with all that they begin with are paths. *)
LEMMA PathTypes ==
  /\ Root \in Paths /\ Home \in Paths /\ Paths \subseteq Seq(Names)
  /\ \A q \in Paths : \A p \in Seq(Names) : IsPrefix(p, q) => p \in Paths
  /\ Absent # Dir /\ Absent \notin Contents /\ Dir \notin Contents
  /\ Nothing \notin Params
<1>1. ASSUME NEW q \in Paths, NEW p \in Seq(Names), IsPrefix(p, q)
      PROVE  p \in Paths
  <2>1. Len(p) \in 0 .. Len(q) /\ p = SubSeq(q, 1, Len(p))
    <3>1. q \in Seq(Names)
      BY FilesAssumption
    <3>2. Len(p) \in Nat /\ Len(q) \in Nat /\ SubSeq(p, 1, Len(p)) = p
      BY <3>1
    <3> QED
      BY <1>1, <3>2 DEF IsPrefix
  <2>2. p \in Prefixes(q)
    BY <2>1 DEF Prefixes
  <2> QED
    BY <2>2, FilesAssumption
<1> QED
  BY <1>1, FilesAssumption

-----------------------------------------------------------------------------
(* Types.                                                                  *)

LEMMA TreeTypes ==
  ASSUME FilesTypeOK
  PROVE  /\ \A p : Removed(p) \in [Paths -> Contents \cup {Absent, Dir}]
         /\ \A src, dst : Renamed(src, dst) \in [Paths -> Contents \cup {Absent, Dir}]
BY DEF FilesTypeOK, Removed, Renamed

LEMMA JustReplyType ==
  ASSUME FilesTypeOK, NEW s \in LoggedIn, NEW code \in Codes, JustReply(s, code)
  PROVE  FilesTypeOK'
BY DEF FilesTypeOK, JustReply, Reply, Remember

LEMMA AboutToType ==
  ASSUME FilesTypeOK, NEW s \in LoggedIn, NEW op \in {"rename", "remove", "size"},
         NEW src \in Paths, NEW dst \in Paths, AboutTo(s, op, src, dst)
  PROVE  FilesTypeOK'
<1>1. [op |-> op, src |-> src, dst |-> dst] \in Calls
  BY DEF Calls
<1> QED
  BY <1>1 DEF FilesTypeOK, AboutTo, commandVars

LEMMA MadeType ==
  ASSUME FilesTypeOK, NEW s \in LoggedIn, NEW code \in Codes, Made(s, code),
         tree' \in [Paths -> Contents \cup {Absent, Dir}]
  PROVE  FilesTypeOK'
BY DEF FilesTypeOK, Made, Reply, Remember

LEMMA ThrowType == FilesTypeOK /\ Throw => FilesTypeOK'
BY DEF FilesTypeOK, Throw, commandVars

LEMMA ChangeDirType ==
  ASSUME FilesTypeOK, NEW s \in LoggedIn, NEW par, NEW code \in Codes, ChangeDir(s, par, code)
  PROVE  FilesTypeOK'
<1>1. FTP2LocalPath(s, par) \in Paths
  BY DEF ChangeDir, Takes
<1> QED
  BY <1>1 DEF FilesTypeOK, ChangeDir, Reply, Remember

(* The codes are told apart. *)
LEMMA CodeTypes ==
  /\ 200 \in Codes /\ 213 \in Codes /\ 250 \in Codes /\ 257 \in Codes /\ 350 \in Codes
  /\ 450 \in Codes /\ 501 \in Codes /\ 503 \in Codes /\ 550 \in Codes
  /\ 200 \notin Refusals /\ 213 \notin Refusals /\ 250 \notin Refusals
  /\ 257 \notin Refusals /\ 350 \notin Refusals
BY DEF Codes, Refusals

LEMMA CWDType ==
  ASSUME FilesTypeOK, NEW s \in LoggedIn, NEW par, CWD(s, par) \/ CWDRefused(s, par) \/ CDUP(s)
  PROVE  FilesTypeOK'
<1>1. ASSUME NEW q, CWDRefused(s, q) PROVE FilesTypeOK'
  BY <1>1, CodeTypes, JustReplyType DEF CWDRefused, SYNTAX_ERROR_PARAMETERS, ACTION_NOT_TAKEN
<1>2. ASSUME NEW q, NEW code \in {200, 250}, ChangeDir(s, q, code) PROVE FilesTypeOK'
  BY <1>2, CodeTypes, ChangeDirType
<1>3. CASE CWD(s, par)
  BY <1>2, <1>3 DEF CWD, FILE_ACTION_COMPLETED
<1>4. CASE CDUP(s)
  <2>1. CASE workDir[s] = Home
    BY <1>4, <2>1, CodeTypes, JustReplyType DEF CDUP, ACTION_NOT_TAKEN
  <2>2. CASE workDir[s] # Home
    <3>1. ChangeDir(s, Up, 200) \/ CWDRefused(s, Up)
      BY <1>4, <2>2 DEF CDUP, COMMAND_OK
    <3> QED
      BY <1>1, <1>2, <3>1
  <2> QED
    BY <2>1, <2>2
<1> QED
  BY <1>1, <1>3, <1>4

LEMMA RNTOType ==
  ASSUME FilesTypeOK, NEW s \in LoggedIn, NEW par, RNTO(s, par) \/ RNTORefused(s, par)
  PROVE  FilesTypeOK'
<1>1. CASE RNTO(s, par)
  <2>1. /\ FTP2LocalPath(s, par) \in Paths
        /\ FTP2LocalPath(s, renameSrc[s]) \in Paths
        /\ AboutTo(s, "rename", FTP2LocalPath(s, renameSrc[s]), FTP2LocalPath(s, par))
    BY <1>1 DEF RNTO, Takes, SourceExists
  <2> QED
    BY <2>1, AboutToType
<1>2. CASE RNTORefused(s, par)
  <2>1. \E code \in {450, 501, 503, 550} : JustReply(s, code)
    BY <1>2 DEF RNTORefused, BAD_SEQUENCE, SYNTAX_ERROR_PARAMETERS, ACTION_NOT_TAKEN,
                FILE_ACTION_NOT_TAKEN
  <2> QED
    BY <2>1, CodeTypes, JustReplyType
<1> QED
  BY <1>1, <1>2

LEMMA StepFilesTyped == FilesTypeOK /\ [FilesNext]_filesVars => FilesTypeOK'
<1> SUFFICES ASSUME FilesTypeOK, [FilesNext]_filesVars PROVE FilesTypeOK'
  OBVIOUS
<1>1. ASSUME NEW s \in LoggedIn, PASS(s) PROVE FilesTypeOK'
  BY <1>1, CodeTypes, PathTypes DEF PASS, FilesTypeOK, Reply, Remember, COMMAND_OK
<1>2. ASSUME NEW s \in LoggedIn, Other(s) PROVE FilesTypeOK'
  BY <1>2, CodeTypes, JustReplyType DEF Other, COMMAND_OK
<1>3. ASSUME NEW s \in LoggedIn, CDUP(s) PROVE FilesTypeOK'
  BY <1>3, CWDType
<1>4. ASSUME NEW s \in LoggedIn, rename(s) PROVE FilesTypeOK'
  <2>1. \E code \in {250, 450} : Made(s, code)
    BY <1>4 DEF rename, FILE_ACTION_COMPLETED, FILE_ACTION_NOT_TAKEN
  <2>2. tree' \in [Paths -> Contents \cup {Absent, Dir}]
    BY <1>4, TreeTypes DEF rename, FilesTypeOK
  <2> QED
    BY <2>1, <2>2, CodeTypes, MadeType
<1>5. ASSUME NEW s \in LoggedIn, remove(s) PROVE FilesTypeOK'
  <2>1. CASE Throw
    BY <2>1, ThrowType
  <2>2. CASE ~Throw
    <3>1. /\ \E code \in {250, 450} : Made(s, code)
          /\ tree' = Removed(call[s].src) \/ tree' = tree
      BY <1>5, <2>2 DEF remove, FILE_ACTION_COMPLETED, FILE_ACTION_NOT_TAKEN
    <3>2. tree' \in [Paths -> Contents \cup {Absent, Dir}]
      BY <3>1, TreeTypes DEF FilesTypeOK
    <3> QED
      BY <3>1, <3>2, CodeTypes, MadeType
  <2> QED
    BY <2>1, <2>2
<1>6. ASSUME NEW s \in LoggedIn, fileSize(s) PROVE FilesTypeOK'
  <2>1. Throw \/ (Made(s, 213) /\ tree' = tree)
    BY <1>6 DEF fileSize, FILE_STATUS
  <2> QED
    BY <2>1, CodeTypes, MadeType, ThrowType DEF FilesTypeOK
<1>7. ASSUME NEW s \in LoggedIn, NEW par \in Params, Look(s, par) PROVE FilesTypeOK'
  <2>1. CASE CWD(s, par) \/ CWDRefused(s, par)
    BY <2>1, CWDType
  <2>2. CASE RNFR(s, par)
    <3>1. renameSrc' \in [LoggedIn -> Params \cup {Nothing}]
      BY <2>2 DEF RNFR, FilesTypeOK
    <3>2. reply' \in [LoggedIn -> Codes]
      BY <2>2, CodeTypes DEF RNFR, FilesTypeOK, Reply, NEEDS_FURTHER_INFO,
                             SYNTAX_ERROR_PARAMETERS, ACTION_NOT_TAKEN
    <3> QED
      BY <2>2, <3>1, <3>2 DEF RNFR, FilesTypeOK, Remember
  <2>3. CASE RNTO(s, par) \/ RNTORefused(s, par)
    BY <2>3, RNTOType
  <2>4. CASE DELE(s, par)
    BY <2>4, AboutToType, PathTypes DEF DELE, Takes
  <2>5. CASE DELERefused(s, par) \/ SIZERefused(s, par)
    BY <2>5, CodeTypes, JustReplyType DEF DELERefused, SIZERefused, ACTION_NOT_TAKEN
  <2>6. CASE RMD(s, par)
    <3>1. tree' \in [Paths -> Contents \cup {Absent, Dir}]
      BY <2>6, TreeTypes DEF RMD
    <3>2. reply' \in [LoggedIn -> Codes]
      BY <2>6, CodeTypes DEF RMD, FilesTypeOK, Reply, FILE_ACTION_COMPLETED, ACTION_NOT_TAKEN
    <3> QED
      BY <2>6, <3>1, <3>2 DEF RMD, FilesTypeOK, Remember
  <2>7. CASE MKD(s, par)
    <3>1. CASE Throw
      BY <3>1, ThrowType
    <3>2. CASE JustReply(s, 550)
      BY <3>2, CodeTypes, JustReplyType
    <3>3. CASE ~Throw /\ ~JustReply(s, 550)
      BY <2>7, <3>3, CodeTypes DEF MKD, FilesTypeOK, Reply, Remember, PATHNAME_CREATED,
                                   ACTION_NOT_TAKEN
    <3> QED
      BY <3>1, <3>2, <3>3
  <2>8. CASE SIZE(s, par)
    BY <2>8, AboutToType, PathTypes DEF SIZE, Takes
  <2> QED
    BY <1>7, <2>1, <2>2, <2>3, <2>4, <2>5, <2>6, <2>7, <2>8 DEF Look
<1>8. CASE UNCHANGED filesVars
  BY <1>8 DEF FilesTypeOK, filesVars, commandVars
<1> QED
  BY <1>1, <1>2, <1>3, <1>4, <1>5, <1>6, <1>7, <1>8 DEF FilesNext, Act

LEMMA InitFilesTyped == FilesInit => FilesTypeOK
<1>1. Home \in Paths /\ 0 \in Codes
  BY PathTypes DEF Codes
<1> QED
  BY <1>1 DEF FilesInit, FilesTypeOK

(* Every variable of FTPFiles keeps to its type, whatever the sessions do  *)
(* to the tree between the look of a handler and its call.  That a working *)
(* directory is one of Paths is the guard of Takes and no result.          *)
THEOREM FilesTypeCorrect == FilesSpec => []FilesTypeOK
  BY InitFilesTyped, StepFilesTyped, PTL DEF FilesSpec

-----------------------------------------------------------------------------
(* The tree of files.                                                      *)

(* Only directories have entries. *)
OnlyDirs == \A p \in Paths : HasEntries(p) => IsDir(p)

LEMMA OnlyDirsAt ==
  OnlyDirs <=> \A p, q \in Paths : IsPrefix(p, q) /\ q # p /\ tree[q] # Absent => tree[p] = Dir
BY DEF OnlyDirs, HasEntries, Below, Exists, IsDir

LEMMA OnlyDirsNext ==
  (\A p, q \in Paths : IsPrefix(p, q) /\ q # p /\ tree'[q] # Absent => tree'[p] = Dir)
    => OnlyDirs'
BY DEF OnlyDirs, HasEntries, Below, Exists, IsDir

(* Nothing is below what is absent, or a file. *)
LEMMA NothingBelow ==
  ASSUME OnlyDirs, NEW p \in Paths, tree[p] # Dir, NEW q \in Paths, IsPrefix(p, q), q # p
  PROVE  tree[q] = Absent
BY OnlyDirsAt

LEMMA RemovedKeepsTree ==
  ASSUME FilesTypeOK, OnlyDirs, NEW p \in Paths, tree' = Removed(p)
  PROVE  OnlyDirs'
<1>1. \A q \in Paths : tree'[q] = IF IsPrefix(p, q) THEN Absent ELSE tree[q]
  BY DEF Removed
<1>2. ASSUME NEW a \in Paths, NEW q \in Paths, IsPrefix(a, q), q # a, tree'[q] # Absent
      PROVE  tree'[a] = Dir
  <2>1. ~IsPrefix(p, q) /\ tree[q] # Absent
    BY <1>1, <1>2
  <2>2. ~IsPrefix(p, a)
    <3>1. p \in Seq(Names) /\ q \in Seq(Names) /\ a \in Seq(Names)
      BY PathTypes
    <3> QED
      BY <1>2, <2>1, <3>1, PrefixTransitive
  <2>3. tree[a] = Dir
    BY <1>2, <2>1, OnlyDirsAt
  <2> QED
    BY <1>1, <2>2, <2>3
<1> QED
  BY <1>2, OnlyDirsNext

(* All that a path in a directory is below is a directory. *)
LEMMA AllTheWayUp ==
  ASSUME OnlyDirs, NEW p \in Paths, ParentIsDir(p),
         NEW a \in Paths, IsPrefix(a, p), p # a
  PROVE  tree[a] = Dir
<1>1. p \in Seq(Names) /\ a \in Seq(Names) /\ p # <<>> /\ tree[Front(p)] = Dir
  BY PathTypes DEF ParentIsDir, Root, IsDir
<1>2. Front(p) \in Seq(Names) /\ IsPrefix(Front(p), p) /\ IsPrefix(a, Front(p))
  BY <1>1, FrontPrefix
<1>3. Front(p) \in Paths
  BY <1>2, PathTypes
<1>4. CASE a = Front(p)
  BY <1>1, <1>4
<1>5. CASE a # Front(p)
  <2>1. tree[Front(p)] # Absent
    BY <1>1, PathTypes
  <2> QED
    BY <1>2, <1>3, <1>5, <2>1, OnlyDirsAt
<1> QED
  BY <1>4, <1>5

LEMMA MadeKeepsTree ==
  ASSUME FilesTypeOK, OnlyDirs, NEW d \in Paths, ParentIsDir(d), ~Exists(d),
         tree' = [tree EXCEPT ![d] = Dir]
  PROVE  OnlyDirs'
<1>1. \A q \in Paths : tree'[q] = IF q = d THEN Dir ELSE tree[q]
  BY DEF FilesTypeOK
<1>2. ASSUME NEW a \in Paths, NEW q \in Paths, IsPrefix(a, q), q # a, tree'[q] # Absent
      PROVE  tree'[a] = Dir
  <2>1. CASE q = d
    BY <1>1, <1>2, <2>1, AllTheWayUp
  <2>2. CASE q # d
    BY <1>1, <1>2, <2>2, OnlyDirsAt
  <2> QED
    BY <2>1, <2>2
<1> QED
  BY <1>2, OnlyDirsNext

(* What Renamed has at a path. *)
LEMMA RenamedAt ==
  ASSUME NEW src, NEW dst, tree' = Renamed(src, dst), NEW p \in Paths
  PROVE  /\ IsPrefix(dst, p) =>
              tree'[p] = IF Rebase(p, dst, src) \in Paths THEN tree[Rebase(p, dst, src)]
                         ELSE Absent
         /\ ~IsPrefix(dst, p) => tree'[p] = IF IsPrefix(src, p) THEN Absent ELSE tree[p]
BY DEF Renamed

LEMMA RenamedKeepsTree ==
  ASSUME FilesTypeOK, OnlyDirs, NEW src \in Paths, NEW dst \in Paths, CanRename(src, dst),
         tree' = Renamed(src, dst)
  PROVE  OnlyDirs'
<1>1. ParentIsDir(dst) /\ ~IsPrefix(src, dst)
  BY DEF CanRename
<1>2. src \in Seq(Names) /\ dst \in Seq(Names) /\ Paths \subseteq Seq(Names)
  BY PathTypes
<1>3. ASSUME NEW a \in Paths, NEW q \in Paths, IsPrefix(a, q), q # a, tree'[q] # Absent
      PROVE  tree'[a] = Dir
  <2>t. a \in Seq(Names) /\ q \in Seq(Names)
    BY <1>2
  <2>1. CASE IsPrefix(dst, q)
    <3> DEFINE o == Rebase(q, dst, src)
    <3>1. o \in Paths /\ tree[o] # Absent
      BY <1>3, <2>1, RenamedAt
    <3>2. CASE IsPrefix(dst, a)
      <4> DEFINE b == Rebase(a, dst, src)
      <4>1. b \in Seq(Names) /\ IsPrefix(b, o)
        BY <1>2, <1>3, <2>t, <2>1, <3>2, RebaseBelow
      <4>2. b \in Paths
        BY <3>1, <4>1, PathTypes
      <4>3. b # o
        <5>1. Rebase(b, src, dst) = a
          BY <1>2, <2>t, <3>2, RebaseBelow
        <5>2. Rebase(o, src, dst) = q
          BY <1>2, <2>t, <2>1, RebaseBelow
        <5> QED
          BY <1>3, <5>1, <5>2
      <4>4. tree[b] = Dir
        BY <3>1, <4>1, <4>2, <4>3, OnlyDirsAt
      <4> QED
        BY <3>2, <4>2, <4>4, RenamedAt
    <3>3. CASE ~IsPrefix(dst, a)
      <4>1. IsPrefix(a, dst) /\ a # dst
        <5>1. IsPrefix(dst, a) \/ (IsPrefix(a, dst) /\ a # dst)
          BY <1>2, <1>3, <2>t, <2>1, PrefixesCompare
        <5> QED
          BY <3>3, <5>1
      <4>2. ~IsPrefix(src, a)
        BY <1>1, <1>2, <2>t, <4>1, PrefixTransitive
      <4>3. tree[a] = Dir
        BY <1>1, <4>1, AllTheWayUp
      <4> QED
        BY <3>3, <4>2, <4>3, RenamedAt
    <3> QED
      BY <3>2, <3>3
  <2>2. CASE ~IsPrefix(dst, q)
    <3>1. ~IsPrefix(src, q) /\ tree[q] # Absent
      BY <1>3, <2>2, RenamedAt
    <3>2. ~IsPrefix(dst, a)
      BY <1>2, <1>3, <2>t, <2>2, PrefixTransitive
    <3>3. ~IsPrefix(src, a)
      BY <1>2, <1>3, <2>t, <3>1, PrefixTransitive
    <3>4. tree[a] = Dir
      BY <1>3, <3>1, OnlyDirsAt
    <3> QED
      BY <3>2, <3>3, <3>4, RenamedAt
  <2> QED
    BY <2>1, <2>2
<1> QED
  BY <1>3, OnlyDirsNext

(* What a command can do to the tree. *)
LEMMA TreeSteps ==
  ASSUME FilesTypeOK, NEW s \in LoggedIn,
         \/ PASS(s) \/ Other(s) \/ CDUP(s) \/ Act(s)
         \/ \E par \in Params : Look(s, par)
  PROVE  \/ UNCHANGED tree
         \/ \E p \in Paths : tree' = Removed(p)
         \/ \E p \in Paths : /\ ParentIsDir(p) /\ ~Exists(p)
                             /\ tree' = [tree EXCEPT ![p] = Dir]
         \/ \E src, dst \in Paths : CanRename(src, dst) /\ tree' = Renamed(src, dst)
<1> DEFINE Goal == \/ UNCHANGED tree
                   \/ \E p \in Paths : tree' = Removed(p)
                   \/ \E p \in Paths : /\ ParentIsDir(p) /\ ~Exists(p)
                                       /\ tree' = [tree EXCEPT ![p] = Dir]
                   \/ \E src, dst \in Paths : CanRename(src, dst) /\ tree' = Renamed(src, dst)
<1>c. call[s] # Nothing => call[s].src \in Paths /\ call[s].dst \in Paths
  BY DEF FilesTypeOK, Calls
<1>1. CASE PASS(s) \/ Other(s) \/ CDUP(s)
  BY <1>1 DEF PASS, Other, CDUP, ChangeDir, CWDRefused, JustReply
<1>2. CASE rename(s)
  <2>1. \/ CanRename(call[s].src, call[s].dst) /\ tree' = Renamed(call[s].src, call[s].dst)
        \/ UNCHANGED tree
    BY <1>2 DEF rename
  <2> QED
    BY <1>c, <1>2, <2>1 DEF rename
<1>3. CASE remove(s)
  <2>1. tree' = Removed(call[s].src) \/ UNCHANGED tree
    BY <1>3 DEF remove, Throw
  <2> QED
    BY <1>c, <1>3, <2>1 DEF remove
<1>4. CASE fileSize(s)
  BY <1>4 DEF fileSize, Throw
<1>5. ASSUME NEW par \in Params, Look(s, par) PROVE Goal
  <2>1. CASE RMD(s, par)
    BY <2>1 DEF RMD, Takes
  <2>2. CASE MKD(s, par)
    <3>1. /\ FTP2LocalPath(s, par) \in Paths
          /\ \/ /\ ~Exists(FTP2LocalPath(s, par)) /\ ParentIsDir(FTP2LocalPath(s, par))
                /\ tree' = [tree EXCEPT ![FTP2LocalPath(s, par)] = Dir]
             \/ UNCHANGED tree
      BY <2>2 DEF MKD, Takes, JustReply, Throw
    <3> QED
      BY <3>1
  <2>3. CASE CWD(s, par) \/ CWDRefused(s, par) \/ RNFR(s, par)
    BY <2>3 DEF CWD, ChangeDir, CWDRefused, RNFR, JustReply
  <2>4. CASE RNTO(s, par) \/ RNTORefused(s, par) \/ DELE(s, par) \/ DELERefused(s, par)
    BY <2>4 DEF RNTO, RNTORefused, DELE, DELERefused, AboutTo, JustReply
  <2>5. CASE SIZE(s, par) \/ SIZERefused(s, par)
    BY <2>5 DEF SIZE, SIZERefused, AboutTo, JustReply
  <2> QED
    BY <1>5, <2>1, <2>2, <2>3, <2>4, <2>5 DEF Look
<1> QED
  BY <1>1, <1>2, <1>3, <1>4, <1>5 DEF Act

LEMMA StepTree == FilesTypeOK /\ OnlyDirs /\ [FilesNext]_filesVars => OnlyDirs'
<1> SUFFICES ASSUME FilesTypeOK, OnlyDirs, [FilesNext]_filesVars PROVE OnlyDirs'
  OBVIOUS
<1>1. CASE UNCHANGED tree
  BY <1>1 DEF OnlyDirs, HasEntries, Below, Exists, IsDir
<1>2. CASE UNCHANGED filesVars
  BY <1>1, <1>2 DEF filesVars
<1>3. ASSUME NEW s \in LoggedIn,
             \/ PASS(s) \/ Other(s) \/ CDUP(s) \/ Act(s)
             \/ \E par \in Params : Look(s, par)
      PROVE  OnlyDirs'
  <2>1. \/ UNCHANGED tree
        \/ \E p \in Paths : tree' = Removed(p)
        \/ \E p \in Paths : /\ ParentIsDir(p) /\ ~Exists(p)
                            /\ tree' = [tree EXCEPT ![p] = Dir]
        \/ \E src, dst \in Paths : CanRename(src, dst) /\ tree' = Renamed(src, dst)
    BY <1>3, TreeSteps
  <2> QED
    BY <1>1, <2>1, RemovedKeepsTree, MadeKeepsTree, RenamedKeepsTree
<1> QED
  BY <1>2, <1>3 DEF FilesNext

LEMMA TreeInvariance == FilesSpec => [](FilesTypeOK /\ OnlyDirs)
<1>1. FilesInit => OnlyDirs
  BY DEF FilesInit, OnlyDirs
<1> QED
  BY <1>1, InitFilesTyped, StepFilesTyped, StepTree, PTL DEF FilesSpec

-----------------------------------------------------------------------------
(* Refusals.                                                               *)

(* RMD of nothing removes nothing. *)
LEMMA NothingRemoved ==
  ASSUME FilesTypeOK, OnlyDirs, NEW p \in Paths, ~Exists(p)
  PROVE  Removed(p) = tree
<1>1. tree \in [Paths -> Contents \cup {Absent, Dir}] /\ tree[p] = Absent
  BY DEF FilesTypeOK, Exists
<1>2. \A q \in Paths : IsPrefix(p, q) => tree[q] = Absent
  BY <1>1, PathTypes, NothingBelow
<1>3. Removed(p) = [q \in Paths |-> tree[q]]
  BY <1>2 DEF Removed
<1> QED
  BY <1>1, <1>3

LEMMA StepRefused ==
  ASSUME FilesTypeOK, OnlyDirs, NEW s \in LoggedIn,
         \/ PASS(s) \/ Other(s) \/ CDUP(s) \/ Act(s)
         \/ \E par \in Params : Look(s, par)
  PROVE  /\ \A t \in LoggedIn : t # s => reply'[t] = reply[t]
         /\ reply'[s] # reply[s] /\ reply'[s] \in Refusals
              => UNCHANGED <<tree, workDir, renameSrc>>
<1> DEFINE Others == \A t \in LoggedIn : t # s => reply'[t] = reply[t]
           Mine == reply'[s] # reply[s] /\ reply'[s] \in Refusals
                     => UNCHANGED <<tree, workDir, renameSrc>>
<1>t. reply \in [LoggedIn -> Codes]
  BY DEF FilesTypeOK
<1>1. ASSUME NEW code, JustReply(s, code) PROVE Others /\ Mine
  BY <1>t, <1>1 DEF JustReply, Reply
<1>2. ASSUME UNCHANGED reply PROVE Others /\ Mine
  BY <1>2
<1>3. ASSUME NEW code, code \notin Refusals, Reply(s, code) PROVE Others /\ Mine
  BY <1>t, <1>3 DEF Reply
<1>4. ASSUME NEW code, Made(s, code), code \in Refusals => UNCHANGED tree
      PROVE  Others /\ Mine
  BY <1>t, <1>4 DEF Made, Reply
<1>5. CASE PASS(s) \/ Other(s)
  BY <1>1, <1>3, <1>5, CodeTypes DEF PASS, Other, COMMAND_OK
<1>6. ASSUME NEW par, NEW code \in {200, 250}, ChangeDir(s, par, code)
      PROVE  Others /\ Mine
  BY <1>3, <1>6, CodeTypes DEF ChangeDir
<1>7. ASSUME NEW par, CWDRefused(s, par) PROVE Others /\ Mine
  BY <1>1, <1>7 DEF CWDRefused
<1>8. CASE CDUP(s)
  <2>1. \/ JustReply(s, ACTION_NOT_TAKEN)
        \/ ChangeDir(s, Up, 200)
        \/ CWDRefused(s, Up)
    BY <1>8 DEF CDUP, COMMAND_OK
  <2> QED
    BY <1>1, <1>6, <1>7, <2>1
<1>9. CASE rename(s)
  <2>1. Made(s, 250) \/ (Made(s, 450) /\ UNCHANGED tree)
    BY <1>9 DEF rename, FILE_ACTION_COMPLETED, FILE_ACTION_NOT_TAKEN
  <2> QED
    BY <1>4, <2>1, CodeTypes
<1>10. CASE remove(s)
  <2>1. Made(s, 250) \/ (Made(s, 450) /\ UNCHANGED tree) \/ UNCHANGED reply
    BY <1>10 DEF remove, Throw, FILE_ACTION_COMPLETED, FILE_ACTION_NOT_TAKEN
  <2> QED
    BY <1>2, <1>4, <2>1, CodeTypes
<1>11. CASE fileSize(s)
  <2>1. Made(s, 213) \/ UNCHANGED reply
    BY <1>11 DEF fileSize, Throw, FILE_STATUS
  <2> QED
    BY <1>2, <1>4, <2>1, CodeTypes
<1>12. ASSUME NEW par \in Params, Look(s, par) PROVE Others /\ Mine
  <2>1. CASE CWD(s, par) \/ CWDRefused(s, par)
    BY <1>6, <1>7, <2>1 DEF CWD, FILE_ACTION_COMPLETED
  <2>2. CASE RNFR(s, par)
    <3>1. \/ Reply(s, 350)
          \/ \E code : Reply(s, code) /\ UNCHANGED <<tree, workDir, renameSrc>>
      BY <2>2 DEF RNFR, NEEDS_FURTHER_INFO
    <3> QED
      BY <1>t, <1>3, <3>1, CodeTypes DEF Reply
  <2>3. CASE RNTO(s, par) \/ DELE(s, par) \/ SIZE(s, par)
    BY <1>2, <2>3 DEF RNTO, DELE, SIZE, AboutTo
  <2>4. CASE RNTORefused(s, par) \/ DELERefused(s, par) \/ SIZERefused(s, par)
    BY <1>1, <2>4 DEF RNTORefused, DELERefused, SIZERefused
  <2>5. CASE RMD(s, par)
    <3>1. /\ FTP2LocalPath(s, par) \in Paths
          /\ tree' = Removed(FTP2LocalPath(s, par))
          /\ \/ Exists(FTP2LocalPath(s, par)) /\ Reply(s, 250)
             \/ ~Exists(FTP2LocalPath(s, par)) /\ Reply(s, 550)
          /\ UNCHANGED <<workDir, renameSrc>>
      BY <2>5 DEF RMD, Takes, FILE_ACTION_COMPLETED, ACTION_NOT_TAKEN
    <3>2. CASE Reply(s, 250)
      BY <1>3, <3>2, CodeTypes
    <3>3. CASE ~Exists(FTP2LocalPath(s, par)) /\ Reply(s, 550)
      <4>1. UNCHANGED tree
        BY <3>1, <3>3, NothingRemoved
      <4> QED
        BY <1>t, <3>1, <3>3, <4>1 DEF Reply
    <3> QED
      BY <3>1, <3>2, <3>3
  <2>6. CASE MKD(s, par)
    <3>1. Reply(s, 257) \/ JustReply(s, 550) \/ UNCHANGED reply
      BY <2>6 DEF MKD, Throw, PATHNAME_CREATED, ACTION_NOT_TAKEN
    <3> QED
      BY <1>1, <1>2, <1>3, <3>1, CodeTypes
  <2> QED
    BY <1>12, <2>1, <2>2, <2>3, <2>4, <2>5, <2>6 DEF Look
<1> QED
  BY <1>5, <1>8, <1>9, <1>10, <1>11, <1>12 DEF Act

(* Whatever sessions do to the tree between the looks and the calls of     *)
(* others, 450, 501, 503 and 550 mean that nothing was done; RMD of        *)
(* nothing, which removes without a look, included.                        *)
THEOREM RefusalsSafe == FilesSpec => RefusedChangesNothing
<1> DEFINE A == \A s \in LoggedIn : reply'[s] # reply[s] /\ reply'[s] \in Refusals
                  => UNCHANGED <<tree, workDir, renameSrc>>
<1>1. FilesTypeOK /\ OnlyDirs /\ [FilesNext]_filesVars => [A]_filesVars
  <2> SUFFICES ASSUME FilesTypeOK, OnlyDirs, FilesNext PROVE A
    OBVIOUS
  <2>1. PICK s \in LoggedIn : \/ PASS(s) \/ Other(s) \/ CDUP(s) \/ Act(s)
                              \/ \E par \in Params : Look(s, par)
    BY DEF FilesNext
  <2>2. /\ \A t \in LoggedIn : t # s => reply'[t] = reply[t]
        /\ reply'[s] # reply[s] /\ reply'[s] \in Refusals
             => UNCHANGED <<tree, workDir, renameSrc>>
    BY <2>1, StepRefused
  <2> QED
    BY <2>2
<1> HIDE DEF A
<1>2. FilesSpec => [][A]_filesVars
  BY <1>1, TreeInvariance, PTL DEF FilesSpec
<1> QED
  BY <1>2 DEF RefusedChangesNothing, A

-----------------------------------------------------------------------------
(* A session that is alone: nothing changes between its look and its call. *)

Alone == \A s, t \in LoggedIn : s = t

LookHolds ==
  \A s \in LoggedIn : call[s] # Nothing =>
    /\ call[s].op = "rename" => ~Exists(call[s].dst)
    /\ call[s].op = "remove" => IsFile(call[s].src)

(* Between the look and the call only the call can be made. *)
LEMMA CallIsNext ==
  ASSUME Alone, NEW s \in LoggedIn, call[s] # Nothing, [FilesNext]_filesVars
  PROVE  Act(s) \/ UNCHANGED filesVars
<1>1. ASSUME NEW t \in LoggedIn, PASS(t) \/ Other(t) \/ CDUP(t) PROVE FALSE
  <2>1. s = t
    BY DEF Alone
  <2> QED
    BY <1>1, <2>1 DEF PASS, Other, CDUP, Ready
<1>2. ASSUME NEW t \in LoggedIn, NEW par \in Params, Look(t, par) PROVE FALSE
  <2>1. s = t
    BY DEF Alone
  <2> QED
    BY <1>2, <2>1 DEF Look, CWD, ChangeDir, CWDRefused, RNFR, RNTO, RNTORefused, DELE,
                      DELERefused, RMD, MKD, SIZE, SIZERefused, Takes, Ready
<1> QED
  <2> SUFFICES ASSUME FilesNext PROVE Act(s)
    OBVIOUS
  <2>1. PICK t \in LoggedIn : Act(t)
    BY <1>1, <1>2 DEF FilesNext
  <2>2. s = t
    BY DEF Alone
  <2> QED
    BY <2>1, <2>2

(* What a look leaves to do. *)
LEMMA LookLeaves ==
  ASSUME FilesTypeOK, NEW s \in LoggedIn, call[s] = Nothing, call'[s] # Nothing,
         \/ PASS(s) \/ Other(s) \/ CDUP(s) \/ Act(s)
         \/ \E par \in Params : Look(s, par)
  PROVE  /\ UNCHANGED tree
         /\ call'[s].op = "rename" => ~Exists(call'[s].dst)
         /\ call'[s].op = "remove" => IsFile(call'[s].src)
<1>c. call \in [LoggedIn -> Calls \cup {Nothing}]
  BY DEF FilesTypeOK
<1>0. call' # call
  OBVIOUS
<1>1. ~(PASS(s) \/ Other(s) \/ CDUP(s))
  BY <1>0 DEF PASS, Other, CDUP, ChangeDir, CWDRefused, JustReply
<1>2. ~Act(s)
  BY DEF Act, rename, remove, fileSize
<1>3. PICK par \in Params : Look(s, par)
  BY <1>1, <1>2
<1>4. RNTO(s, par) \/ DELE(s, par) \/ SIZE(s, par)
  <2>1. ~(CWD(s, par) \/ CWDRefused(s, par) \/ RNFR(s, par) \/ RNTORefused(s, par))
    BY <1>0 DEF CWD, ChangeDir, CWDRefused, RNFR, RNTORefused, JustReply
  <2>2. ~(DELERefused(s, par) \/ RMD(s, par) \/ SIZERefused(s, par))
    BY <1>0 DEF DELERefused, RMD, SIZERefused, JustReply
  <2>3. ~MKD(s, par)
    BY <1>0 DEF MKD, JustReply, Throw
  <2> QED
    BY <1>3, <2>1, <2>2, <2>3 DEF Look
<1>5. ASSUME NEW op, NEW src, NEW dst, AboutTo(s, op, src, dst)
      PROVE  /\ UNCHANGED tree
             /\ call'[s].op = op /\ call'[s].src = src /\ call'[s].dst = dst
  BY <1>c, <1>5 DEF AboutTo
<1>6. CASE RNTO(s, par)
  <2>1. \E src : /\ AboutTo(s, "rename", src, FTP2LocalPath(s, par))
                 /\ ~Exists(FTP2LocalPath(s, par))
    BY <1>6 DEF RNTO
  <2> QED
    BY <1>5, <2>1
<1>7. CASE DELE(s, par)
  <2>1. AboutTo(s, "remove", FTP2LocalPath(s, par), Root) /\ IsFile(FTP2LocalPath(s, par))
    BY <1>7 DEF DELE
  <2> QED
    BY <1>5, <2>1
<1>8. CASE SIZE(s, par)
  <2>1. AboutTo(s, "size", FTP2LocalPath(s, par), Root)
    BY <1>8 DEF SIZE
  <2> QED
    BY <1>5, <2>1
<1> QED
  BY <1>4, <1>6, <1>7, <1>8

LEMMA StepLookHolds ==
  ASSUME Alone, FilesTypeOK, LookHolds, [FilesNext]_filesVars
  PROVE  LookHolds'
<1> SUFFICES ASSUME NEW s \in LoggedIn, call'[s] # Nothing
             PROVE  /\ call'[s].op = "rename" => tree'[call'[s].dst] = Absent
                    /\ call'[s].op = "remove" => tree'[call'[s].src] \in Contents
  BY DEF LookHolds, Exists, IsFile
<1>c. call \in [LoggedIn -> Calls \cup {Nothing}]
  BY DEF FilesTypeOK
<1>1. CASE UNCHANGED <<tree, call>>
  BY <1>1 DEF LookHolds, Exists, IsFile
<1>2. CASE UNCHANGED filesVars
  BY <1>1, <1>2 DEF filesVars
<1>3. CASE call[s] # Nothing /\ ~UNCHANGED filesVars
  <2>1. Act(s)
    BY <1>3, CallIsNext
  <2>2. ASSUME NEW code, Made(s, code) PROVE FALSE
    BY <1>c, <2>2 DEF Made
  <2>3. UNCHANGED <<tree, call>>
    BY <2>1, <2>2 DEF Act, rename, remove, fileSize, Throw
  <2> QED
    BY <1>1, <2>3
<1>4. CASE call[s] = Nothing /\ FilesNext
  <2>1. PICK t \in LoggedIn : \/ PASS(t) \/ Other(t) \/ CDUP(t) \/ Act(t)
                              \/ \E par \in Params : Look(t, par)
    BY <1>4 DEF FilesNext
  <2>2. s = t
    BY DEF Alone
  <2>3. /\ UNCHANGED tree
        /\ call'[s].op = "rename" => ~Exists(call'[s].dst)
        /\ call'[s].op = "remove" => IsFile(call'[s].src)
    BY <1>4, <2>1, <2>2, LookLeaves
  <2> QED
    BY <2>3 DEF Exists, IsFile
<1> QED
  BY <1>2, <1>3, <1>4

LEMMA AloneInvariance == Alone /\ FilesSpec => [](FilesTypeOK /\ OnlyDirs /\ LookHolds)
<1>1. FilesInit => LookHolds
  BY DEF FilesInit, LookHolds
<1>2. Alone => (FilesTypeOK /\ LookHolds /\ [FilesNext]_filesVars => LookHolds')
  BY StepLookHolds
<1>3. Alone => []Alone
  <2>1. Alone => Alone'
    BY DEF Alone
  <2> QED
    BY <2>1, PTL
<1> QED
  BY <1>1, <1>2, <1>3, TreeInvariance, PTL DEF FilesSpec

(* A rename to where nothing is moves files, and loses and makes none. *)
LEMMA RenamedFiles ==
  ASSUME FilesTypeOK, OnlyDirs, NEW src \in Paths, NEW dst \in Paths, CanRename(src, dst),
         ~Exists(dst), tree' = Renamed(src, dst)
  PROVE  Files' = Files
<1>1. /\ src \in Seq(Names) /\ dst \in Seq(Names) /\ Paths \subseteq Seq(Names)
      /\ tree[dst] = Absent /\ Absent \notin Contents /\ tree[dst] # Dir
  BY PathTypes DEF Exists
<1>2. ASSUME NEW p \in Paths, tree'[p] \in Contents
      PROVE  \E q \in Paths : tree[q] = tree'[p]
  <2>1. CASE IsPrefix(dst, p)
    BY <1>1, <1>2, <2>1, RenamedAt
  <2>2. CASE ~IsPrefix(dst, p)
    BY <1>1, <1>2, <2>2, RenamedAt
  <2> QED
    BY <2>1, <2>2
<1>3. ASSUME NEW q \in Paths, tree[q] \in Contents
      PROVE  \E p \in Paths : tree'[p] = tree[q]
  <2>t. q \in Seq(Names)
    BY <1>1
  <2>1. CASE IsPrefix(src, q)
    <3> DEFINE r == Rebase(q, src, dst)
    <3>1. r \in Paths
      <4>1. q \in Below(src) /\ Exists(q)
        BY <1>1, <1>3, <2>1 DEF Below, Exists
      <4> QED
        BY <4>1 DEF CanRename
    <3>2. IsPrefix(dst, r) /\ Rebase(r, dst, src) = q
      BY <1>1, <2>t, <2>1, RebaseBelow
    <3>3. tree'[r] = tree[q]
      BY <3>1, <3>2, RenamedAt
    <3> QED
      BY <3>1, <3>3
  <2>2. CASE ~IsPrefix(src, q)
    <3>1. ~IsPrefix(dst, q)
      BY <1>1, <1>3, NothingBelow
    <3> QED
      BY <2>2, <3>1, RenamedAt
  <2> QED
    BY <2>1, <2>2
<1>4. Files' = {tree'[p] : p \in Paths} \cap Contents
  BY DEF Files
<1> QED
  BY <1>2, <1>3, <1>4 DEF Files

(* With nobody else at work RNTO never overwrites a file (826), and no     *)
(* file of a directory that is renamed is lost on the way.                 *)
THEOREM RenameSafe == Alone /\ FilesSpec => RenameKeepsFiles
<1> DEFINE A == (\E s \in LoggedIn : Makes(s, "rename")) => Files' = Files
<1>1. FilesTypeOK /\ OnlyDirs /\ LookHolds /\ Alone /\ [FilesNext]_filesVars => [A]_filesVars
  <2> SUFFICES ASSUME FilesTypeOK, OnlyDirs, LookHolds, Alone, FilesNext,
                      NEW s \in LoggedIn, Makes(s, "rename")
               PROVE  Files' = Files
    OBVIOUS
  <2>1. call[s] # Nothing /\ call[s].op = "rename" /\ call'[s] # call[s]
    BY DEF Makes
  <2>2. Act(s)
    BY <2>1, CallIsNext DEF filesVars
  <2>3. rename(s)
    BY <2>1, <2>2 DEF Act, remove, fileSize
  <2>4. \/ CanRename(call[s].src, call[s].dst) /\ tree' = Renamed(call[s].src, call[s].dst)
        \/ UNCHANGED tree
    BY <2>3 DEF rename
  <2>5. /\ call[s].src \in Paths /\ call[s].dst \in Paths
        /\ ~Exists(call[s].dst)
    BY <2>1 DEF LookHolds, FilesTypeOK, Calls
  <2>6. CASE UNCHANGED tree
    BY <2>6 DEF Files
  <2> QED
    BY <2>4, <2>5, <2>6, RenamedFiles
<1>2. Alone => []Alone
  <2>1. Alone => Alone'
    BY DEF Alone
  <2> QED
    BY <2>1, PTL
<1> HIDE DEF A
<1>3. Alone /\ FilesSpec => [][A]_filesVars
  BY <1>1, <1>2, AloneInvariance, PTL DEF FilesSpec
<1> QED
  BY <1>3 DEF RenameKeepsFiles, A

(* With nobody else at work DELE deletes no directory (860).               *)
THEOREM DeleteSafe == Alone /\ FilesSpec => DeleteSparesDirectories
<1> DEFINE A == (\E s \in LoggedIn : Makes(s, "remove"))
                  => \A p \in Paths : IsDir(p) => IsDir(p)'
<1>1. FilesTypeOK /\ OnlyDirs /\ LookHolds /\ Alone /\ [FilesNext]_filesVars => [A]_filesVars
  <2> SUFFICES ASSUME FilesTypeOK, OnlyDirs, LookHolds, Alone, FilesNext,
                      NEW s \in LoggedIn, Makes(s, "remove"), NEW p \in Paths, IsDir(p)
               PROVE  tree'[p] = Dir
    BY DEF IsDir
  <2>1. call[s] # Nothing /\ call[s].op = "remove" /\ call'[s] # call[s]
    BY DEF Makes
  <2>2. Act(s)
    BY <2>1, CallIsNext DEF filesVars
  <2>3. remove(s)
    BY <2>1, <2>2 DEF Act, rename, fileSize
  <2>4. tree' = Removed(call[s].src) \/ UNCHANGED tree
    BY <2>3 DEF remove, Throw
  <2>5. call[s].src \in Paths /\ tree[call[s].src] \in Contents
    BY <2>1 DEF LookHolds, FilesTypeOK, Calls, IsFile
  <2>6. ~IsPrefix(call[s].src, p)
    <3>1. tree[call[s].src] # Dir /\ tree[p] = Dir /\ Absent # Dir
      BY <2>5, PathTypes DEF IsDir
    <3> QED
      BY <2>5, <3>1, NothingBelow
  <2> QED
    BY <2>4, <2>6 DEF Removed, IsDir
<1>2. Alone => []Alone
  <2>1. Alone => Alone'
    BY DEF Alone
  <2> QED
    BY <2>1, PTL
<1> HIDE DEF A
<1>3. Alone /\ FilesSpec => [][A]_filesVars
  BY <1>1, <1>2, AloneInvariance, PTL DEF FilesSpec
<1> QED
  BY <1>3 DEF DeleteSparesDirectories, A

=============================================================================
