------------------------ MODULE DataReceive_proofs ------------------------
(***************************************************************************)
(* Proofs about DataReceive, for any sessions, uploads and files, clients  *)
(* that do as they like, connections that break and disks that fill up:    *)
(* its types; that no socket is read twice at once; that the flag of STOR  *)
(* is held by somebody whenever it is set; and that a file gets a run of   *)
(* each upload's buffers, in order and none missing in between.            *)
(*                                                                         *)
(* The argument for the order: at any time one number tells which buffer   *)
(* of an upload is stored next.  It is the number of the one being         *)
(* written, if there is one, else of the one that waits, else of the one   *)
(* to come; what is received and not yet written follows it without a gap; *)
(* and it follows what the file holds, unless the stream has failed, in    *)
(* which case it does not matter any more.                                 *)
(***************************************************************************)
EXTENDS DataReceive, TLAPS

(* An upload whose handler has not called receiveFile has no connection... *)
NoConnYet ==
  \A u \in Uploads :
    at[u] \in {"unused", "opened", "checked", "claimed"} => conn[u] = "none"

(* ...and the writes of a strand are those of its own session's uploads.   *)
Owned ==
  \A s \in Sessions : \A i \in DOMAIN fileStrand[s] : Owner[fileStrand[s][i].of] = s

IInv == TypeOK /\ Owned /\ NoConnYet /\ OneRead /\ FlagIsHeld

(* Taking the first write off a strand and posting another at its end. *)
LEMMA StrandShift ==
  ASSUME NEW S, NEW q \in Seq(S), q # <<>>
  PROVE  /\ Head(q) \in S
         /\ Tail(q) \in Seq(S)
         /\ \A i \in DOMAIN Tail(q) : /\ i \in Nat /\ i + 1 \in DOMAIN q /\ i + 1 # 1
                                      /\ Tail(q)[i] = q[i + 1]
         /\ q[1] = Head(q) /\ 1 \in DOMAIN q
OBVIOUS

LEMMA StrandAppend ==
  ASSUME NEW S, NEW q \in Seq(S), NEW x \in S
  PROVE  /\ Append(q, x) \in Seq(S)
         /\ \A i \in DOMAIN Append(q, x) :
              \/ i \in DOMAIN q /\ Append(q, x)[i] = q[i]
              \/ i = Len(q) + 1 /\ Append(q, x)[i] = x
OBVIOUS

LEMMA FamilyAppend ==
  ASSUME NEW S, NEW D, NEW f \in [D -> Seq(S)], NEW d \in D, NEW x \in S
  PROVE  [f EXCEPT ![d] = Append(@, x)] \in [D -> Seq(S)]
OBVIOUS

(* What writeDataToFile posts is well typed. *)
LEMMA PostType ==
  ASSUME fileStrand \in [Sessions -> Seq(Writes)],
         NEW u \in Uploads, NEW i \in Nat, NEW more \in BOOLEAN,
         writeDataToFile(u, i, more)
  PROVE  fileStrand' \in [Sessions -> Seq(Writes)]
<1>1. Owner[u] \in Sessions
  BY DataReceiveAssumption
<1>2. [of |-> u, no |-> i, more |-> more] \in Writes
  BY DEF Writes
<1> QED
  BY <1>1, <1>2, FamilyAppend DEF writeDataToFile

(* The steps that handlers of commands take. *)
LEMMA CommandSteps ==
  [Next]_vars =>
    \/ UNCHANGED commandVars
    \/ \E u \in Uploads :
         \/ Claim(u) \/ Release(u)
         \/ Refuse(u) \/ OpenSTOR(u) \/ FindUploading(u) \/ FindFree(u)
         \/ ReceiveSTOR(u) \/ APPE(u)
BY DEF Next, Client, Handler, FileStrand, Accept, AcceptFailed, ReadFull,
       ReadEnd, PostLast, FetchMore, WriteFile, WriteFails, commandVars, vars

LEMMA InitIInv == Init => IInv
<1> SUFFICES ASSUME Init PROVE IInv
  OBVIOUS
<1>1. CommandTypeOK
  BY DEF Init, CommandTypeOK, Steps
<1>2. ConnTypeOK
  BY DEF Init, ConnTypeOK, Conns
<1>3. StrandTypeOK /\ FinalsTypeOK
  BY DEF Init, StrandTypeOK, FinalsTypeOK
<1>4. StoreTypeOK
  <2>1. <<Old>> \in Seq(Contents)
    BY DEF Old, Buffer, Contents
  <2> QED
    BY <2>1 DEF Init, StoreTypeOK
<1>5. Owned /\ OneRead
  BY DEF Init, Owned, OneRead
<1>6. NoConnYet /\ FlagIsHeld
  BY DEF Init, NoConnYet, FlagIsHeld
<1> QED
  BY <1>1, <1>2, <1>3, <1>4, <1>5, <1>6 DEF IInv, TypeOK

-----------------------------------------------------------------------------
(* No step breaks a type.  First, those of the commands and the flag... *)
LEMMA StepCommandTypeOK == CommandTypeOK /\ [Next]_vars => CommandTypeOK'
<1> SUFFICES ASSUME CommandTypeOK, [Next]_vars PROVE CommandTypeOK'
  OBVIOUS
<1> USE DEF CommandTypeOK
<1>s. ASSUME NEW u \in Uploads, NEW from, NEW to \in Steps, Step(u, from, to)
      PROVE  at' \in [Uploads -> Steps]
  BY <1>s DEF Step
<1>0. {"refused", "opened", "checked", "claimed", "receiving", "replied"} \subseteq Steps
  BY DEF Steps
<1>1. ASSUME NEW u \in Uploads,
             \/ Refuse(u) \/ OpenSTOR(u) \/ FindUploading(u) \/ FindFree(u)
             \/ ReceiveSTOR(u) \/ APPE(u)
      PROVE  CommandTypeOK'
  <2>1. isUploading' = isUploading
    BY <1>1 DEF Refuse, OpenSTOR, FindUploading, FindFree, ReceiveSTOR, APPE
  <2>2. \E to \in Steps : \E from : Step(u, from, to)
    BY <1>1, <1>0 DEF Refuse, OpenSTOR, FindUploading, FindFree, ReceiveSTOR, APPE
  <2>3. at' \in [Uploads -> Steps]
    BY <2>2, <1>s
  <2> QED
    BY <2>1, <2>3
<1>2. ASSUME NEW u \in Uploads, Claim(u) \/ Release(u) PROVE CommandTypeOK'
  <2>1. isUploading' \in BOOLEAN
    BY <1>2 DEF Claim, Release
  <2>2. \E to \in Steps : \E from : Step(u, from, to)
    BY <1>2, <1>0 DEF Claim, Release
  <2>3. at' \in [Uploads -> Steps]
    BY <2>2, <1>s
  <2> QED
    BY <2>1, <2>3
<1>3. CASE UNCHANGED commandVars
  BY <1>3 DEF commandVars
<1> QED
  BY <1>1, <1>2, <1>3, CommandSteps

(* ...then those of the connections... *)
LEMMA StepConnTypeOK == ConnTypeOK /\ StrandTypeOK /\ [Next]_vars => ConnTypeOK'
<1> SUFFICES ASSUME ConnTypeOK, StrandTypeOK, [Next]_vars PROVE ConnTypeOK'
  OBVIOUS
<1> USE DEF ConnTypeOK
<1>1. ASSUME NEW u \in Uploads, ReceiveSTOR(u) \/ APPE(u) PROVE ConnTypeOK'
  BY <1>1 DEF ReceiveSTOR, APPE, receiveFile, Conns
<1>2. ASSUME NEW u \in Uploads, Accept(u) \/ AcceptFailed(u) \/ PostLast(u)
      PROVE  ConnTypeOK'
  BY <1>2 DEF Accept, AcceptFailed, PostLast, SetConn, Conns
<1>3. ASSUME NEW u \in Uploads, ReadFull(u) PROVE ConnTypeOK'
  BY <1>3 DEF ReadFull, SetConn, Conns
<1>4. ASSUME NEW u \in Uploads, NEW rest \in BOOLEAN, ReadEnd(u, rest)
      PROVE  ConnTypeOK'
  <2>1. received' \in [Uploads -> Nat]
    BY <1>4 DEF ReadEnd
  <2>2. conn' \in [Uploads -> Conns]
    BY <1>4 DEF ReadEnd, SetConn, Conns
  <2> QED
    BY <2>1, <2>2
<1>5. ASSUME NEW s \in Sessions, FetchMore(s) PROVE ConnTypeOK'
  <2>1. Head(fileStrand[s]) \in Writes
    BY <1>5, StrandShift DEF FetchMore, StrandTypeOK
  <2>2. conn' \in [Uploads -> Conns]
    BY <1>5, <2>1 DEF FetchMore, Writes, Conns
  <2> QED
    BY <1>5, <2>2 DEF FetchMore
<1>6. CASE UNCHANGED <<conn, received>>
  BY <1>6
<1>7. \/ \E u \in Uploads :
           \/ ReceiveSTOR(u) \/ APPE(u) \/ Accept(u) \/ AcceptFailed(u)
           \/ PostLast(u) \/ ReadFull(u)
           \/ \E rest \in BOOLEAN : ReadEnd(u, rest)
      \/ \E s \in Sessions : FetchMore(s)
      \/ UNCHANGED <<conn, received>>
  BY DEF Next, Client, Handler, FileStrand, Refuse, OpenSTOR, FindUploading,
         FindFree, Claim, Release, WriteFile, WriteFails, vars
<1> QED
  BY <1>1, <1>2, <1>3, <1>4, <1>5, <1>6, <1>7

(* ...then the writes in the strands and the contents of the files... *)
LEMMA StepStrandTypeOK ==
  ConnTypeOK /\ StrandTypeOK /\ StoreTypeOK /\ [Next]_vars
    => StrandTypeOK' /\ StoreTypeOK'
<1> SUFFICES ASSUME ConnTypeOK, StrandTypeOK, StoreTypeOK, [Next]_vars
             PROVE  StrandTypeOK' /\ StoreTypeOK'
  OBVIOUS
<1> USE DEF StrandTypeOK, StoreTypeOK
<1>1. ASSUME NEW u \in Uploads, OpenSTOR(u) PROVE StrandTypeOK' /\ StoreTypeOK'
  <2>0. <<>> \in Seq(Contents)
    OBVIOUS
  <2>1. [store EXCEPT ![Path[u]] = <<>>] \in [Paths -> Seq(Contents)]
    BY <2>0
  <2> QED
    BY <1>1, <2>1 DEF OpenSTOR
<1>2. ASSUME NEW u \in Uploads, ReadFull(u) PROVE StrandTypeOK' /\ StoreTypeOK'
  <2>1. received'[u] \in Nat
    BY <1>2 DEF ReadFull, ConnTypeOK
  <2>2. fileStrand' \in [Sessions -> Seq(Writes)]
    BY <1>2, <2>1, PostType DEF ReadFull
  <2> QED
    BY <1>2, <2>2 DEF ReadFull
<1>3. ASSUME NEW u \in Uploads, PostLast(u) PROVE StrandTypeOK' /\ StoreTypeOK'
  <2>1. received[u] \in Nat
    BY DEF ConnTypeOK
  <2>2. fileStrand' \in [Sessions -> Seq(Writes)]
    BY <1>3, <2>1, PostType DEF PostLast
  <2> QED
    BY <1>3, <2>2 DEF PostLast
<1>4. ASSUME NEW s \in Sessions, FetchMore(s) PROVE StrandTypeOK' /\ StoreTypeOK'
  <2>1. Head(fileStrand[s]) \in Writes /\ Tail(fileStrand[s]) \in Seq(Writes)
    BY <1>4, StrandShift DEF FetchMore
  <2> QED
    BY <1>4, <2>1 DEF FetchMore
<1>5. ASSUME NEW s \in Sessions, WriteFile(s) PROVE StrandTypeOK' /\ StoreTypeOK'
  <2> DEFINE w == writing[s]
  <2>1. w \in Writes /\ w.of \in Uploads
    BY <1>5 DEF WriteFile, Writes
  <2>2. Path[w.of] \in Paths /\ Buffer(w.of, w.no) \in Contents
    BY <2>1, DataReceiveAssumption DEF Writes, Buffer, Contents
  <2>3. [store EXCEPT ![Path[w.of]] = Append(@, Buffer(w.of, w.no))]
          \in [Paths -> Seq(Contents)]
    BY <2>2, FamilyAppend
  <2>4. StoreTypeOK'
    BY <1>5, <2>3 DEF WriteFile
  <2> QED
    BY <1>5, <2>4 DEF WriteFile
<1>6. ASSUME NEW s \in Sessions, WriteFails(s) PROVE StrandTypeOK' /\ StoreTypeOK'
  <2>1. writing[s].of \in Uploads
    BY <1>6 DEF WriteFails, Writes
  <2> QED
    BY <1>6, <2>1 DEF WriteFails
<1>7. CASE UNCHANGED strandVars
  BY <1>7 DEF strandVars
<1>8. \/ \E u \in Uploads : OpenSTOR(u) \/ ReadFull(u) \/ PostLast(u)
      \/ \E s \in Sessions : FetchMore(s) \/ WriteFile(s) \/ WriteFails(s)
      \/ UNCHANGED strandVars
  BY DEF Next, Client, Handler, FileStrand, Refuse, FindUploading, FindFree,
         Claim, ReceiveSTOR, Release, APPE, Accept, AcceptFailed, ReadEnd,
         strandVars, vars
<1> QED
  BY <1>1, <1>2, <1>3, <1>4, <1>5, <1>6, <1>7, <1>8

(* ...and the final replies. *)
LEMMA StepFinalsTypeOK == FinalsTypeOK /\ [Next]_vars => FinalsTypeOK'
<1> SUFFICES ASSUME FinalsTypeOK, [Next]_vars PROVE FinalsTypeOK'
  OBVIOUS
<1> USE DEF FinalsTypeOK
<1>1. ASSUME NEW u \in Uploads, NEW code \in {226, 426, 550, 553}, SendFinal(u, code)
      PROVE  FinalsTypeOK'
  BY <1>1, FamilyAppend DEF SendFinal
<1>2. ASSUME NEW u \in Uploads, NEW rest \in BOOLEAN,
             Refuse(u) \/ FindUploading(u) \/ AcceptFailed(u) \/ ReadEnd(u, rest)
      PROVE  FinalsTypeOK'
  BY <1>1, <1>2 DEF Refuse, FindUploading, AcceptFailed, ReadEnd, ACTION_NOT_TAKEN,
                    FILENAME_NOT_ALLOWED, TRANSFER_ABORTED, CLOSING_DATA_CONNECTION
<1>3. CASE UNCHANGED finals
  BY <1>3
<1>4. \/ \E u \in Uploads, rest \in BOOLEAN :
           Refuse(u) \/ FindUploading(u) \/ AcceptFailed(u) \/ ReadEnd(u, rest)
      \/ UNCHANGED finals
  BY DEF Next, Client, Handler, FileStrand, OpenSTOR, FindFree, Claim, ReceiveSTOR,
         Release, APPE, Accept, ReadFull, PostLast, FetchMore, WriteFile,
         WriteFails, vars
<1> QED
  BY <1>2, <1>3, <1>4

LEMMA StepTypeOK == TypeOK /\ [Next]_vars => TypeOK'
BY StepCommandTypeOK, StepConnTypeOK, StepStrandTypeOK, StepFinalsTypeOK DEF TypeOK

(* The flag is set by a session that then is between setting and clearing  *)
(* it, and whoever clears it leaves nobody's flag behind.                  *)
LEMMA StepFlag == TypeOK /\ FlagIsHeld /\ [Next]_vars => FlagIsHeld'
<1> SUFFICES ASSUME TypeOK, FlagIsHeld, [Next]_vars PROVE FlagIsHeld'
  OBVIOUS
<1> USE DEF FlagIsHeld
<1>1. ASSUME NEW u \in Uploads, Claim(u) \/ Release(u) PROVE FlagIsHeld'
  BY <1>1 DEF Claim, Release, Step, TypeOK, CommandTypeOK
<1>2. ASSUME NEW u \in Uploads,
             \/ Refuse(u) \/ OpenSTOR(u) \/ FindUploading(u) \/ FindFree(u)
             \/ ReceiveSTOR(u) \/ APPE(u)
      PROVE  FlagIsHeld'
  <2>1. isUploading' = isUploading
    BY <1>2 DEF Refuse, OpenSTOR, FindUploading, FindFree, ReceiveSTOR, APPE
  <2>2. \A v \in Uploads : at[v] \in {"claimed", "receiving"}
                             => at'[v] \in {"claimed", "receiving"}
    BY <1>2 DEF Refuse, OpenSTOR, FindUploading, FindFree, ReceiveSTOR, APPE,
                Step, TypeOK, CommandTypeOK
  <2> QED
    BY <2>1, <2>2
<1>3. CASE UNCHANGED commandVars
  BY <1>3 DEF commandVars
<1> QED
  BY <1>1, <1>2, <1>3, CommandSteps

-----------------------------------------------------------------------------
(* The ways in which connections and strands move.                         *)

(* The type of a write that waits, and where its connection is. *)
LEMMA Waiting ==
  ASSUME IInv, NEW s \in Sessions, NEW i \in DOMAIN fileStrand[s]
  PROVE  /\ fileStrand[s][i] \in Writes
         /\ fileStrand[s][i].of \in Uploads
         /\ conn[fileStrand[s][i].of] \in {"idle", "closed"}
<1>1. fileStrand[s] \in Seq(Writes)
  BY DEF IInv, TypeOK, StrandTypeOK
<1>2. fileStrand[s][i] \in Writes
  BY <1>1
<1>3. fileStrand[s][i].of \in Uploads
  BY <1>2 DEF Writes
<1>4. conn[fileStrand[s][i].of] =
        IF fileStrand[s][i].more THEN "idle" ELSE "closed"
  BY DEF IInv, OneRead
<1> QED
  BY <1>2, <1>3, <1>4

(* A connection may move freely while its upload has no write waiting. *)
LEMMA ConnMoves ==
  ASSUME IInv, NEW u \in Uploads,
         conn[u] \in {"none", "accepting", "reading", "ending"},
         \A v \in Uploads : v # u => conn'[v] = conn[v],
         fileStrand' = fileStrand
  PROVE  OneRead' /\ Owned'
<1>1. \A s \in Sessions : \A i \in DOMAIN fileStrand[s] :
        fileStrand[s][i].of \in Uploads /\ fileStrand[s][i].of # u
  BY Waiting
<1>2. Owned'
  BY DEF IInv, Owned
<1>3. OneRead'
  BY <1>1 DEF IInv, OneRead
<1> QED
  BY <1>2, <1>3

(* A write is posted for a connection that was just reading or ending. *)
LEMMA Posts ==
  ASSUME IInv, NEW u \in Uploads, NEW i \in Nat, NEW more \in BOOLEAN,
         conn[u] \in {"reading", "ending"},
         conn' = [conn EXCEPT ![u] = IF more THEN "idle" ELSE "closed"],
         writeDataToFile(u, i, more)
  PROVE  OneRead' /\ Owned'
<1> DEFINE w == [of |-> u, no |-> i, more |-> more]
           o == Owner[u]
<1>1. o \in Sessions /\ w \in Writes
  BY DataReceiveAssumption DEF Writes
<1>2. \A s \in Sessions : \A k \in DOMAIN fileStrand[s] :
        fileStrand[s][k].of \in Uploads /\ fileStrand[s][k].of # u
  BY Waiting
<1>3. fileStrand'[o] = Append(fileStrand[o], w)
      /\ \A s \in Sessions : s # o => fileStrand'[s] = fileStrand[s]
  BY <1>1 DEF writeDataToFile, IInv, TypeOK, StrandTypeOK
<1>4. \A k \in DOMAIN fileStrand'[o] :
        \/ k \in DOMAIN fileStrand[o] /\ fileStrand'[o][k] = fileStrand[o][k]
        \/ k = Len(fileStrand[o]) + 1 /\ fileStrand'[o][k] = w
  BY <1>1, <1>3, StrandAppend DEF IInv, TypeOK, StrandTypeOK
<1>5. \A v \in Uploads : v # u => conn'[v] = conn[v]
  BY DEF IInv, TypeOK, CommandTypeOK, ConnTypeOK, StrandTypeOK
<1>6. conn'[u] = IF more THEN "idle" ELSE "closed"
  BY DEF IInv, TypeOK, CommandTypeOK, ConnTypeOK, StrandTypeOK
<1>7. Owned'
  <2> SUFFICES ASSUME NEW s \in Sessions, NEW k \in DOMAIN fileStrand'[s]
               PROVE  Owner[fileStrand'[s][k].of] = s
    BY DEF Owned
  <2>1. CASE s = o
    BY <1>1, <1>4, <2>1 DEF IInv, Owned
  <2>2. CASE s # o
    BY <1>3, <2>2 DEF IInv, Owned
  <2> QED
    BY <2>1, <2>2
<1>8. OneRead'
  <2> SUFFICES ASSUME NEW s \in Sessions, NEW k \in DOMAIN fileStrand'[s],
                      NEW j \in DOMAIN fileStrand'[s]
               PROVE  /\ conn'[fileStrand'[s][k].of] =
                           IF fileStrand'[s][k].more THEN "idle" ELSE "closed"
                      /\ fileStrand'[s][j].of = fileStrand'[s][k].of => k = j
    BY DEF OneRead
  <2>1. CASE s = o
    BY <1>2, <1>4, <1>5, <1>6, <2>1 DEF IInv, OneRead
  <2>2. CASE s # o
    BY <1>2, <1>3, <1>5, <2>2 DEF IInv, OneRead
  <2> QED
    BY <2>1, <2>2
<1> QED
  BY <1>7, <1>8

(* The first write of a strand is taken off it, and its upload reads on. *)
LEMMA Fetches ==
  ASSUME IInv, NEW s \in Sessions, FetchMore(s)
  PROVE  OneRead' /\ Owned' /\ NoConnYet'
<1> DEFINE q == fileStrand[s]
           w == Head(q)
<1>1. q \in Seq(Writes) /\ q # <<>>
  BY DEF IInv, TypeOK, StrandTypeOK, FetchMore
<1>2. w \in Writes /\ w.of \in Uploads
  <2>1. w \in Writes
    BY <1>1, StrandShift
  <2> QED
    BY <2>1 DEF Writes
<1>3. /\ fileStrand'[s] = Tail(q)
      /\ \A t \in Sessions : t # s => fileStrand'[t] = fileStrand[t]
  BY DEF FetchMore, IInv, TypeOK, ConnTypeOK, StrandTypeOK
<1>4. \A i \in DOMAIN Tail(q) :
        i + 1 \in DOMAIN q /\ Tail(q)[i] = q[i + 1] /\ i + 1 # 1 /\ i \in Nat
  BY <1>1, StrandShift
<1>5. 1 \in DOMAIN q /\ q[1] = w
  BY <1>1, StrandShift
<1>6. conn[w.of] = IF w.more THEN "idle" ELSE "closed"
  BY <1>5 DEF IInv, OneRead
<1>7. \A v \in Uploads : v # w.of => conn'[v] = conn[v]
  BY <1>2 DEF FetchMore, IInv, TypeOK, ConnTypeOK, StrandTypeOK
<1>8. \A i \in DOMAIN Tail(q) : Tail(q)[i].of # w.of
  BY <1>4, <1>5 DEF IInv, OneRead
<1>9. \A t \in Sessions : \A i \in DOMAIN fileStrand[t] :
        fileStrand[t][i].of \in Uploads /\ (t # s => fileStrand[t][i].of # w.of)
  <2>1. Owner[w.of] = s
    BY <1>5 DEF IInv, Owned
  <2>2. \A t \in Sessions : \A i \in DOMAIN fileStrand[t] :
          Owner[fileStrand[t][i].of] = t
    BY DEF IInv, Owned
  <2> QED
    BY <2>1, <2>2, Waiting
<1>10. Owned'
  <2> SUFFICES ASSUME NEW t \in Sessions, NEW k \in DOMAIN fileStrand'[t]
               PROVE  Owner[fileStrand'[t][k].of] = t
    BY DEF Owned
  <2>1. CASE t = s
    <3>1. k + 1 \in DOMAIN q /\ fileStrand'[t][k] = q[k + 1]
      BY <1>3, <1>4, <2>1
    <3>2. Owner[q[k + 1].of] = s
      BY <3>1 DEF IInv, Owned
    <3> QED
      BY <2>1, <3>1, <3>2
  <2>2. CASE t # s
    BY <1>3, <2>2 DEF IInv, Owned
  <2> QED
    BY <2>1, <2>2
<1>11. OneRead'
  <2> SUFFICES ASSUME NEW t \in Sessions, NEW k \in DOMAIN fileStrand'[t],
                      NEW j \in DOMAIN fileStrand'[t]
               PROVE  /\ conn'[fileStrand'[t][k].of] =
                           IF fileStrand'[t][k].more THEN "idle" ELSE "closed"
                      /\ fileStrand'[t][j].of = fileStrand'[t][k].of => k = j
    BY DEF OneRead
  <2>1. CASE t = s
    <3>1. /\ k + 1 \in DOMAIN q /\ fileStrand'[t][k] = q[k + 1]
          /\ j + 1 \in DOMAIN q /\ fileStrand'[t][j] = q[j + 1]
          /\ k \in Nat /\ j \in Nat
      BY <1>3, <1>4, <2>1
    <3>2. q[k + 1].of \in Uploads /\ q[k + 1].of # w.of
      BY <1>3, <1>4, <1>8, <1>9, <2>1
    <3>3. conn[q[k + 1].of] = IF q[k + 1].more THEN "idle" ELSE "closed"
      BY <3>1 DEF IInv, OneRead
    <3>4. q[j + 1].of = q[k + 1].of => k + 1 = j + 1
      BY <3>1 DEF IInv, OneRead
    <3> QED
      BY <1>7, <3>1, <3>2, <3>3, <3>4
  <2>2. CASE t # s
    BY <1>3, <1>7, <1>9, <2>2 DEF IInv, OneRead
  <2> QED
    BY <2>1, <2>2
<1>12. NoConnYet'
  BY <1>2, <1>6, <1>7 DEF FetchMore, commandVars, IInv, NoConnYet
<1> QED
  BY <1>10, <1>11, <1>12

(* No step lets a second read start. *)
LEMMA StepOneRead == IInv /\ [Next]_vars => OneRead' /\ Owned' /\ NoConnYet'
<1> SUFFICES ASSUME IInv, [Next]_vars PROVE OneRead' /\ Owned' /\ NoConnYet'
  OBVIOUS
<1> USE DEF commandVars, strandVars
<1>t. /\ at \in [Uploads -> Steps] /\ conn \in [Uploads -> Conns]
      /\ received \in [Uploads -> Nat] /\ NoConnYet
  BY DEF IInv, TypeOK, CommandTypeOK, ConnTypeOK, StrandTypeOK
<1>1. ASSUME NEW u \in Uploads, ReceiveSTOR(u) \/ APPE(u)
      PROVE  OneRead' /\ Owned' /\ NoConnYet'
  <2>1. conn[u] = "none" /\ fileStrand' = fileStrand
        /\ \A v \in Uploads : v # u => conn'[v] = conn[v]
    BY <1>1, <1>t DEF ReceiveSTOR, APPE, Step, receiveFile, NoConnYet
  <2>2. NoConnYet'
    BY <1>1, <1>t, <2>1 DEF ReceiveSTOR, APPE, Step, NoConnYet
  <2> QED
    BY <2>1, <2>2, ConnMoves
<1>2. ASSUME NEW u \in Uploads, Accept(u) \/ AcceptFailed(u)
      PROVE  OneRead' /\ Owned' /\ NoConnYet'
  <2>1. conn[u] = "accepting" /\ fileStrand' = fileStrand
        /\ \A v \in Uploads : v # u => conn'[v] = conn[v]
    BY <1>2, <1>t DEF Accept, AcceptFailed, SetConn
  <2>2. NoConnYet'
    BY <1>2, <1>t, <2>1 DEF Accept, AcceptFailed, NoConnYet
  <2> QED
    BY <2>1, <2>2, ConnMoves
<1>3. ASSUME NEW u \in Uploads, NEW rest \in BOOLEAN, ReadEnd(u, rest)
      PROVE  OneRead' /\ Owned' /\ NoConnYet'
  <2>1. conn[u] = "reading" /\ fileStrand' = fileStrand
        /\ \A v \in Uploads : v # u => conn'[v] = conn[v]
    BY <1>3, <1>t DEF ReadEnd, SetConn
  <2>2. NoConnYet'
    BY <1>3, <1>t, <2>1 DEF ReadEnd, NoConnYet
  <2> QED
    BY <2>1, <2>2, ConnMoves
<1>4. ASSUME NEW u \in Uploads, ReadFull(u)
      PROVE  OneRead' /\ Owned' /\ NoConnYet'
  <2>0. received'[u] \in Nat
    BY <1>4, <1>t DEF ReadFull
  <2>1. conn[u] = "reading" /\ conn' = [conn EXCEPT ![u] = "idle"]
        /\ writeDataToFile(u, received'[u], TRUE)
    BY <1>4 DEF ReadFull, SetConn
  <2>2. NoConnYet'
    BY <1>4, <1>t, <2>1 DEF ReadFull, NoConnYet
  <2> QED
    BY <2>0, <2>1, <2>2, Posts
<1>5. ASSUME NEW u \in Uploads, PostLast(u)
      PROVE  OneRead' /\ Owned' /\ NoConnYet'
  <2>1. conn[u] = "ending" /\ conn' = [conn EXCEPT ![u] = "closed"]
        /\ writeDataToFile(u, received[u], FALSE) /\ received[u] \in Nat
    BY <1>5, <1>t DEF PostLast, SetConn
  <2>2. NoConnYet'
    BY <1>5, <1>t, <2>1 DEF PostLast, NoConnYet
  <2> QED
    BY <2>1, <2>2, Posts
<1>6. ASSUME NEW s \in Sessions, FetchMore(s)
      PROVE  OneRead' /\ Owned' /\ NoConnYet'
  BY <1>6, Fetches
<1>7. ASSUME NEW u \in Uploads,
             \/ Refuse(u) \/ OpenSTOR(u) \/ FindUploading(u) \/ FindFree(u)
             \/ Claim(u) \/ Release(u)
      PROVE  OneRead' /\ Owned' /\ NoConnYet'
  <2>1. conn' = conn /\ fileStrand' = fileStrand
    BY <1>7 DEF Refuse, OpenSTOR, FindUploading, FindFree, Claim, Release
  <2>2. NoConnYet'
    BY <1>7, <1>t, <2>1 DEF Refuse, OpenSTOR, FindUploading, FindFree, Claim,
                            Release, Step, NoConnYet
  <2> QED
    BY <2>1, <2>2 DEF IInv, OneRead, Owned
<1>8. CASE UNCHANGED <<at, conn, fileStrand>>
  BY <1>8 DEF IInv, OneRead, Owned, NoConnYet
<1>9. \/ \E u \in Uploads :
           \/ ReceiveSTOR(u) \/ APPE(u) \/ Accept(u) \/ AcceptFailed(u)
           \/ \E rest \in BOOLEAN : ReadEnd(u, rest)
           \/ ReadFull(u) \/ PostLast(u)
           \/ Refuse(u) \/ OpenSTOR(u) \/ FindUploading(u) \/ FindFree(u)
           \/ Claim(u) \/ Release(u)
      \/ \E s \in Sessions : FetchMore(s)
      \/ UNCHANGED <<at, conn, fileStrand>>
  BY DEF Next, Client, Handler, FileStrand, WriteFile, WriteFails, vars
<1> QED
  BY <1>1, <1>2, <1>3, <1>4, <1>5, <1>6, <1>7, <1>8, <1>9

-----------------------------------------------------------------------------
(* The buffers of an upload.  n is the number of the buffer that is stored *)
(* next: it is being written, or waits, or has still to come.              *)

Writing(u) == writing[Owner[u]] # Null /\ writing[Owner[u]].of = u
Waits(u) == {i \in DOMAIN fileStrand[Owner[u]] : fileStrand[Owner[u]][i].of = u}

(* Those being written, waiting and kept for PostLast are the last ones    *)
(* that were received.                                                     *)
Upcoming(u, n) ==
  LET w == IF Writing(u) THEN 1 ELSE 0
      q == IF Waits(u) # {} THEN 1 ELSE 0
      e == IF conn[u] = "ending" THEN 1 ELSE 0
  IN /\ Writing(u) => writing[Owner[u]].no = n
     /\ \A i \in Waits(u) : fileStrand[Owner[u]][i].no = n + w
     /\ n + w + q + e = received[u] + 1

(* It follows the last one in the file, unless the stream has failed. *)
Continues(u, n) ==
  u \notin bad =>
    /\ \A i \in Stored(u) : (\A k \in Stored(u) : k <= i) => StoredNo(u, i) + 1 = n
    /\ Stored(u) = {} /\ Alone(u) => n = 1

OwnWrites == \A s \in Sessions : writing[s] # Null => Owner[writing[s].of] = s
Fresh == \A u \in Uploads : at[u] = "unused" => received[u] = 0
Runs == \A u \in Uploads : \E n \in Nat \ {0} : Upcoming(u, n) /\ Continues(u, n)

RInv == OwnWrites /\ Fresh /\ Runs /\ StoredInOrder

LEMMA InitRInv == Init => RInv
<1> SUFFICES ASSUME Init PROVE RInv
  OBVIOUS
<1>1. \A u \in Uploads : Owner[u] \in Sessions /\ Path[u] \in Paths
  BY DataReceiveAssumption
<1>2. \A u \in Uploads : ~Writing(u) /\ Waits(u) = {}
  BY <1>1 DEF Init, Writing, Waits
<1>3. \A u \in Uploads : Stored(u) = {}
  <2> SUFFICES ASSUME NEW u \in Uploads PROVE Stored(u) = {}
    OBVIOUS
  <2>1. store[Path[u]] = <<Old>> /\ Old.of # u
    BY <1>1, DataReceiveAssumption DEF Init, Old, Buffer
  <2> QED
    BY <2>1 DEF Stored
<1>4. \A u \in Uploads : conn[u] = "none" /\ received[u] = 0
  BY DEF Init
<1>5. Runs
  BY <1>2, <1>3, <1>4 DEF Runs, Upcoming, Continues
<1>6. StoredInOrder
  BY <1>3 DEF StoredInOrder
<1> QED
  BY <1>4, <1>5, <1>6 DEF RInv, OwnWrites, Fresh, Init

(* Who owns what is written, and what has come of an upload that is unused. *)
LEMMA StepOwnWrites == IInv /\ OwnWrites /\ Fresh /\ [Next]_vars => OwnWrites' /\ Fresh'
<1> SUFFICES ASSUME IInv, OwnWrites, Fresh, [Next]_vars PROVE OwnWrites' /\ Fresh'
  OBVIOUS
<1>t. /\ at \in [Uploads -> Steps] /\ conn \in [Uploads -> Conns]
      /\ received \in [Uploads -> Nat]
      /\ writing \in [Sessions -> Writes \cup {Null}]
  BY DEF IInv, TypeOK, CommandTypeOK, ConnTypeOK, StrandTypeOK
<1>1. OwnWrites'
  <2>1. ASSUME NEW s \in Sessions, FetchMore(s) PROVE OwnWrites'
    <3>1. Owner[Head(fileStrand[s]).of] = s
      <4>1. fileStrand[s] \in Seq(Writes) /\ fileStrand[s] # <<>>
        BY <2>1 DEF FetchMore, IInv, TypeOK, StrandTypeOK
      <4>2. 1 \in DOMAIN fileStrand[s] /\ fileStrand[s][1] = Head(fileStrand[s])
        BY <4>1, StrandShift
      <4> QED
        BY <4>2 DEF IInv, Owned
    <3>2. /\ writing'[s] = Head(fileStrand[s])
          /\ \A t \in Sessions : t # s => writing'[t] = writing[t]
      BY <2>1, <1>t DEF FetchMore
    <3> QED
      BY <3>1, <3>2 DEF OwnWrites
  <2>2. ASSUME NEW s \in Sessions, WriteFile(s) \/ WriteFails(s) PROVE OwnWrites'
    BY <2>2, <1>t DEF WriteFile, WriteFails, OwnWrites
  <2>3. CASE UNCHANGED writing
    BY <2>3 DEF OwnWrites
  <2>4. \/ UNCHANGED writing
        \/ \E s \in Sessions : FetchMore(s) \/ WriteFile(s) \/ WriteFails(s)
    BY DEF Next, Client, Handler, FileStrand, Refuse, OpenSTOR, APPE, Accept,
           AcceptFailed, ReadFull, ReadEnd, PostLast, FindUploading, FindFree,
           Claim, ReceiveSTOR, Release, vars, strandVars
  <2> QED
    BY <2>1, <2>2, <2>3, <2>4
<1>2. Fresh'
  <2>1. \A u \in Uploads : at'[u] = "unused" => at[u] = "unused"
    <3>1. CASE UNCHANGED commandVars
      BY <3>1 DEF commandVars
    <3>2. ASSUME NEW v \in Uploads, NEW from, NEW to, Step(v, from, to), to # "unused"
          PROVE  \A u \in Uploads : at'[u] = "unused" => at[u] = "unused"
      BY <3>2, <1>t DEF Step
    <3> QED
      BY <3>1, <3>2, CommandSteps
         DEF Claim, Release, Refuse, OpenSTOR, FindUploading, FindFree, ReceiveSTOR, APPE
  <2>2. \A u \in Uploads : conn[u] = "none" => received'[u] = received[u]
    <3>1. ASSUME NEW v \in Uploads, NEW rest \in BOOLEAN, ReadFull(v) \/ ReadEnd(v, rest)
          PROVE  \A u \in Uploads : conn[u] = "none" => received'[u] = received[u]
      BY <3>1, <1>t DEF ReadFull, ReadEnd, SetConn
    <3>2. \/ UNCHANGED received
          \/ \E v \in Uploads, rest \in BOOLEAN : ReadFull(v) \/ ReadEnd(v, rest)
      BY DEF Next, Client, Handler, FileStrand, Refuse, OpenSTOR, APPE, Accept,
             AcceptFailed, PostLast, FindUploading, FindFree, Claim, ReceiveSTOR,
             Release, FetchMore, WriteFile, WriteFails, vars
    <3> QED
      BY <3>1, <3>2
  <2> QED
    BY <2>1, <2>2 DEF Fresh, IInv, NoConnYet
<1> QED
  BY <1>1, <1>2

(* Posting a write leaves one of this upload waiting, as none was.         *)
LEMMA PostWaits ==
  ASSUME IInv, NEW v \in Uploads, NEW m \in Nat, NEW more \in BOOLEAN,
         conn[v] \in {"reading", "ending"}, writeDataToFile(v, m, more),
         NEW u \in Uploads
  PROVE  /\ u # v => Waits(u)' = Waits(u)
                     /\ \A i \in Waits(u) :
                          fileStrand'[Owner[u]][i] = fileStrand[Owner[u]][i]
         /\ Waits(v) = {} /\ Waits(v)' # {}
         /\ \A i \in Waits(v)' : fileStrand'[Owner[v]][i].no = m
<1> DEFINE y == [of |-> v, no |-> m, more |-> more]
<1>0. y \in Writes /\ y.of = v /\ y.no = m
  BY DEF Writes
<1>1. PICK o \in Sessions : o = Owner[v] /\ Owner[u] \in Sessions
  BY DataReceiveAssumption
<1>2. fileStrand \in [Sessions -> Seq(Writes)]
  BY <1>1 DEF IInv, TypeOK, StrandTypeOK
<1>q. PICK q \in Seq(Writes) : q = fileStrand[o]
  BY <1>2
<1>x. PICK x \in Writes : x = y /\ x.of = v /\ x.no = m
  BY <1>0
<1>3. fileStrand'[o] = Append(q, x)
      /\ \A s \in Sessions : s # o => fileStrand'[s] = fileStrand[s]
  BY <1>1, <1>2, <1>q, <1>x DEF writeDataToFile
<1>4. /\ DOMAIN fileStrand'[o] = DOMAIN q \cup {Len(q) + 1}
      /\ Len(q) + 1 \notin DOMAIN q
      /\ \A i \in DOMAIN q : fileStrand'[o][i] = q[i]
      /\ fileStrand'[o][Len(q) + 1] = x
  BY <1>q, <1>x, <1>3
<1>5. \A s \in Sessions : \A i \in DOMAIN fileStrand[s] : fileStrand[s][i].of # v
  BY Waiting
<1>6. Waits(v) = {}
  BY <1>1, <1>5 DEF Waits
<1>7. Waits(v)' = {Len(q) + 1}
  BY <1>1, <1>4, <1>5, <1>q, <1>x DEF Waits
<1>8. ASSUME u # v
      PROVE  Waits(u)' = Waits(u)
             /\ \A i \in Waits(u) : fileStrand'[Owner[u]][i] = fileStrand[Owner[u]][i]
  <2>1. CASE Owner[u] = o
    <3>1. /\ Waits(u) = {i \in DOMAIN q : q[i].of = u}
          /\ Waits(u)' = {i \in DOMAIN fileStrand'[o] : fileStrand'[o][i].of = u}
      BY <1>q, <2>1 DEF Waits
    <3>2. \A i \in DOMAIN q : fileStrand'[o][i] = q[i] /\ fileStrand[o][i] = q[i]
      BY <1>4, <1>q
    <3>3. Waits(u)' = Waits(u)
      BY <1>4, <1>8, <1>x, <3>1
    <3> QED
      BY <2>1, <3>1, <3>2, <3>3
  <2>2. CASE Owner[u] # o
    <3>1. fileStrand'[Owner[u]] = fileStrand[Owner[u]]
      BY <1>1, <1>3, <2>2
    <3> QED
      BY <3>1 DEF Waits
  <2> QED
    BY <2>1, <2>2
<1> QED
  BY <1>1, <1>4, <1>6, <1>7, <1>8, <1>x

(* Until its write is made an upload has the same buffer to store next.    *)
LEMMA UpcomingStays ==
  ASSUME IInv, OwnWrites, NEW u \in Uploads, NEW n \in Nat \ {0}, Upcoming(u, n),
         [Next]_vars, \A s \in Sessions : ~WriteFile(s) /\ ~WriteFails(s)
  PROVE  Upcoming(u, n)'
<1>t. /\ conn \in [Uploads -> Conns] /\ received \in [Uploads -> Nat]
      /\ writing \in [Sessions -> Writes \cup {Null}]
      /\ fileStrand \in [Sessions -> Seq(Writes)]
  BY DEF IInv, TypeOK, CommandTypeOK, ConnTypeOK, StrandTypeOK
<1>o. Owner[u] \in Sessions
  BY DataReceiveAssumption
<1>n. \A h \in Writes : h # Null
  BY DataReceiveAssumption DEF Writes
<1>1. CASE UNCHANGED <<fileStrand, writing, received>>
           /\ (conn'[u] = "ending" <=> conn[u] = "ending")
  BY <1>1 DEF Upcoming, Waits, Writing
<1>2. ASSUME NEW v \in Uploads, ReadFull(v) PROVE Upcoming(u, n)'
  <2>1. /\ conn[v] = "reading" /\ conn'[v] = "idle" /\ received'[v] = received[v] + 1
        /\ \A x \in Uploads : x # v => conn'[x] = conn[x] /\ received'[x] = received[x]
        /\ received[v] \in Nat
    BY <1>2, <1>t DEF ReadFull, SetConn
  <2>5. writing' = writing /\ writeDataToFile(v, received'[v], TRUE)
    BY <1>2 DEF ReadFull
  <2>6. received'[v] \in Nat
    BY <2>1
  <2>2. /\ u # v => Waits(u)' = Waits(u)
                    /\ \A i \in Waits(u) : fileStrand'[Owner[u]][i] = fileStrand[Owner[u]][i]
        /\ Waits(v) = {} /\ Waits(v)' # {}
        /\ \A i \in Waits(v)' : fileStrand'[Owner[v]][i].no = received[v] + 1
    BY <2>1, <2>5, <2>6, PostWaits
  <2>3. CASE u = v
    BY <2>1, <2>2, <2>3, <2>5 DEF Upcoming, Writing
  <2>4. CASE u # v
    BY <2>1, <2>2, <2>4, <2>5 DEF Upcoming, Writing
  <2> QED
    BY <2>3, <2>4
<1>3. ASSUME NEW v \in Uploads, PostLast(v) PROVE Upcoming(u, n)'
  <2>1. /\ conn[v] = "ending" /\ conn'[v] = "closed" /\ received' = received
        /\ \A x \in Uploads : x # v => conn'[x] = conn[x]
        /\ writing' = writing /\ writeDataToFile(v, received[v], FALSE)
        /\ received[v] \in Nat
    BY <1>3, <1>t DEF PostLast, SetConn
  <2>2. /\ u # v => Waits(u)' = Waits(u)
                    /\ \A i \in Waits(u) : fileStrand'[Owner[u]][i] = fileStrand[Owner[u]][i]
        /\ Waits(v) = {} /\ Waits(v)' # {}
        /\ \A i \in Waits(v)' : fileStrand'[Owner[v]][i].no = received[v]
    BY <2>1, PostWaits
  <2>3. CASE u = v
    BY <2>1, <2>2, <2>3 DEF Upcoming, Writing
  <2>4. CASE u # v
    BY <2>1, <2>2, <2>4 DEF Upcoming, Writing
  <2> QED
    BY <2>3, <2>4
<1>4. ASSUME NEW v \in Uploads, NEW rest \in BOOLEAN, ReadEnd(v, rest)
      PROVE  Upcoming(u, n)'
  <2>1. /\ UNCHANGED <<fileStrand, writing>> /\ conn[v] = "reading"
        /\ conn'[v] = IF rest THEN "ending" ELSE "closed"
        /\ received'[v] = IF rest THEN received[v] + 1 ELSE received[v]
        /\ \A x \in Uploads : x # v => conn'[x] = conn[x] /\ received'[x] = received[x]
        /\ received[v] \in Nat
    BY <1>4, <1>t DEF ReadEnd, SetConn, strandVars
  <2>2. Waits(u)' = Waits(u) /\ (Writing(u)' <=> Writing(u))
    BY <2>1 DEF Waits, Writing
  <2>3. CASE u = v
    BY <2>1, <2>2, <2>3 DEF Upcoming
  <2>4. CASE u # v
    BY <2>1, <2>2, <2>4 DEF Upcoming
  <2> QED
    BY <2>3, <2>4
<1>5. ASSUME NEW s \in Sessions, FetchMore(s) PROVE Upcoming(u, n)'
  <2>q. PICK q \in Seq(Writes) : q = fileStrand[s]
    BY <1>t
  <2>h. PICK h \in Writes : h = Head(q) /\ q # <<>> /\ h.of \in Uploads
    <3>1. q # <<>>
      BY <1>5, <2>q DEF FetchMore
    <3>2. Head(q) \in Writes
      BY <3>1, StrandShift
    <3>3. Head(q).of \in Uploads
      BY <3>2 DEF Writes
    <3> QED
      BY <3>1, <3>2, <3>3
  <2>1. /\ writing[s] = Null /\ writing'[s] = h /\ fileStrand'[s] = Tail(q)
        /\ \A t \in Sessions : t # s => writing'[t] = writing[t]
                                        /\ fileStrand'[t] = fileStrand[t]
        /\ received' = received
    BY <1>5, <1>t, <2>q, <2>h DEF FetchMore
  <2>2. /\ h \in Writes /\ q[1] = h /\ 1 \in DOMAIN q
        /\ \A i \in DOMAIN Tail(q) : /\ i \in Nat /\ i + 1 \in DOMAIN q /\ i + 1 # 1
                                     /\ Tail(q)[i] = q[i + 1]
    BY <2>h, StrandShift
  <2>3. h.of \in Uploads /\ Owner[h.of] = s /\ h # Null
    <3>1. Owner[h.of] = s
      BY <2>2, <2>q DEF IInv, Owned
    <3> QED
      BY <1>n, <2>h, <3>1
  <2>4. conn[h.of] \in {"idle", "closed"}
    BY <2>2, <2>q, Waiting
  <2>5. conn'[u] = "ending" <=> conn[u] = "ending"
    BY <1>5, <1>t, <2>3, <2>4, <2>q, <2>h DEF FetchMore
  <2>6. CASE Owner[u] # s
    BY <1>o, <2>1, <2>5, <2>6 DEF Upcoming, Waits, Writing
  <2>7. CASE u = h.of
    <3>1. ~Writing(u) /\ Writing(u)'
      BY <2>1, <2>3, <2>7 DEF Writing
    <3>0. 1 \in Waits(u)
      BY <2>2, <2>3, <2>7, <2>q DEF Waits
    <3>2. q[1].no = n /\ n + 1 = received[u] + 1
      BY <2>1, <2>3, <2>4, <2>7, <2>q, <3>0, <3>1 DEF Upcoming
    <3>3. Waits(u)' = {}
      <4>1. \A i \in DOMAIN q : q[i].of = h.of => i = 1
        BY <2>2, <2>q DEF IInv, OneRead
      <4>2. \A i \in DOMAIN fileStrand'[s] : fileStrand'[s][i].of # u
        BY <2>1, <2>2, <2>7, <4>1
      <4> QED
        BY <2>3, <2>7, <4>2 DEF Waits
    <3>4. writing'[Owner[u]].no = n
      BY <2>1, <2>2, <2>3, <2>7, <3>2
    <3>5. conn'[u] # "ending" /\ received'[u] = n /\ n \in Nat
      BY <1>t, <2>1, <2>4, <2>5, <2>7, <3>2
    <3> QED
      BY <3>1, <3>3, <3>4, <3>5 DEF Upcoming
  <2>8. CASE Owner[u] = s /\ u # h.of
    <3>1. ~Writing(u) /\ ~Writing(u)'
      BY <2>1, <2>8 DEF Writing
    <3>2. \A i \in Waits(u)' : i + 1 \in Waits(u) /\ fileStrand'[s][i] = q[i + 1]
      BY <2>1, <2>2, <2>8, <2>q DEF Waits
    <3>3. \A i \in Waits(u) : i - 1 \in Waits(u)'
      <4> SUFFICES ASSUME NEW i \in Waits(u) PROVE i - 1 \in Waits(u)'
        OBVIOUS
      <4>1. i \in DOMAIN q /\ q[i].of = u /\ i # 1
        BY <2>2, <2>8, <2>q DEF Waits
      <4>2. i - 1 \in DOMAIN Tail(q)
        BY <2>1, <4>1
      <4>3. i - 1 \in Nat /\ (i - 1) + 1 = i
        BY <2>1, <4>1
      <4> QED
        BY <2>1, <2>2, <2>8, <4>1, <4>2, <4>3 DEF Waits
    <3>4. Waits(u)' = {} <=> Waits(u) = {}
      BY <3>2, <3>3
    <3>5. \A i \in Waits(u)' : fileStrand'[s][i].no = n
      BY <2>8, <2>q, <3>1, <3>2 DEF Upcoming
    <3>6. n + 0 + (IF Waits(u)' # {} THEN 1 ELSE 0)
            + (IF conn'[u] = "ending" THEN 1 ELSE 0) = received'[u] + 1
      BY <2>1, <2>5, <3>1, <3>4 DEF Upcoming
    <3> QED
      BY <2>8, <3>1, <3>5, <3>6 DEF Upcoming
  <2> QED
    BY <2>6, <2>7, <2>8
<1>6. \/ /\ UNCHANGED <<fileStrand, writing, received>>
         /\ (conn'[u] = "ending" <=> conn[u] = "ending")
      \/ \E v \in Uploads : ReadFull(v) \/ PostLast(v)
      \/ \E v \in Uploads, rest \in BOOLEAN : ReadEnd(v, rest)
      \/ \E s \in Sessions : FetchMore(s)
  <2>1. ASSUME NEW v \in Uploads,
               \/ ReceiveSTOR(v) \/ APPE(v) \/ Accept(v) \/ AcceptFailed(v)
               \/ Refuse(v) \/ OpenSTOR(v) \/ FindUploading(v) \/ FindFree(v)
               \/ Claim(v) \/ Release(v)
        PROVE  UNCHANGED <<fileStrand, writing, received>>
               /\ (conn'[u] = "ending" <=> conn[u] = "ending")
    <3>1. UNCHANGED <<fileStrand, writing, received>>
      BY <2>1 DEF ReceiveSTOR, APPE, Accept, AcceptFailed, Refuse, OpenSTOR,
                  FindUploading, FindFree, Claim, Release, strandVars
    <3>2. (conn[v] # "ending" /\ conn'[v] # "ending") \/ conn' = conn
      BY <2>1, <1>t DEF ReceiveSTOR, APPE, Accept, AcceptFailed, Refuse, OpenSTOR,
           FindUploading, FindFree, Claim, Release, SetConn, receiveFile, Step,
           IInv, NoConnYet
    <3>3. \A x \in Uploads : x # v => conn'[x] = conn[x]
      BY <2>1, <1>t DEF ReceiveSTOR, APPE, Accept, AcceptFailed, Refuse, OpenSTOR,
           FindUploading, FindFree, Claim, Release, SetConn, receiveFile
    <3> QED
      BY <3>1, <3>2, <3>3
  <2> QED
    BY <2>1 DEF Next, Client, Handler, FileStrand, vars, strandVars
<1> QED
  BY <1>1, <1>2, <1>3, <1>4, <1>5, <1>6

(* When its write is made, successfully or not, it is the next one's turn. *)
LEMMA UpcomingMoves ==
  ASSUME IInv, OwnWrites, NEW s \in Sessions, WriteFile(s) \/ WriteFails(s),
         NEW u \in Uploads, NEW n \in Nat \ {0}, Upcoming(u, n)
  PROVE  /\ u = writing[s].of => /\ Owner[u] = s /\ writing[s].no = n
                                 /\ Upcoming(u, n + 1)'
         /\ u # writing[s].of => Upcoming(u, n)'
<1>t. /\ received \in [Uploads -> Nat]
      /\ writing \in [Sessions -> Writes \cup {Null}]
      /\ Owner[u] \in Sessions
  BY DataReceiveAssumption DEF IInv, TypeOK, CommandTypeOK, ConnTypeOK, StrandTypeOK
<1>1. /\ writing[s] # Null /\ writing'[s] = Null
      /\ \A t \in Sessions : t # s => writing'[t] = writing[t]
      /\ UNCHANGED <<conn, received, fileStrand>>
  BY <1>t DEF WriteFile, WriteFails
<1>2. Waits(u)' = Waits(u)
  BY <1>1 DEF Waits
<1>3. CASE u = writing[s].of
  <2>1. Owner[u] = s /\ Writing(u) /\ ~Writing(u)'
    BY <1>1, <1>3 DEF OwnWrites, Writing
  <2> QED
    BY <1>t, <1>1, <1>2, <1>3, <2>1 DEF Upcoming
<1>4. CASE u # writing[s].of
  <2>1. Writing(u)' <=> Writing(u)
    BY <1>t, <1>1, <1>4 DEF Writing
  <2>2. Writing(u) => Owner[u] # s
    BY <1>4 DEF Writing
  <2> QED
    BY <1>t, <1>1, <1>2, <1>4, <2>1, <2>2 DEF Upcoming
<1> QED
  BY <1>3, <1>4

(* A buffer goes to the end of a file, behind the ones of its upload.      *)
LEMMA StoresNext ==
  ASSUME IInv, RInv, NEW s \in Sessions, WriteFile(s)
  PROVE  Runs' /\ StoredInOrder'
<1>0. writing[s] \in Writes
  BY DEF WriteFile, IInv, TypeOK, StrandTypeOK
<1>1. PICK v \in Uploads : v = writing[s].of /\ writing[s].no \in Nat
  BY <1>0 DEF Writes
<1>2. /\ store \in [Paths -> Seq(Contents)]
      /\ \A u \in Uploads : Path[u] \in Paths
  BY DataReceiveAssumption DEF IInv, TypeOK, StoreTypeOK
<1>p. PICK p \in Paths : p = Path[v]
  BY <1>2
<1>q. PICK q \in Seq(Contents) : q = store[p]
  BY <1>2
<1>3. bad' = bad
  BY DEF WriteFile
<1>4. PICK n \in Nat \ {0} : Upcoming(v, n) /\ Continues(v, n)
  BY <1>1 DEF RInv, Runs
<1>5. writing[s].no = n /\ Upcoming(v, n + 1)' /\ n + 1 \in Nat \ {0}
  BY <1>1, <1>4, UpcomingMoves DEF RInv
<1>6. CASE v \in bad
  <2>1. store' = store
    BY <1>1, <1>6 DEF WriteFile
  <2>2. \A u \in Uploads : Stored(u)' = Stored(u)
                           /\ \A i : StoredNo(u, i)' = StoredNo(u, i)
    BY <2>1 DEF Stored, StoredNo
  <2>3. \A u \in Uploads, m \in Nat : Continues(u, m) => Continues(u, m)'
    BY <1>3, <2>2 DEF Continues, Alone
  <2>4. Continues(v, n + 1)'
    BY <1>3, <1>6 DEF Continues
  <2>5. Runs'
    <3> SUFFICES ASSUME NEW u \in Uploads
                 PROVE  \E m \in Nat \ {0} : Upcoming(u, m)' /\ Continues(u, m)'
      BY DEF Runs
    <3>1. CASE u = v
      BY <1>5, <2>4, <3>1
    <3>2. CASE u # v
      <4>1. PICK m \in Nat \ {0} : Upcoming(u, m) /\ Continues(u, m)
        BY DEF RInv, Runs
      <4>2. Upcoming(u, m)'
        BY <3>2, <4>1, <1>1, UpcomingMoves DEF RInv
      <4> QED
        BY <2>3, <4>1, <4>2
    <3> QED
      BY <3>1, <3>2
  <2>6. StoredInOrder'
    BY <2>2 DEF RInv, StoredInOrder, Alone
  <2> QED
    BY <2>5, <2>6
<1>7. CASE v \notin bad
  <2>2. PICK b \in Contents : b = Buffer(v, n) /\ b.of = v /\ b.no = n
    <3>1. Buffer(v, n) \in Contents
      BY DEF Buffer, Contents
    <3>2. Buffer(v, n).of = v /\ Buffer(v, n).no = n
      BY DEF Buffer
    <3> QED
      BY <3>1, <3>2
  <2>1. /\ store'[p] = Append(q, b)
        /\ \A r \in Paths : r # p => store'[r] = store[r]
    BY <1>1, <1>2, <1>5, <1>7, <1>p, <1>q, <2>2 DEF WriteFile
  <2>3. PICK l \in Nat : l = Len(q) /\ DOMAIN q = 1 .. l
    BY <1>q
  <2>4. /\ DOMAIN store'[p] = 1 .. (l + 1)
        /\ store'[p][l + 1] = b
        /\ \A i \in 1 .. l : store'[p][i] = q[i]
    BY <2>1, <2>2, <2>3
  <2>5. \A u \in Uploads : u # v =>
          Stored(u)' = Stored(u) /\ \A i \in Stored(u) : StoredNo(u, i)' = StoredNo(u, i)
    <3> SUFFICES ASSUME NEW u \in Uploads, u # v
                 PROVE  Stored(u)' = Stored(u)
                        /\ \A i \in Stored(u) : StoredNo(u, i)' = StoredNo(u, i)
      OBVIOUS
    <3>1. CASE Path[u] = p
      BY <1>q, <2>2, <2>3, <2>4, <3>1 DEF Stored, StoredNo
    <3>2. CASE Path[u] # p
      BY <1>2, <2>1, <3>2 DEF Stored, StoredNo
    <3> QED
      BY <3>1, <3>2
  <2>6. /\ Stored(v)' = Stored(v) \cup {l + 1}
        /\ \A i \in Stored(v) : i \in 1 .. l /\ StoredNo(v, i)' = StoredNo(v, i)
        /\ StoredNo(v, l + 1)' = n
    BY <1>p, <1>q, <2>2, <2>3, <2>4 DEF Stored, StoredNo
  <2>7. /\ \A i \in Stored(v) :
             (\A k \in Stored(v) : k <= i) => StoredNo(v, i) + 1 = n
        /\ Stored(v) = {} /\ Alone(v) => n = 1
    BY <1>4, <1>7 DEF Continues
  <2>8. Continues(v, n + 1)'
    <3>1. \A i \in Stored(v)' :
            (\A k \in Stored(v)' : k <= i) => StoredNo(v, i)' + 1 = n + 1
      <4> SUFFICES ASSUME NEW i \in Stored(v)', \A k \in Stored(v)' : k <= i
                   PROVE  StoredNo(v, i)' + 1 = n + 1
        OBVIOUS
      <4>1. i = l + 1
        BY <2>6
      <4> QED
        BY <2>6, <4>1
    <3> QED
      BY <2>6, <3>1 DEF Continues
  <2>9. Runs'
    <3> SUFFICES ASSUME NEW u \in Uploads
                 PROVE  \E m \in Nat \ {0} : Upcoming(u, m)' /\ Continues(u, m)'
      BY DEF Runs
    <3>1. CASE u = v
      BY <1>5, <2>8, <3>1
    <3>2. CASE u # v
      <4>1. PICK m \in Nat \ {0} : Upcoming(u, m) /\ Continues(u, m)
        BY DEF RInv, Runs
      <4>2. Upcoming(u, m)'
        BY <3>2, <4>1, <1>1, UpcomingMoves DEF RInv
      <4>3. Continues(u, m)'
        BY <1>3, <2>5, <3>2, <4>1 DEF Continues, Alone
      <4> QED
        BY <4>2, <4>3
    <3> QED
      BY <3>1, <3>2
  <2>10. StoredInOrder'
    <3> SUFFICES ASSUME NEW u \in Uploads
                 PROVE  /\ \A i, j \in Stored(u)' :
                             i < j /\ (\A k \in Stored(u)' : k <= i \/ j <= k)
                               => StoredNo(u, j)' = StoredNo(u, i)' + 1
                        /\ Alone(u) => \A i \in Stored(u)' :
                             (\A k \in Stored(u)' : i <= k) => StoredNo(u, i)' = 1
      BY DEF StoredInOrder, Alone
    <3>1. CASE u # v
      BY <2>5, <3>1 DEF RInv, StoredInOrder
    <3>2. CASE u = v
      <4>1. /\ \A i, j \in Stored(u) :
                 i < j /\ (\A k \in Stored(u) : k <= i \/ j <= k)
                   => StoredNo(u, j) = StoredNo(u, i) + 1
            /\ Alone(u) => \A i \in Stored(u) :
                 (\A k \in Stored(u) : i <= k) => StoredNo(u, i) = 1
        BY DEF RInv, StoredInOrder
      <4>2. ASSUME NEW i \in Stored(u)', NEW j \in Stored(u)', i < j,
                   \A k \in Stored(u)' : k <= i \/ j <= k
            PROVE  StoredNo(u, j)' = StoredNo(u, i)' + 1
        <5>1. i \in Stored(u)
          BY <2>6, <3>2, <4>2
        <5>2. CASE j = l + 1
          <6>1. \A k \in Stored(u) : k <= i
            BY <2>6, <3>2, <4>2, <5>2
          <6> QED
            BY <2>6, <2>7, <3>2, <5>1, <5>2, <6>1
        <5>3. CASE j # l + 1
          BY <2>6, <3>2, <4>1, <4>2, <5>1, <5>3
        <5> QED
          BY <5>2, <5>3
      <4>3. ASSUME Alone(u), NEW i \in Stored(u)', \A k \in Stored(u)' : i <= k
            PROVE  StoredNo(u, i)' = 1
        <5>1. CASE i = l + 1
          <6>1. Stored(u) = {}
            BY <2>6, <3>2, <4>3, <5>1
          <6> QED
            BY <2>6, <2>7, <3>2, <4>3, <5>1, <6>1
        <5>2. CASE i # l + 1
          BY <2>6, <3>2, <4>1, <4>3, <5>2
        <5> QED
          BY <5>1, <5>2
      <4> QED
        BY <4>2, <4>3
    <3> QED
      BY <3>1, <3>2
  <2> QED
    BY <2>9, <2>10
<1> QED
  BY <1>6, <1>7

(* Opening a file for a STOR empties it, before anything has come. *)
LEMMA Truncates ==
  ASSUME IInv, RInv, NEW v \in Uploads, OpenSTOR(v), [Next]_vars,
         \A s \in Sessions : ~WriteFile(s) /\ ~WriteFails(s)
  PROVE  Runs' /\ StoredInOrder'
<1>1. /\ store \in [Paths -> Seq(Contents)] /\ received \in [Uploads -> Nat]
      /\ \A u \in Uploads : Path[u] \in Paths
  BY DataReceiveAssumption DEF IInv, TypeOK, StoreTypeOK, ConnTypeOK
<1>2. /\ store'[Path[v]] = <<>>
      /\ \A r \in Paths : r # Path[v] => store'[r] = store[r]
      /\ bad' = bad /\ v \notin Appends /\ at[v] = "unused"
  BY <1>1 DEF OpenSTOR, Step
<1>3. \A u \in Uploads :
        /\ Path[u] = Path[v] => Stored(u)' = {}
        /\ Path[u] # Path[v] => Stored(u)' = Stored(u)
                                /\ \A i \in Stored(u) : StoredNo(u, i)' = StoredNo(u, i)
  BY <1>1, <1>2 DEF Stored, StoredNo
<1>4. Runs'
  <2> SUFFICES ASSUME NEW u \in Uploads
               PROVE  \E m \in Nat \ {0} : Upcoming(u, m)' /\ Continues(u, m)'
    BY DEF Runs
  <2>1. PICK m \in Nat \ {0} : Upcoming(u, m) /\ Continues(u, m)
    BY DEF RInv, Runs
  <2>2. Upcoming(u, m)'
    BY <2>1, UpcomingStays DEF RInv
  <2>3. CASE Path[u] # Path[v]
    BY <1>2, <1>3, <2>1, <2>2, <2>3 DEF Continues, Alone
  <2>4. CASE Path[u] = Path[v]
    <3>1. Alone(u) => v = u
      BY <1>2, <2>4 DEF Alone
    <3>2. v = u => m = 1
      <4>1. v = u => received[u] = 0
        BY <1>2 DEF RInv, Fresh
      <4> QED
        BY <2>1, <4>1 DEF Upcoming
    <3> QED
      BY <1>3, <2>2, <2>4, <3>1, <3>2 DEF Continues, Alone
  <2> QED
    BY <2>3, <2>4
<1>5. StoredInOrder'
  BY <1>3 DEF RInv, StoredInOrder, Alone
<1> QED
  BY <1>4, <1>5

LEMMA StepRInv == IInv /\ RInv /\ [Next]_vars => RInv'
<1> SUFFICES ASSUME IInv, RInv, [Next]_vars PROVE RInv'
  OBVIOUS
<1>1. OwnWrites' /\ Fresh'
  BY StepOwnWrites DEF RInv
<1>2. ASSUME NEW s \in Sessions, WriteFile(s) PROVE Runs' /\ StoredInOrder'
  BY <1>2, StoresNext
<1>3. ASSUME UNCHANGED store
      PROVE  \A u \in Uploads : Stored(u)' = Stored(u)
                                /\ \A i : StoredNo(u, i)' = StoredNo(u, i)
  BY <1>3 DEF Stored, StoredNo
<1>4. ASSUME NEW s \in Sessions, WriteFails(s) PROVE Runs' /\ StoredInOrder'
  <2>1. UNCHANGED store /\ bad' = bad \cup {writing[s].of}
    BY <1>4 DEF WriteFails
  <2>2. StoredInOrder'
    BY <1>3, <2>1 DEF RInv, StoredInOrder, Alone
  <2>3. Runs'
    <3> SUFFICES ASSUME NEW u \in Uploads
                 PROVE  \E m \in Nat \ {0} : Upcoming(u, m)' /\ Continues(u, m)'
      BY DEF Runs
    <3>1. PICK m \in Nat \ {0} : Upcoming(u, m) /\ Continues(u, m)
      BY DEF RInv, Runs
    <3>2. CASE u = writing[s].of
      <4>1. Upcoming(u, m + 1)' /\ m + 1 \in Nat \ {0}
        BY <1>4, <3>1, <3>2, UpcomingMoves DEF RInv
      <4>2. Continues(u, m + 1)'
        BY <2>1, <3>2 DEF Continues
      <4> QED
        BY <4>1, <4>2
    <3>3. CASE u # writing[s].of
      <4>1. Upcoming(u, m)'
        BY <1>4, <3>1, <3>3, UpcomingMoves DEF RInv
      <4>2. Continues(u, m)'
        BY <1>3, <2>1, <3>1, <3>3 DEF Continues, Alone
      <4> QED
        BY <4>1, <4>2
    <3> QED
      BY <3>2, <3>3
  <2> QED
    BY <2>2, <2>3
<1>5. ASSUME \A s \in Sessions : ~WriteFile(s) /\ ~WriteFails(s)
      PROVE  Runs' /\ StoredInOrder'
  <2>1. ASSUME NEW v \in Uploads, OpenSTOR(v) PROVE Runs' /\ StoredInOrder'
    BY <1>5, <2>1, Truncates
  <2>2. CASE UNCHANGED <<store, bad>>
    <3>1. StoredInOrder'
      BY <1>3, <2>2 DEF RInv, StoredInOrder, Alone
    <3>2. \A u \in Uploads, m \in Nat \ {0} : Continues(u, m) => Continues(u, m)'
      BY <1>3, <2>2 DEF Continues, Alone
    <3>3. \A u \in Uploads, m \in Nat \ {0} : Upcoming(u, m) => Upcoming(u, m)'
      BY <1>5, UpcomingStays DEF RInv
    <3> QED
      BY <3>1, <3>2, <3>3 DEF RInv, Runs
  <2>3. UNCHANGED <<store, bad>> \/ \E v \in Uploads : OpenSTOR(v)
    BY <1>5 DEF Next, Client, Handler, FileStrand, Refuse, APPE, Accept,
         AcceptFailed, ReadFull, ReadEnd, PostLast, FindUploading, FindFree,
         Claim, ReceiveSTOR, Release, FetchMore, vars, strandVars
  <2> QED
    BY <2>1, <2>2, <2>3
<1> QED
  BY <1>1, <1>2, <1>4, <1>5 DEF RInv

-----------------------------------------------------------------------------

(* Types, the places of connections and the flag are an inductive          *)
(* invariant together.                                                     *)
THEOREM Invariance == Spec => []IInv
<1>1. IInv /\ [Next]_vars => IInv'
  BY StepTypeOK, StepFlag, StepOneRead DEF IInv
<1> QED
  BY InitIInv, <1>1, PTL DEF Spec

(* Type correctness. *)
THEOREM TypeCorrect == Spec => []TypeOK
<1>1. IInv => TypeOK
  BY DEF IInv
<1> QED
  BY <1>1, Invariance, PTL

(* However uploads mix, no socket has two reads outstanding, and a write   *)
(* that waits is the only one of its upload: fetchMore never starts a read *)
(* beside another.                                                         *)
THEOREM ReadsSafe == Spec => []OneRead
<1>1. IInv => OneRead
  BY DEF IInv
<1> QED
  BY <1>1, Invariance, PTL

(* isUploading_ is never left behind set: whoever finds it set finds a     *)
(* STOR between setting and clearing it.                                   *)
THEOREM FlagSafe == Spec => []FlagIsHeld
<1>1. IInv => FlagIsHeld
  BY DEF IInv
<1> QED
  BY <1>1, Invariance, PTL

(* Every upload has a run of its own buffers in its file, each once and    *)
(* none missing in between, however uploads mix and even if a write fails, *)
(* and from the first one on unless another STOR truncated the file:       *)
(* fetchMore starts the next read only when the write before is in the     *)
(* strand's hands, and a stream that has failed takes nothing more.        *)
THEOREM OrderSafe == Spec => []StoredInOrder
<1>1. Init => IInv /\ RInv
  BY InitIInv, InitRInv
<1>2. IInv /\ RInv /\ [Next]_vars => RInv'
  BY StepRInv
<1>3. RInv => StoredInOrder
  BY DEF RInv
<1> QED
  BY <1>1, <1>2, <1>3, Invariance, PTL DEF Spec

=============================================================================
