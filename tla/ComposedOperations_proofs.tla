---------------------- MODULE ComposedOperations_proofs ----------------------
(***************************************************************************)
(* Whatever the lines, the limits of a transfer and what the kernel takes  *)
(* and gives: a handler gets lines, and gets them as they were written     *)
(* until something is dropped behind one; no read waits while its line is  *)
(* there; and an upload arrives in full buffers and in order.              *)
(*                                                                         *)
(* The argument for lines is in two parts. While no line is begun before   *)
(* the last was handed over (Clear), what has been read of a line and what *)
(* is on its way are, one behind the other, a beginning of that line; a    *)
(* delimiter that is found in a beginning of a line is its end; so nothing *)
(* is dropped. While nothing was dropped (Intact), what was handed over,   *)
(* read and is on its way is a beginning of all that was written, as for   *)
(* uploads; and as a line ends at its first delimiter, the next line       *)
(* handed over is the next that was written.                               *)
(*                                                                         *)
(* The argument for uploads and listings: the buffers handed over, the one *)
(* that is being filled and what is on its way, one behind the other, are  *)
(* what the writes have given to the kernel (a beginning of it once the    *)
(* connection has broken), which is a beginning of all that is to be       *)
(* written. What FlattenSeq makes of a number of pieces is proved of every *)
(* number by Induction, on sets of numbers.                                *)
(***************************************************************************)
EXTENDS ComposedOperations, SequenceTheorems, WellFoundedInduction, TLAPS

Current == messages[Len(handed) + 1]

(* What was read and what is on its way is a beginning of c. *)
Ahead(c) ==
  /\ Len(buffer) + Len(wire) <= Len(c)
  /\ \A i \in 1 .. Len(buffer) : buffer[i] = c[i]
  /\ \A i \in 1 .. Len(wire) : wire[i] = c[Len(buffer) + i]

Begun ==
  /\ writer # "idle" => written < Len(messages)
  /\ mode # "line" => search_position = 0

TInv == ConnectionTypeOK /\ Begun

Searched ==
  mode = "line" => \A i \in 0 .. (search_position - 1) : ~Begins(buffer, i)

InOrder ==
  /\ Len(handed) <= Len(messages)
  /\ \A i \in 1 .. Len(handed) : handed[i] = messages[i]

Between == written = Len(handed) /\ writer = "idle" /\ buffer = <<>> /\ wire = <<>>

OnItsWay ==
  /\ written = Len(handed) /\ writer # "idle"
  /\ Ahead(Current)
  /\ total_consumed < Len(Current)
  /\ Len(buffer) + Len(wire) <= total_consumed
  /\ connection = "open" => Len(buffer) + Len(wire) = total_consumed

Written ==
  /\ written = Len(handed) + 1 /\ writer = "idle"
  /\ Ahead(Current)

InTurn == InOrder /\ (Between \/ OnItsWay \/ Written)

Clear == mode = "line" /\ ~crowded

LInv == Clear => InTurn /\ dropped = 0

-----------------------------------------------------------------------------
(* Pieces of sequences.                                                    *)

LEMMA Beginning ==
  ASSUME NEW p \in Seq(Bytes), NEW n \in 0 .. Len(p)
  PROVE  /\ SubSeq(p, 1, n) \in Seq(Bytes)
         /\ Len(SubSeq(p, 1, n)) = n
         /\ \A i \in 1 .. n : SubSeq(p, 1, n)[i] = p[i]
<1>1. \A i \in 1 .. n : p[i] \in Bytes BY LenProperties
<1>2. 1 \in Int /\ n \in Int OBVIOUS
<1> QED BY <1>1, <1>2, SubSeqProperties

LEMMA Rest ==
  ASSUME NEW p \in Seq(Bytes), NEW n \in 0 .. Len(p)
  PROVE  /\ SubSeq(p, n + 1, Len(p)) \in Seq(Bytes)
         /\ Len(SubSeq(p, n + 1, Len(p))) = Len(p) - n
         /\ \A i \in 1 .. (Len(p) - n) : SubSeq(p, n + 1, Len(p))[i] = p[n + i]
<1>1. \A i \in (n + 1) .. Len(p) : p[i] \in Bytes BY LenProperties
<1>2. n + 1 \in Int /\ Len(p) \in Int BY LenProperties
<1> QED BY <1>1, <1>2, SubSeqProperties

LEMMA Middle ==
  ASSUME NEW p \in Seq(Bytes), NEW m \in Nat, NEW n \in Nat, m + n <= Len(p)
  PROVE  /\ SubSeq(p, m + 1, m + n) \in Seq(Bytes)
         /\ Len(SubSeq(p, m + 1, m + n)) = n
         /\ \A i \in 1 .. n : SubSeq(p, m + 1, m + n)[i] = p[m + i]
<1>1. \A i \in (m + 1) .. (m + n) : p[i] \in Bytes BY LenProperties
<1>2. m + 1 \in Int /\ m + n \in Int OBVIOUS
<1> QED BY <1>1, <1>2, SubSeqProperties

(* What a read_some of n bytes makes of a buffer b. *)
LEMMA Joined ==
  ASSUME NEW b \in Seq(Bytes), NEW w \in Seq(Bytes), NEW n \in 0 .. Len(w)
  PROVE  /\ b \o SubSeq(w, 1, n) \in Seq(Bytes)
         /\ Len(b \o SubSeq(w, 1, n)) = Len(b) + n
         /\ \A i \in 1 .. Len(b) : (b \o SubSeq(w, 1, n))[i] = b[i]
         /\ \A i \in 1 .. n : (b \o SubSeq(w, 1, n))[Len(b) + i] = w[i]
<1> DEFINE v == SubSeq(w, 1, n)
<1>1. v \in Seq(Bytes) /\ Len(v) = n /\ \A i \in 1 .. n : v[i] = w[i] BY Beginning
<1> HIDE DEF v
<1>2. /\ b \o v \in Seq(Bytes) /\ Len(b \o v) = Len(b) + n
      /\ \A i \in 1 .. (Len(b) + n) :
           (b \o v)[i] = IF i <= Len(b) THEN b[i] ELSE v[i - Len(b)]
  BY <1>1, ConcatProperties
<1>3. ASSUME NEW i \in 1 .. Len(b) PROVE (b \o v)[i] = b[i] BY <1>1, <1>2, LenProperties
<1>4. ASSUME NEW i \in 1 .. n PROVE (b \o v)[Len(b) + i] = w[i]
  <2>1. Len(b) \in Nat /\ Len(b) + i \in 1 .. (Len(b) + n) BY LenProperties
  <2>2. (b \o v)[Len(b) + i] = v[(Len(b) + i) - Len(b)] BY <1>2, <2>1
  <2> QED BY <1>1, <2>1, <2>2
<1> QED BY <1>2, <1>3, <1>4 DEF v

(* What a write_some of the n bytes behind the first m of p makes of w. *)
LEMMA Sent ==
  ASSUME NEW w \in Seq(Bytes), NEW p \in Seq(Bytes), NEW m \in Nat, NEW n \in Nat,
         m + n <= Len(p)
  PROVE  /\ w \o SubSeq(p, m + 1, m + n) \in Seq(Bytes)
         /\ Len(w \o SubSeq(p, m + 1, m + n)) = Len(w) + n
         /\ \A i \in 1 .. Len(w) : (w \o SubSeq(p, m + 1, m + n))[i] = w[i]
         /\ \A i \in 1 .. n : (w \o SubSeq(p, m + 1, m + n))[Len(w) + i] = p[m + i]
<1> DEFINE v == SubSeq(p, m + 1, m + n)
<1>1. v \in Seq(Bytes) /\ Len(v) = n /\ \A i \in 1 .. n : v[i] = p[m + i] BY Middle
<1> HIDE DEF v
<1>2. /\ w \o v \in Seq(Bytes) /\ Len(w \o v) = Len(w) + n
      /\ \A i \in 1 .. (Len(w) + n) :
           (w \o v)[i] = IF i <= Len(w) THEN w[i] ELSE v[i - Len(w)]
  BY <1>1, ConcatProperties
<1>3. ASSUME NEW i \in 1 .. Len(w) PROVE (w \o v)[i] = w[i] BY <1>1, <1>2, LenProperties
<1>4. ASSUME NEW i \in 1 .. n PROVE (w \o v)[Len(w) + i] = p[m + i]
  <2>1. Len(w) \in Nat /\ Len(w) + i \in 1 .. (Len(w) + n) BY LenProperties
  <2>3. ~(Len(w) + i <= Len(w)) BY <2>1
  <2>2. (w \o v)[Len(w) + i] = v[(Len(w) + i) - Len(w)] BY <1>2, <2>1, <2>3
  <2> QED BY <1>1, <2>1, <2>2
<1> QED BY <1>2, <1>3, <1>4 DEF v

LEMMA Handed ==
  ASSUME NEW h \in Seq(Seq(Bytes)), NEW l \in Seq(Bytes)
  PROVE  /\ Append(h, l) \in Seq(Seq(Bytes))
         /\ Len(Append(h, l)) = Len(h) + 1
         /\ \A i \in 1 .. Len(h) : Append(h, l)[i] = h[i]
         /\ Append(h, l)[Len(h) + 1] = l
<1> DEFINE S == Seq(Bytes)
<1>1. h \in Seq(S) /\ l \in S OBVIOUS
<1> HIDE DEF S
<1>2. /\ Append(h, l) \in Seq(S)
      /\ Len(Append(h, l)) = Len(h) + 1
      /\ \A i \in 1 .. Len(h) : Append(h, l)[i] = h[i]
      /\ Append(h, l)[Len(h) + 1] = l
  BY <1>1, AppendProperties
<1> QED BY <1>2 DEF S

LEMMA Before ==
  ASSUME NEW p \in Seq(Bytes), NEW r \in Seq(Bytes), NEW i \in 1 .. Len(p)
  PROVE  (p \o r)[i] = p[i]
<1>1. Len(p) \in Nat /\ Len(r) \in Nat BY LenProperties
<1>2. i \in 1 .. (Len(p) + Len(r)) /\ i <= Len(p) BY <1>1
<1> QED BY <1>2, ConcatProperties

LEMMA Behind ==
  ASSUME NEW p \in Seq(Bytes), NEW r \in Seq(Bytes), NEW i \in 1 .. Len(r)
  PROVE  (p \o r)[Len(p) + i] = r[i]
<1>1. Len(p) \in Nat /\ Len(r) \in Nat BY LenProperties
<1>2. /\ Len(p) + i \in 1 .. (Len(p) + Len(r)) /\ ~(Len(p) + i <= Len(p))
      /\ (Len(p) + i) - Len(p) = i
  BY <1>1
<1>3. (p \o r)[Len(p) + i] = r[(Len(p) + i) - Len(p)] BY <1>2, ConcatProperties
<1> QED BY <1>2, <1>3

LEMMA Same ==
  ASSUME NEW p \in Seq(Bytes), NEW q \in Seq(Bytes), Len(p) = Len(q),
         \A i \in 1 .. Len(p) : p[i] = q[i]
  PROVE  p = q
BY SeqEqual

-----------------------------------------------------------------------------
(* Types.                                                                  *)

LEMMA Messages ==
  ASSUME ConnectionTypeOK
  PROVE  /\ messages \in Seq(Seq(Bytes))
         /\ mode = "line" => \A i \in 1 .. Len(messages) : IsLine(messages[i])
<1> DEFINE L == {b \in Seq(Bytes) : IsLine(b)}
           B == Seq(Bytes) \ {<<>>}
<1>1. CASE mode = "line"
  <2>1. messages \in Seq(L) BY <1>1, ComposedAssumption DEF ConnectionTypeOK
  <2>2. \A i \in 1 .. Len(messages) : messages[i] \in L BY <2>1, LenProperties
  <2>3. messages \in Seq(Seq(Bytes))
    <3>1. L \subseteq Seq(Bytes) OBVIOUS
    <3> QED BY <2>1, <3>1, SeqMonotonic
  <2> QED BY <2>2, <2>3
<1>2. CASE mode # "line"
  <2>1. messages \in Seq(B) BY <1>2, ComposedAssumption DEF ConnectionTypeOK
  <2>2. B \subseteq Seq(Bytes) OBVIOUS
  <2> QED BY <1>2, <2>1, <2>2, SeqMonotonic
<1> QED BY <1>1, <1>2

LEMMA InitTInv == Init => TInv
<1> SUFFICES ASSUME Init PROVE TInv OBVIOUS
<1>1. ConnectionTypeOK
  <2>1. written \in 0 .. Len(messages)
    <3>1. messages \in Lines \/ messages \in Blocks BY DEF Init
    <3>2. Len(messages) \in Nat BY <3>1, ComposedAssumption, LenProperties
    <3> QED BY <3>2 DEF Init
  <2>2. search_position \in 0 .. Len(buffer) BY DEF Init
  <2> QED BY <2>1, <2>2 DEF Init, ConnectionTypeOK
<1> QED BY <1>1 DEF Init, TInv, Begun

LEMMA NextTInv == ASSUME TInv, [Next]_vars PROVE TInv'
<1> USE DEF TInv
<1>1. /\ messages \in Seq(Seq(Bytes)) /\ Len(messages) \in Nat
      /\ buffer \in Seq(Bytes) /\ wire \in Seq(Bytes) /\ handed \in Seq(Seq(Bytes))
      /\ Len(buffer) \in Nat /\ Len(wire) \in Nat
  BY Messages, LenProperties DEF ConnectionTypeOK
<1>2. CASE write
  BY <1>2 DEF write, ConnectionTypeOK, Begun, readerVars
<1>3. ASSUME NEW n \in 1 .. MaxTransfer, write_some(n) PROVE TInv'
  <2>0. n \in Nat /\ written < Len(messages) /\ written + 1 \in 1 .. Len(messages)
    BY <1>1, <1>3, ComposedAssumption DEF write_some, ConnectionTypeOK, Begun
  <2>1. Data \in Seq(Bytes) BY <1>1, <2>0, ElementOfSeq DEF Data
  <2>2. total_consumed + n <= Len(Data) /\ total_consumed \in Nat
    <3>1. Len(Data) \in Nat BY <2>1, LenProperties
    <3> QED BY <1>3, <2>0, <3>1 DEF write_some, ConnectionTypeOK
  <2>3. wire' \in Seq(Bytes) BY <1>1, <1>3, <2>0, <2>1, <2>2, Sent DEF write_some
  <2>4. written' \in 0 .. Len(messages)' /\ writer' \in {"idle", "writing", "failed"}
    BY <1>1, <1>3, <2>0 DEF write_some, ConnectionTypeOK
  <2>5. total_consumed' \in Nat BY <1>3, <2>0, <2>2 DEF write_some
  <2>6. Begun'
    <3>1. UNCHANGED <<mode, messages, search_position>> BY <1>3 DEF write_some, readerVars
    <3>2. writer' = "idle" \/ (writer' = writer /\ written' = written)
      BY <1>3 DEF write_some
    <3> QED BY <3>1, <3>2 DEF Begun
  <2> QED BY <1>3, <2>3, <2>4, <2>5, <2>6 DEF write_some, ConnectionTypeOK, readerVars
<1>4. CASE write_fails
  BY <1>4 DEF write_fails, ConnectionTypeOK, Begun, readerVars
<1>5. ASSUME NEW n \in 1 .. MaxTransfer, n <= Len(wire)
      PROVE  /\ Take(n) \in Seq(Bytes) /\ Len(Take(n)) \in Nat
             /\ Len(Take(n)) = Len(buffer) + n
             /\ SubSeq(wire, n + 1, Len(wire)) \in Seq(Bytes)
  <2>1. n \in 0 .. Len(wire) BY <1>1, <1>5, ComposedAssumption
  <2>2. Take(n) \in Seq(Bytes) /\ Len(Take(n)) = Len(buffer) + n
    BY <1>1, <2>1, Joined DEF Take
  <2>3. SubSeq(wire, n + 1, Len(wire)) \in Seq(Bytes) BY <1>1, <2>1, Rest
  <2> QED BY <2>2, <2>3, LenProperties
<1>6. ASSUME NEW n \in 1 .. MaxTransfer, read_until(n) PROVE TInv'
  <2>1. /\ n <= Len(wire) /\ wire' = SubSeq(wire, n + 1, Len(wire))
        /\ mode = "line"
        /\ UNCHANGED <<mode, writerVars, connection, reader>>
    BY <1>6 DEF read_until
  <2>2. PICK first \in search_position .. Len(Take(n)) :
          IF Full(Take(n), first)
          THEN /\ handed' = Append(handed, SubSeq(Take(n), 1, first + Len(Delim)))
               /\ buffer' = <<>> /\ search_position' = 0
          ELSE /\ buffer' = Take(n) /\ search_position' = first
               /\ UNCHANGED handed
    BY <1>6 DEF read_until
  <2>3. Take(n) \in Seq(Bytes) /\ Len(Take(n)) \in Nat /\ wire' \in Seq(Bytes)
    BY <1>5, <2>1
  <2>4. /\ buffer' \in Seq(Bytes) /\ search_position' \in 0 .. Len(buffer')
        /\ handed' \in Seq(Seq(Bytes))
    <3>1. CASE Full(Take(n), first)
      <4>1. Len(Delim) \in Nat BY ComposedAssumption, LenProperties
      <4>2. first + Len(Delim) \in 0 .. Len(Take(n))
        BY <2>3, <3>1, <4>1 DEF Full, ConnectionTypeOK
      <4>3. SubSeq(Take(n), 1, first + Len(Delim)) \in Seq(Bytes) BY <2>3, <4>2, Beginning
      <4>4. handed' \in Seq(Seq(Bytes))
        <5>1. \A l \in Seq(Bytes) : Append(handed, l) \in Seq(Seq(Bytes)) BY <1>1, Handed
        <5>2. handed' = Append(handed, SubSeq(Take(n), 1, first + Len(Delim))) BY <2>2, <3>1
        <5> QED BY <4>3, <5>1, <5>2
      <4> QED BY <2>2, <3>1, <4>4, EmptySeq
    <3>2. CASE ~Full(Take(n), first)
      <4>1. buffer' = Take(n) /\ search_position' = first /\ handed' = handed
        BY <2>2, <3>2
      <4>2. first \in 0 .. Len(Take(n)) BY <2>3 DEF ConnectionTypeOK
      <4> QED BY <1>1, <2>3, <4>1, <4>2
    <3> QED BY <3>1, <3>2
  <2> QED BY <2>1, <2>3, <2>4 DEF ConnectionTypeOK, Begun, writerVars
<1>7. ASSUME NEW n \in 1 .. MaxTransfer, read(n) PROVE TInv'
  <2>1. /\ n <= Len(wire) /\ wire' = SubSeq(wire, n + 1, Len(wire))
        /\ mode = "upload"
        /\ UNCHANGED <<mode, writerVars, connection, reader, search_position>>
    BY <1>7 DEF read
  <2>2. Take(n) \in Seq(Bytes) /\ wire' \in Seq(Bytes) BY <1>5, <2>1
  <2>3. \/ handed' = Append(handed, Take(n)) /\ buffer' = <<>>
        \/ buffer' = Take(n) /\ handed' = handed
    BY <1>7 DEF read
  <2>4. buffer' \in Seq(Bytes) /\ handed' \in Seq(Seq(Bytes))
    <3>1. Append(handed, Take(n)) \in Seq(Seq(Bytes)) BY <1>1, <2>2, Handed
    <3>2. handed' \in Seq(Seq(Bytes)) BY <1>1, <2>3, <3>1
    <3>3. buffer' \in Seq(Bytes)
      <4>1. <<>> \in Seq(Bytes) OBVIOUS
      <4> QED BY <2>2, <2>3, <4>1
    <3> QED BY <3>2, <3>3
  <2>5. search_position' \in 0 .. Len(buffer')
    <3>1. search_position' = 0 BY <2>1 DEF Begun
    <3>2. Len(buffer') \in Nat BY <2>4, LenProperties
    <3> QED BY <3>1, <3>2
  <2> QED BY <2>1, <2>2, <2>4, <2>5 DEF ConnectionTypeOK, Begun, writerVars
<1>8. ASSUME NEW n \in 1 .. MaxTransfer, read_dynamic(n) PROVE TInv'
  <2>1. /\ n <= Len(wire) /\ wire' = SubSeq(wire, n + 1, Len(wire)) /\ buffer' = Take(n)
        /\ mode = "listing"
        /\ UNCHANGED <<mode, writerVars, connection, reader, search_position, handed>>
    BY <1>8 DEF read_dynamic
  <2>2. buffer' \in Seq(Bytes) /\ wire' \in Seq(Bytes) BY <1>5, <2>1
  <2>3. search_position' \in 0 .. Len(buffer')
    <3>1. search_position' = 0 BY <2>1 DEF Begun
    <3>2. Len(buffer') \in Nat BY <2>2, LenProperties
    <3> QED BY <3>1, <3>2
  <2> QED BY <2>1, <2>2, <2>3 DEF ConnectionTypeOK, Begun, writerVars
<1>9. CASE read_fails
  <2>1. handed' = Append(handed, buffer) \/ handed' = handed BY <1>9 DEF read_fails
  <2>2. handed' \in Seq(Seq(Bytes)) BY <1>1, <2>1, Handed
  <2>3. /\ buffer' = <<>> /\ search_position' = 0 /\ reader' = "ended"
        /\ UNCHANGED <<mode, writerVars, wire, connection>>
    BY <1>9 DEF read_fails
  <2> QED BY <2>2, <2>3 DEF ConnectionTypeOK, Begun, writerVars
<1>10. CASE Close
  BY <1>10 DEF Close, ConnectionTypeOK, Begun, writerVars, readerVars
<1>11. CASE Break
  <2>1. wire' \in Seq(Bytes) BY <1>1, <1>11, Beginning DEF Break
  <2> QED BY <1>11, <2>1 DEF Break, ConnectionTypeOK, Begun, writerVars, readerVars
<1>12. CASE UNCHANGED vars
  BY <1>12 DEF vars, ConnectionTypeOK, Begun, writerVars, readerVars
<1> QED
  BY <1>2, <1>3, <1>4, <1>6, <1>7, <1>8, <1>9, <1>10, <1>11, <1>12 DEF Next, Writes, Reads

LEMMA InitHistory == Init => HistoryTypeOK
<1> SUFFICES ASSUME Init PROVE HistoryTypeOK OBVIOUS
<1>1. crowded = FALSE /\ dropped = 0 BY DEF Init
<1>2. crowded \in BOOLEAN BY <1>1, Zenon
<1>3. dropped \in Nat BY <1>1
<1> QED BY <1>2, <1>3 DEF HistoryTypeOK

LEMMA NextHistory == ASSUME TInv, HistoryTypeOK, [Next]_vars PROVE HistoryTypeOK'
<1>1. crowded' \in BOOLEAN
  <2>1. CASE write
    <3>1. crowded' = (crowded \/ (mode = "line" /\ Len(handed) # written))
      BY <2>1 DEF write
    <3> QED BY <3>1, Zenon
  <2>2. CASE crowded' = crowded BY <2>2 DEF HistoryTypeOK
  <2>3. write \/ crowded' = crowded
    BY DEF Next, Writes, Reads, write_some, write_fails, read_until, read,
           read_dynamic, read_fails, Close, Break, vars
  <2> QED BY <2>1, <2>2, <2>3
<1>2. ASSUME NEW n \in 1 .. MaxTransfer, read_until(n) PROVE dropped' \in Nat
  <2>1. PICK first \in search_position .. Len(Take(n)) :
          IF Full(Take(n), first)
          THEN dropped' = dropped + Len(Take(n)) - (first + Len(Delim))
          ELSE dropped' = dropped
    BY <1>2 DEF read_until
  <2>2. /\ wire \in Seq(Bytes) /\ n \in 0 .. Len(wire) /\ buffer \in Seq(Bytes)
        /\ search_position \in Nat
    BY <1>2, LenProperties, ComposedAssumption DEF read_until, TInv, ConnectionTypeOK
  <2>3. Take(n) \in Seq(Bytes) BY <2>2, Joined DEF Take
  <2>4. Len(Take(n)) \in Nat /\ Len(Delim) \in Nat /\ first \in Nat /\ dropped \in Nat
    BY <2>2, <2>3, LenProperties, ComposedAssumption DEF HistoryTypeOK
  <2>5. CASE Full(Take(n), first) BY <2>1, <2>4, <2>5 DEF Full
  <2>6. CASE ~Full(Take(n), first) BY <2>1, <2>4, <2>6
  <2> QED BY <2>5, <2>6
<1>3. dropped' = dropped \/ \E n \in 1 .. MaxTransfer : read_until(n)
  BY DEF Next, Writes, Reads, write, write_some, write_fails, read, read_dynamic,
         read_fails, Close, Break, vars, readerVars
<1> QED BY <1>1, <1>2, <1>3 DEF HistoryTypeOK

-----------------------------------------------------------------------------
(* The search.                                                             *)

(* Where a delimiter does not begin in b, it does not in what extends b. *)
LEMMA Contradicted ==
  ASSUME NEW b \in Seq(Bytes), NEW c \in Seq(Bytes), Len(b) <= Len(c),
         \A i \in 1 .. Len(b) : b[i] = c[i],
         NEW i \in Nat, ~Begins(b, i)
  PROVE  ~Begins(c, i)
<1>1. Len(b) \in Nat /\ Len(c) \in Nat /\ Len(Delim) \in Nat
  BY LenProperties, ComposedAssumption
<1>2. PICK k \in 1 .. Len(Delim) : i + k <= Len(b) /\ b[i + k] # Delim[k]
  BY DEF Begins
<1>3. i + k \in 1 .. Len(b) /\ i + k <= Len(c) BY <1>1, <1>2
<1>4. c[i + k] # Delim[k] BY <1>2, <1>3
<1> QED BY <1>3, <1>4 DEF Begins

(* The first place found is the first there is: none is before             *)
(* search_position.                                                        *)
LEMMA NotBefore ==
  ASSUME TInv, Searched, mode = "line", NEW n \in 0 .. Len(wire),
         NEW first \in search_position .. Len(Take(n)),
         partial_search(Take(n), search_position, first)
  PROVE  \A i \in 0 .. (first - 1) : ~Begins(Take(n), i)
<1>1. /\ buffer \in Seq(Bytes) /\ wire \in Seq(Bytes)
      /\ Len(buffer) \in Nat /\ search_position \in Nat
  BY LenProperties DEF TInv, ConnectionTypeOK
<1>2. /\ Take(n) \in Seq(Bytes) /\ Len(Take(n)) \in Nat
      /\ Len(buffer) <= Len(Take(n))
      /\ \A i \in 1 .. Len(buffer) : buffer[i] = Take(n)[i]
  <2>1. /\ Take(n) \in Seq(Bytes) /\ Len(Take(n)) = Len(buffer) + n
        /\ \A i \in 1 .. Len(buffer) : Take(n)[i] = buffer[i]
    BY <1>1, Joined DEF Take
  <2>2. n \in Nat /\ Len(Take(n)) \in Nat BY <1>1, <2>1, LenProperties
  <2> QED BY <1>1, <2>1, <2>2
<1> SUFFICES ASSUME NEW i \in 0 .. (first - 1) PROVE ~Begins(Take(n), i) OBVIOUS
<1>3. i \in Nat /\ first \in Nat BY <1>1
<1>4. CASE i < search_position
  <2>1. i \in 0 .. (search_position - 1) BY <1>1, <1>3, <1>4
  <2>2. ~Begins(buffer, i) BY <2>1 DEF Searched
  <2> QED BY <1>1, <1>2, <1>3, <2>2, Contradicted
<1>5. CASE ~(i < search_position)
  <2>1. i \in search_position .. (first - 1) BY <1>1, <1>3, <1>5
  <2> QED BY <2>1 DEF partial_search
<1> QED BY <1>4, <1>5

(* So what is handed over ends at the first delimiter in it.               *)
LEMMA FoundLine ==
  ASSUME TInv, Searched, mode = "line", NEW n \in 0 .. Len(wire),
         NEW first \in search_position .. Len(Take(n)),
         partial_search(Take(n), search_position, first), Full(Take(n), first)
  PROVE  /\ SubSeq(Take(n), 1, first + Len(Delim)) \in Seq(Bytes)
         /\ IsLine(SubSeq(Take(n), 1, first + Len(Delim)))
<1>1. buffer \in Seq(Bytes) /\ wire \in Seq(Bytes) /\ search_position \in Nat
  BY DEF TInv, ConnectionTypeOK
<1>2. Take(n) \in Seq(Bytes) BY <1>1, Joined DEF Take
<1>3. Len(Take(n)) \in Nat /\ Len(Delim) \in Nat /\ first \in Nat
  BY <1>1, <1>2, LenProperties, ComposedAssumption
<1>4. first + Len(Delim) \in 0 .. Len(Take(n)) BY <1>3 DEF Full
<1>5. PICK l : l = SubSeq(Take(n), 1, first + Len(Delim)) OBVIOUS
<1>6. /\ l \in Seq(Bytes) /\ Len(l) = first + Len(Delim)
      /\ \A i \in 1 .. (first + Len(Delim)) : l[i] = Take(n)[i]
  BY <1>2, <1>4, <1>5, Beginning
<1>7. Begins(l, first)
  <2>1. ASSUME NEW k \in 1 .. Len(Delim) PROVE l[first + k] = Delim[k]
    <3>1. first + k \in 1 .. (first + Len(Delim)) /\ first + k <= Len(Take(n))
      BY <1>3, <1>4
    <3>2. Take(n)[first + k] = Delim[k] BY <3>1 DEF partial_search, Begins
    <3> QED BY <1>6, <3>1, <3>2
  <2> QED BY <2>1 DEF Begins
<1>8. ASSUME NEW i \in 0 .. (first - 1) PROVE ~Begins(l, i)
  <2>1. ~Begins(Take(n), i) BY NotBefore
  <2>2. PICK k \in 1 .. Len(Delim) : i + k <= Len(Take(n)) /\ Take(n)[i + k] # Delim[k]
    BY <2>1 DEF Begins
  <2>3. i + k \in 1 .. (first + Len(Delim)) /\ i + k <= Len(l) BY <1>3, <1>6
  <2>4. l[i + k] # Delim[k] BY <1>6, <2>2, <2>3
  <2> QED BY <2>3, <2>4 DEF Begins
<1>9. IsLine(l)
  <2>1. Len(l) >= Len(Delim) /\ Len(l) - Len(Delim) = first BY <1>3, <1>6
  <2>2. ASSUME NEW i \in 0 .. first PROVE Begins(l, i) <=> i = first
    <3>1. i = first \/ i \in 0 .. (first - 1) BY <1>3
    <3> QED BY <1>7, <1>8, <3>1
  <2> QED BY <2>1, <2>2 DEF IsLine
<1> QED BY <1>5, <1>6, <1>9

Lined == mode = "line" => \A i \in 1 .. Len(handed) : IsLine(handed[i])

LEMMA NextLined == ASSUME TInv, Searched, Lined, [Next]_vars PROVE Lined'
<1>1. mode' = mode
  BY DEF Next, Writes, Reads, write, write_some, write_fails, read_until, read,
         read_dynamic, read_fails, Close, Break, vars
<1> SUFFICES ASSUME mode = "line"
             PROVE  \A i \in 1 .. Len(handed') : IsLine(handed'[i])
  BY <1>1 DEF Lined
<1>2. handed \in Seq(Seq(Bytes)) /\ Len(handed) \in Nat
  BY LenProperties DEF TInv, ConnectionTypeOK
<1>3. ASSUME NEW n \in 1 .. MaxTransfer, read_until(n)
      PROVE  \A i \in 1 .. Len(handed') : IsLine(handed'[i])
  <2>1. n \in 0 .. Len(wire)
    <3>1. n <= Len(wire) /\ n \in Nat BY <1>3, ComposedAssumption DEF read_until
    <3> QED BY <3>1
  <2>2. PICK first \in search_position .. Len(Take(n)) :
          /\ partial_search(Take(n), search_position, first)
          /\ IF Full(Take(n), first)
             THEN handed' = Append(handed, SubSeq(Take(n), 1, first + Len(Delim)))
             ELSE handed' = handed
    BY <1>3 DEF read_until
  <2>3. CASE Full(Take(n), first)
    <3>1. PICK l : l = SubSeq(Take(n), 1, first + Len(Delim)) OBVIOUS
    <3>2. l \in Seq(Bytes) /\ IsLine(l) BY <2>1, <2>2, <2>3, <3>1, FoundLine
    <3>3. /\ Len(handed') = Len(handed) + 1 /\ handed'[Len(handed) + 1] = l
          /\ \A i \in 1 .. Len(handed) : handed'[i] = handed[i]
      <4>1. handed' = Append(handed, l) BY <2>2, <2>3, <3>1
      <4> QED BY <1>2, <3>2, <4>1, Handed
    <3>4. \A i \in 1 .. (Len(handed) + 1) : i \in 1 .. Len(handed) \/ i = Len(handed) + 1
      BY <1>2
    <3>5. \A i \in 1 .. Len(handed) : IsLine(handed[i]) BY DEF Lined
    <3> QED BY <3>2, <3>3, <3>4, <3>5, Zenon
  <2>4. CASE ~Full(Take(n), first) BY <2>2, <2>4 DEF Lined
  <2> QED BY <2>3, <2>4
<1>4. CASE handed' = handed BY <1>4 DEF Lined
<1>5. handed' = handed \/ \E n \in 1 .. MaxTransfer : read_until(n)
  BY DEF Next, Writes, Reads, write, write_some, write_fails, read, read_dynamic,
         read_fails, Close, Break, vars, readerVars
<1> QED BY <1>3, <1>4, <1>5

LEMMA InitSearched == ASSUME Init PROVE Searched /\ NoLineWaits
<1>1. Searched BY DEF Init, Searched
<1>2. NoLineWaits
  <2>1. Len(<<>>) = 0 /\ buffer = <<>> BY DEF Init
  <2>2. Len(Delim) \in Nat /\ Len(Delim) > 0
    BY ComposedAssumption, EmptySeq, LenProperties
  <2>3. \A i \in 0 .. 0 : ~(i + Len(Delim) <= 0) BY <2>2
  <2> QED BY <2>1, <2>3 DEF NoLineWaits, Full
<1> QED BY <1>1, <1>2

LEMMA NextSearched ==
  ASSUME TInv, Searched, NoLineWaits, [Next]_vars
  PROVE  Searched' /\ NoLineWaits'
<1>1. ASSUME UNCHANGED <<mode, buffer, search_position>> PROVE Searched' /\ NoLineWaits'
  BY <1>1 DEF Searched, NoLineWaits, Begins, Full
<1>2. ASSUME NEW n \in 1 .. MaxTransfer, read_until(n) PROVE Searched' /\ NoLineWaits'
  <2>0. /\ n \in 0 .. Len(wire) /\ buffer \in Seq(Bytes) /\ wire \in Seq(Bytes)
        /\ Len(buffer) \in Nat /\ Len(Delim) \in Nat /\ search_position \in Nat
    <3>1. Len(wire) \in Nat /\ Len(buffer) \in Nat /\ Len(Delim) \in Nat
      BY LenProperties, ComposedAssumption DEF TInv, ConnectionTypeOK
    <3> QED BY <1>2, <3>1, ComposedAssumption DEF read_until, TInv, ConnectionTypeOK
  <2>1. PICK first \in search_position .. Len(Take(n)) :
          /\ partial_search(Take(n), search_position, first)
          /\ IF Full(Take(n), first)
             THEN buffer' = <<>> /\ search_position' = 0
             ELSE buffer' = Take(n) /\ search_position' = first
    BY <1>2 DEF read_until
  <2>2. mode = "line" /\ mode' = "line" BY <1>2 DEF read_until
  <2>3. CASE Full(Take(n), first)
    <3>1. buffer' = <<>> /\ search_position' = 0 BY <2>1, <2>3
    <3>2. Len(<<>>) = 0 OBVIOUS
    <3>3. Searched' BY <3>1 DEF Searched
    <3>4. Len(Delim) > 0 BY <2>0, ComposedAssumption, EmptySeq
    <3>5. \A i \in 0 .. 0 : ~(i + Len(Delim) <= 0) BY <2>0, <3>4
    <3>6. NoLineWaits' BY <3>1, <3>2, <3>5 DEF NoLineWaits, Full
    <3> QED BY <3>3, <3>6
  <2>4. CASE ~Full(Take(n), first)
    <3>1. buffer' = Take(n) /\ search_position' = first BY <2>1, <2>4
    <3>2. /\ Take(n) \in Seq(Bytes) /\ Len(Take(n)) \in Nat
          /\ Len(buffer) <= Len(Take(n))
          /\ \A i \in 1 .. Len(buffer) : buffer[i] = Take(n)[i]
      <4>1. /\ Take(n) \in Seq(Bytes) /\ Len(Take(n)) = Len(buffer) + n
            /\ \A i \in 1 .. Len(buffer) : Take(n)[i] = buffer[i]
        BY <2>0, Joined DEF Take
      <4>2. n \in Nat /\ Len(Take(n)) \in Nat BY <2>0, <4>1, LenProperties
      <4> QED BY <2>0, <4>1, <4>2
    <3>3. \A i \in 0 .. (first - 1) : ~Begins(Take(n), i)
      BY <2>0, <2>1, <2>2, NotBefore
    <3>4. ASSUME NEW i \in 0 .. Len(Take(n)), Full(Take(n), i) PROVE ~Begins(Take(n), i)
      <4>1. i < first BY <2>0, <2>1, <2>4, <3>2, <3>4 DEF Full
      <4>2. i \in 0 .. (first - 1) BY <2>0, <2>1, <4>1
      <4> QED BY <3>3, <4>2
    <3>5. Searched' BY <2>2, <3>1, <3>3 DEF Searched, Begins
    <3>6. NoLineWaits' BY <2>2, <3>1, <3>4 DEF NoLineWaits, Begins, Full
    <3> QED BY <3>5, <3>6
  <2> QED BY <2>3, <2>4
<1>3. ASSUME mode # "line", UNCHANGED mode PROVE Searched' /\ NoLineWaits'
  BY <1>3 DEF Searched, NoLineWaits
<1>4. CASE read_fails
  <2>1. buffer' = <<>> /\ search_position' = 0 BY <1>4 DEF read_fails
  <2>2. Len(Delim) \in Nat /\ Len(Delim) > 0
    BY ComposedAssumption, EmptySeq, LenProperties
  <2>3. \A i \in 0 .. 0 : ~(i + Len(Delim) <= 0) BY <2>2
  <2>4. Len(<<>>) = 0 OBVIOUS
  <2> QED BY <2>1, <2>3, <2>4 DEF Searched, NoLineWaits, Full
<1>5. CASE write BY <1>1, <1>5 DEF write, readerVars
<1>6. ASSUME NEW n \in 1 .. MaxTransfer, write_some(n) PROVE Searched' /\ NoLineWaits'
  BY <1>1, <1>6 DEF write_some, readerVars
<1>7. CASE write_fails BY <1>1, <1>7 DEF write_fails, readerVars
<1>8. ASSUME NEW n \in 1 .. MaxTransfer, read(n) \/ read_dynamic(n)
      PROVE  Searched' /\ NoLineWaits'
  BY <1>3, <1>8 DEF read, read_dynamic
<1>9. CASE Close BY <1>1, <1>9 DEF Close, readerVars
<1>10. CASE Break BY <1>1, <1>10 DEF Break, readerVars
<1>11. CASE UNCHANGED vars BY <1>1, <1>11 DEF vars, readerVars
<1> QED
  BY <1>2, <1>4, <1>5, <1>6, <1>7, <1>8, <1>9, <1>10, <1>11 DEF Next, Writes, Reads

-----------------------------------------------------------------------------
(* The lines.                                                              *)

LEMMA InitInTurn == ASSUME Init, TInv PROVE InTurn
<1>1. Len(messages) \in Nat BY Messages, LenProperties DEF TInv
<1>2. Len(<<>>) = 0 OBVIOUS
<1> QED BY <1>1, <1>2 DEF Init, InTurn, InOrder, Between

LEMMA AsWritten ==
  ASSUME TInv, mode = "line", InOrder
  PROVE  handed = SubSeq(messages, 1, Len(handed))
<1> DEFINE L == Seq(Bytes)
<1>1. /\ messages \in Seq(L) /\ handed \in Seq(L)
      /\ Len(messages) \in Nat /\ Len(handed) \in Nat
  BY Messages, LenProperties DEF TInv, ConnectionTypeOK
<1> HIDE DEF L
<1>2. \A i \in 1 .. Len(handed) : messages[i] \in L
  BY <1>1, ElementOfSeq DEF InOrder
<1>3. /\ SubSeq(messages, 1, Len(handed)) \in Seq(L)
      /\ Len(SubSeq(messages, 1, Len(handed))) = Len(handed)
      /\ \A i \in 1 .. Len(handed) :
           SubSeq(messages, 1, Len(handed))[i] = messages[i]
  <2>1. 1 \in Int /\ Len(handed) \in Int BY <1>1
  <2>2. /\ SubSeq(messages, 1, Len(handed)) \in Seq(L)
        /\ Len(SubSeq(messages, 1, Len(handed)))
             = IF 1 <= Len(handed) THEN Len(handed) - 1 + 1 ELSE 0
        /\ \A i \in 1 .. (Len(handed) - 1 + 1) :
             SubSeq(messages, 1, Len(handed))[i] = messages[1 + i - 1]
    BY <1>2, <2>1, SubSeqProperties
  <2> QED BY <1>1, <2>2
<1> QED BY <1>1, <1>3, SeqEqual DEF InOrder

(* The line that is being written or read. *)
LEMMA CurrentLine ==
  ASSUME TInv, mode = "line", Len(handed) < Len(messages)
  PROVE  /\ Current \in Seq(Bytes) /\ IsLine(Current)
         /\ Len(Current) \in Nat /\ Len(Delim) \in Nat
         /\ Len(Delim) > 0 /\ Len(Current) >= Len(Delim)
<1>1. /\ messages \in Seq(Seq(Bytes)) /\ \A i \in 1 .. Len(messages) : IsLine(messages[i])
      /\ Len(handed) \in Nat /\ Len(messages) \in Nat
  BY Messages, LenProperties DEF TInv, ConnectionTypeOK
<1>2. Len(handed) + 1 \in 1 .. Len(messages) BY <1>1
<1>3. Current \in Seq(Bytes) BY <1>1, <1>2, ElementOfSeq DEF Current
<1>4. IsLine(Current) BY <1>1, <1>2 DEF Current
<1>5. Len(Delim) \in Nat /\ Len(Delim) > 0
  BY ComposedAssumption, EmptySeq, LenProperties
<1> QED BY <1>3, <1>4, <1>5, LenProperties DEF IsLine

(* In every state but the one between two lines there is such a line. *)
LEMMA LineThere ==
  ASSUME TInv, mode = "line", InTurn, ~Between
  PROVE  Len(handed) < Len(messages)
<1>1. Len(handed) \in Nat /\ Len(messages) \in Nat
  BY Messages, LenProperties DEF TInv, ConnectionTypeOK
<1> QED BY <1>1 DEF InTurn, OnItsWay, Written, TInv, ConnectionTypeOK, Begun

LEMMA WriteInTurn ==
  ASSUME TInv, InTurn, mode = "line", write, Len(handed) = written
  PROVE  InTurn'
<1>1. /\ writer = "idle" /\ written < Len(messages) /\ Len(handed) = written
      /\ writer' = "writing" /\ total_consumed' = 0
      /\ UNCHANGED <<mode, messages, written, wire, connection, buffer, handed>>
  BY DEF write, readerVars
<1>2. Between BY <1>1 DEF InTurn, OnItsWay, Written, TInv, ConnectionTypeOK
<1>3. Len(<<>>) = 0 OBVIOUS
<1>4. Len(Current) \in Nat /\ Len(Current) > 0 BY <1>1, CurrentLine
<1>5. OnItsWay' BY <1>1, <1>2, <1>3, <1>4 DEF Between, OnItsWay, Ahead, Current
<1> QED BY <1>1, <1>5 DEF InTurn, InOrder

LEMMA WriteSomeInTurn ==
  ASSUME TInv, InTurn, mode = "line", NEW n \in 1 .. MaxTransfer, write_some(n)
  PROVE  InTurn'
<1>1. /\ writer = "writing" /\ connection = "open"
      /\ n <= Len(Data) - total_consumed
      /\ wire' = wire \o SubSeq(Data, total_consumed + 1, total_consumed + n)
      /\ total_consumed' = total_consumed + n
      /\ UNCHANGED <<mode, messages, connection, buffer, handed>>
  BY DEF write_some, readerVars
<1>2. IF total_consumed + n >= Len(Data)
      THEN writer' = "idle" /\ written' = written + 1
      ELSE writer' = writer /\ written' = written
  BY <1>1 DEF write_some
<1>3. OnItsWay BY <1>1 DEF InTurn, Between, Written
<1>4. Data = Current BY <1>3 DEF OnItsWay, Data, Current
<1>5. Current \in Seq(Bytes) /\ Len(Current) \in Nat
  BY <1>1, <1>3, LineThere, CurrentLine DEF Between
<1>6. /\ n \in Nat /\ total_consumed \in Nat
      /\ wire \in Seq(Bytes) /\ buffer \in Seq(Bytes)
      /\ Len(wire) \in Nat /\ Len(buffer) \in Nat
      /\ Len(buffer) + Len(wire) = total_consumed
      /\ total_consumed + n <= Len(Current)
  BY <1>1, <1>3, <1>4, <1>5, ComposedAssumption, LenProperties DEF OnItsWay, TInv,
                                                                   ConnectionTypeOK
<1>7. /\ Len(wire') = Len(wire) + n
      /\ \A i \in 1 .. Len(wire) : wire'[i] = wire[i]
      /\ \A i \in 1 .. n : wire'[Len(wire) + i] = Current[total_consumed + i]
  BY <1>1, <1>4, <1>5, <1>6, Sent
<1>8. Current' = Current BY <1>1 DEF Current
<1>9. ASSUME NEW i \in 1 .. Len(wire') PROVE wire'[i] = Current[Len(buffer) + i]
  <2>1. CASE i <= Len(wire)
    <3>1. i \in 1 .. Len(wire) BY <1>6, <1>7, <2>1
    <3> QED BY <1>3, <1>7, <3>1 DEF OnItsWay, Ahead
  <2>2. CASE ~(i <= Len(wire))
    <3>1. PICK j \in 1 .. n : i = Len(wire) + j
      <4>1. i - Len(wire) \in 1 .. n /\ i = Len(wire) + (i - Len(wire))
        BY <1>6, <1>7, <2>2
      <4> QED BY <4>1
    <3>2. j \in Nat BY <1>6
    <3>3. total_consumed + j = Len(buffer) + i
      <4>1. total_consumed = Len(buffer) + Len(wire) BY <1>6
      <4> QED BY <1>6, <3>1, <3>2, <4>1
    <3> QED BY <1>7, <3>1, <3>3
  <2> QED BY <2>1, <2>2
<1>10. Ahead(Current)'
  <2>1. Len(buffer) + Len(wire') <= Len(Current) BY <1>6, <1>7
  <2>2. \A i \in 1 .. Len(buffer) : buffer[i] = Current[i]
    BY <1>3 DEF OnItsWay, Ahead
  <2> QED BY <1>1, <1>8, <1>9, <2>1, <2>2 DEF Ahead
<1>11. InOrder' BY <1>1 DEF InTurn, InOrder
<1>12. CASE total_consumed + n >= Len(Data)
  <2>1. writer' = "idle" /\ written' = Len(handed') + 1
    BY <1>1, <1>2, <1>3, <1>12 DEF OnItsWay
  <2> QED BY <1>10, <1>11, <2>1 DEF InTurn, Written
<1>13. CASE ~(total_consumed + n >= Len(Data))
  <2>1. writer' = "writing" /\ written' = Len(handed')
    BY <1>1, <1>2, <1>3, <1>13 DEF OnItsWay
  <2>2. total_consumed' < Len(Current') BY <1>1, <1>4, <1>5, <1>6, <1>8, <1>13
  <2>3. Len(buffer') + Len(wire') = total_consumed'
    <3>1. buffer' = buffer /\ total_consumed' = total_consumed + n BY <1>1
    <3>2. total_consumed = Len(buffer) + Len(wire) BY <1>6
    <3>3. Len(buffer) + (Len(wire) + n) = (Len(buffer) + Len(wire)) + n BY <1>6
    <3> QED BY <1>7, <3>1, <3>2, <3>3
  <2>4. Len(buffer') + Len(wire') <= total_consumed'
    <3>1. total_consumed' \in Nat BY <1>1, <1>6
    <3> QED BY <2>3, <3>1
  <2> QED BY <1>10, <1>11, <2>1, <2>2, <2>3, <2>4 DEF InTurn, OnItsWay
<1> QED BY <1>12, <1>13

(* A delimiter that is found in a beginning of a line is the line's end. *)
LEMMA FoundAtEnd ==
  ASSUME NEW c \in Seq(Bytes), IsLine(c), NEW b \in Seq(Bytes), Len(b) <= Len(c),
         \A i \in 1 .. Len(b) : b[i] = c[i],
         NEW i \in Nat, Begins(b, i), Full(b, i)
  PROVE  i + Len(Delim) = Len(c) /\ Len(b) = Len(c)
<1>1. Len(b) \in Nat /\ Len(c) \in Nat /\ Len(Delim) \in Nat
  BY LenProperties, ComposedAssumption
<1>2. i + Len(Delim) <= Len(b) BY DEF Full
<1>3. Begins(c, i)
  <2>1. ASSUME NEW k \in 1 .. Len(Delim) PROVE c[i + k] = Delim[k]
    <3>1. i + k \in 1 .. Len(b) /\ i + k <= Len(b) BY <1>1, <1>2
    <3>2. b[i + k] = Delim[k] BY <3>1 DEF Begins
    <3> QED BY <3>1, <3>2
  <2> QED BY <2>1 DEF Begins
<1>4. i \in 0 .. (Len(c) - Len(Delim)) BY <1>1, <1>2
<1>5. i = Len(c) - Len(Delim) BY <1>3, <1>4 DEF IsLine
<1> QED BY <1>1, <1>2, <1>5

LEMMA ReadUntilInTurn ==
  ASSUME TInv, HistoryTypeOK, InTurn, mode = "line",
         NEW n \in 1 .. MaxTransfer, read_until(n)
  PROVE  InTurn' /\ dropped' = dropped
<1>1. /\ n <= Len(wire) /\ wire' = SubSeq(wire, n + 1, Len(wire))
      /\ UNCHANGED <<mode, messages, written, writer, total_consumed, connection>>
  BY DEF read_until, writerVars
<1>2. PICK first \in search_position .. Len(Take(n)) :
        /\ partial_search(Take(n), search_position, first)
        /\ IF Full(Take(n), first)
           THEN /\ handed' = Append(handed, SubSeq(Take(n), 1, first + Len(Delim)))
                /\ dropped' = dropped + Len(Take(n)) - (first + Len(Delim))
                /\ buffer' = <<>>
           ELSE buffer' = Take(n) /\ handed' = handed /\ dropped' = dropped
  BY DEF read_until
<1>3. /\ buffer \in Seq(Bytes) /\ wire \in Seq(Bytes) /\ handed \in Seq(Seq(Bytes))
      /\ Len(buffer) \in Nat /\ Len(wire) \in Nat /\ Len(handed) \in Nat
      /\ n \in Nat /\ n > 0 /\ n \in 0 .. Len(wire) /\ search_position \in Nat
      /\ Len(messages) \in Nat
  BY <1>1, ComposedAssumption, Messages, LenProperties DEF TInv, ConnectionTypeOK
<1>4. ~Between
  <2>1. Len(<<>>) = 0 OBVIOUS
  <2> QED BY <1>1, <1>3, <2>1 DEF Between
<1>5. /\ Len(handed) < Len(messages)
      /\ Current \in Seq(Bytes) /\ IsLine(Current) /\ Len(Current) \in Nat
      /\ Len(Delim) \in Nat
  BY <1>4, LineThere, CurrentLine
<1>6. Ahead(Current) /\ InOrder BY <1>4 DEF InTurn, OnItsWay, Written
<1>7. /\ Take(n) \in Seq(Bytes) /\ Len(Take(n)) = Len(buffer) + n
      /\ \A i \in 1 .. Len(buffer) : Take(n)[i] = buffer[i]
      /\ \A i \in 1 .. n : Take(n)[Len(buffer) + i] = wire[i]
  BY <1>3, Joined DEF Take
<1>8. /\ Len(wire') = Len(wire) - n
      /\ \A i \in 1 .. (Len(wire) - n) : wire'[i] = wire[n + i]
  BY <1>1, <1>3, Rest
<1>9. Len(Take(n)) + Len(wire') = Len(buffer) + Len(wire) BY <1>3, <1>7, <1>8
<1>10. Len(Take(n)) <= Len(Current) /\ Len(Take(n)) + Len(wire') <= Len(Current)
  <2>1. Len(buffer) + Len(wire) <= Len(Current) BY <1>6 DEF Ahead
  <2>2. Len(Take(n)) \in Nat /\ Len(wire') \in Nat
    <3>1. Len(Take(n)) = Len(buffer) + n /\ Len(wire') = Len(wire) - n BY <1>7, <1>8
    <3> QED BY <1>3, <3>1
  <2> QED BY <1>5, <1>9, <2>1, <2>2
<1>11. ASSUME NEW i \in 1 .. Len(Take(n)) PROVE Take(n)[i] = Current[i]
  <2>1. CASE i <= Len(buffer)
    <3>1. i \in 1 .. Len(buffer) BY <1>3, <1>7, <2>1
    <3> QED BY <1>6, <1>7, <3>1 DEF Ahead
  <2>2. CASE ~(i <= Len(buffer))
    <3>1. i - Len(buffer) \in 1 .. n /\ i = Len(buffer) + (i - Len(buffer))
      BY <1>3, <1>7, <2>2
    <3>2. PICK j \in 1 .. n : i = Len(buffer) + j BY <3>1
    <3>3. j \in 1 .. Len(wire) BY <1>3
    <3> QED BY <1>6, <1>7, <3>2, <3>3 DEF Ahead
  <2> QED BY <2>1, <2>2
<1>12. CASE Full(Take(n), first)
  <2>1. first \in Nat BY <1>2, <1>3
  <2>2. first + Len(Delim) = Len(Current) /\ Len(Take(n)) = Len(Current)
    <3>1. Begins(Take(n), first) BY <1>2 DEF partial_search
    <3> QED BY <1>5, <1>7, <1>10, <1>11, <1>12, <2>1, <3>1, FoundAtEnd
  <2>3. SubSeq(Take(n), 1, first + Len(Delim)) = Current
    <3>1. Len(Take(n)) \in 0 .. Len(Take(n)) BY <1>7, LenProperties
    <3>2. /\ SubSeq(Take(n), 1, Len(Take(n))) \in Seq(Bytes)
          /\ Len(SubSeq(Take(n), 1, Len(Take(n)))) = Len(Take(n))
          /\ \A i \in 1 .. Len(Take(n)) : SubSeq(Take(n), 1, Len(Take(n)))[i] = Take(n)[i]
      BY <1>7, <3>1, Beginning
    <3>3. SubSeq(Take(n), 1, Len(Take(n))) = Current
      BY <1>5, <1>11, <2>2, <3>2, Same
    <3> QED BY <2>2, <3>3
  <2>4. handed' = Append(handed, Current) /\ buffer' = <<>> BY <1>2, <1>12, <2>3
  <2>5. Len(wire') = 0
    <3>1. Len(wire') = Len(wire) - n /\ n <= Len(wire) BY <1>1, <1>8
    <3>2. Len(Current) + Len(wire') <= Len(Current) BY <1>10, <2>2
    <3>3. \A k, l, c, m \in Nat : k = l - m /\ m <= l /\ c + k <= c => k = 0 OBVIOUS
    <3>4. Len(wire') \in Nat /\ n \in Nat /\ Len(wire) \in Nat /\ Len(Current) \in Nat
      BY <1>3, <1>5, <3>1
    <3> QED BY <3>1, <3>2, <3>3, <3>4
  <2>6. wire' = <<>> BY <1>1, <1>3, <2>5, Rest, EmptySeq
  <2>7. /\ Len(handed') = Len(handed) + 1
        /\ \A i \in 1 .. Len(handed) : handed'[i] = handed[i]
        /\ handed'[Len(handed) + 1] = Current
    BY <1>3, <1>5, <2>4, Handed
  <2>8. InOrder'
    <3>1. Len(handed') <= Len(messages') BY <1>1, <1>3, <1>5, <2>7
    <3>2. ASSUME NEW i \in 1 .. Len(handed') PROVE handed'[i] = messages'[i]
      <4>1. i \in 1 .. Len(handed) \/ i = Len(handed) + 1
        <5>1. i \in 1 .. (Len(handed) + 1) /\ Len(handed) \in Nat BY <1>3, <2>7
        <5> QED BY <5>1
      <4> QED BY <1>1, <1>6, <2>7, <4>1 DEF InOrder, Current
    <3> QED BY <3>1, <3>2 DEF InOrder
  <2>9. Written
    <3>1. Len(buffer) + Len(wire) >= Len(Current)
      <4>1. Len(buffer) + n = Len(Current) BY <1>7, <2>2
      <4>2. \A b, w, m, c \in Nat : m <= w /\ b + m = c => b + w >= c OBVIOUS
      <4>3. /\ Len(buffer) \in Nat /\ Len(wire) \in Nat /\ n \in Nat /\ n <= Len(wire)
            /\ Len(Current) \in Nat
        BY <1>3, <1>5, <1>8
      <4> QED BY <4>1, <4>2, <4>3
    <3>2. ~OnItsWay
      <4>1. SUFFICES ASSUME OnItsWay PROVE FALSE OBVIOUS
      <4>2. total_consumed \in Nat /\ total_consumed < Len(Current)
        BY <4>1 DEF OnItsWay, TInv, ConnectionTypeOK
      <4>3. Len(buffer) + Len(wire) <= total_consumed BY <4>1 DEF OnItsWay
      <4> QED BY <1>3, <1>5, <3>1, <4>2, <4>3
    <3> QED BY <1>4, <3>2 DEF InTurn
  <2>10. Between' BY <1>1, <2>4, <2>6, <2>7, <2>9 DEF Written, Between
  <2>11. dropped' = dropped
    <3>1. dropped' = dropped + Len(Take(n)) - Len(Current) BY <1>2, <1>12, <2>2
    <3>2. dropped \in Nat BY DEF HistoryTypeOK
    <3>3. \A d, c \in Nat : d + c - c = d OBVIOUS
    <3> QED BY <1>5, <2>2, <3>1, <3>2, <3>3
  <2> QED BY <2>8, <2>10, <2>11 DEF InTurn
<1>13. CASE ~Full(Take(n), first)
  <2>1. buffer' = Take(n) /\ handed' = handed /\ dropped' = dropped BY <1>2, <1>13
  <2>2. Current' = Current BY <1>1, <2>1 DEF Current
  <2>3. ASSUME NEW i \in 1 .. Len(wire') PROVE wire'[i] = Current[Len(Take(n)) + i]
    <3>1. i \in 1 .. (Len(wire) - n) /\ n + i \in 1 .. Len(wire) BY <1>3, <1>8
    <3>2. wire'[i] = Current[Len(buffer) + (n + i)] BY <1>6, <1>8, <3>1 DEF Ahead
    <3>3. Len(buffer) + (n + i) = Len(Take(n)) + i BY <1>3, <1>7, <3>1
    <3> QED BY <3>2, <3>3
  <2>4. Ahead(Current)' BY <1>10, <1>11, <2>1, <2>2, <2>3 DEF Ahead
  <2>5. InOrder' BY <1>1, <1>6, <2>1 DEF InOrder
  <2>6. CASE OnItsWay
    BY <1>1, <1>9, <2>1, <2>2, <2>4, <2>5, <2>6 DEF InTurn, OnItsWay
  <2>7. CASE Written
    BY <1>1, <2>1, <2>4, <2>5, <2>7 DEF InTurn, Written
  <2> QED BY <1>4, <2>1, <2>6, <2>7 DEF InTurn
<1> QED BY <1>12, <1>13

LEMMA ReadFailsInTurn == ASSUME TInv, InTurn, mode = "line", read_fails PROVE InTurn'
<1>1. /\ wire = <<>> /\ connection # "open" /\ buffer' = <<>> /\ handed' = handed
      /\ UNCHANGED <<mode, messages, written, writer, total_consumed, wire, connection>>
  BY DEF read_fails, writerVars
<1>2. Len(<<>>) = 0 /\ total_consumed \in Nat BY DEF TInv, ConnectionTypeOK
<1>3. InOrder' BY <1>1 DEF InTurn, InOrder
<1>4. Current' = Current BY <1>1 DEF Current
<1>5. CASE Between BY <1>1, <1>3, <1>5 DEF InTurn, Between
<1>6. CASE ~Between
  <2>1. Len(Current) \in Nat BY <1>6, LineThere, CurrentLine
  <2>2. Ahead(Current)' BY <1>1, <1>2, <1>4, <2>1 DEF Ahead
  <2>3. CASE OnItsWay
    <3>1. OnItsWay' BY <1>1, <1>2, <1>4, <2>2, <2>3 DEF OnItsWay
    <3> QED BY <1>3, <3>1 DEF InTurn
  <2>4. CASE Written
    <3>1. Written' BY <1>1, <2>2, <2>4 DEF Written
    <3> QED BY <1>3, <3>1 DEF InTurn
  <2> QED BY <1>6, <2>3, <2>4 DEF InTurn
<1> QED BY <1>5, <1>6

LEMMA BreakInTurn == ASSUME TInv, InTurn, mode = "line", Break PROVE InTurn'
<1>1. PICK n \in 0 .. Len(wire) : wire' = SubSeq(wire, 1, n) BY DEF Break
<1>2. /\ connection' = "broken"
      /\ UNCHANGED <<mode, messages, written, writer, total_consumed, buffer, handed>>
  BY DEF Break, writerVars, readerVars
<1>3. /\ wire \in Seq(Bytes) /\ Len(wire) \in Nat /\ Len(buffer) \in Nat
      /\ total_consumed \in Nat
  BY LenProperties DEF TInv, ConnectionTypeOK
<1>4. Len(wire') = n /\ \A i \in 1 .. n : wire'[i] = wire[i]
  BY <1>1, <1>3, Beginning
<1>5. InOrder' BY <1>2 DEF InTurn, InOrder
<1>6. Current' = Current BY <1>2 DEF Current
<1>7. CASE Between
  <2>1. Len(<<>>) = 0 OBVIOUS
  <2>2. n = 0 BY <1>7, <2>1 DEF Between
  <2>3. wire' = <<>> BY <1>1, <1>3, <2>2, SubSeqEmpty
  <2> QED BY <1>2, <1>5, <1>7, <2>3 DEF InTurn, Between
<1>8. CASE ~Between
  <2>1. Len(Current) \in Nat BY <1>8, LineThere, CurrentLine
  <2>2. Ahead(Current) BY <1>8 DEF InTurn, OnItsWay, Written
  <2>3. Len(buffer') + Len(wire') <= Len(buffer) + Len(wire) BY <1>2, <1>3, <1>4
  <2>4. Len(buffer') \in Nat /\ Len(wire') \in Nat BY <1>2, <1>3, <1>4
  <2>5. Ahead(Current)'
    <3>1. Len(buffer') + Len(wire') <= Len(Current') 
      BY <1>3, <1>6, <2>1, <2>2, <2>3, <2>4 DEF Ahead
    <3>2. \A i \in 1 .. Len(wire') : wire'[i] = Current'[Len(buffer') + i]
      <4>1. \A i \in 1 .. n : i \in 1 .. Len(wire) BY <1>3
      <4> QED BY <1>2, <1>4, <1>6, <2>2, <4>1 DEF Ahead
    <3> QED BY <1>2, <1>6, <2>2, <3>1, <3>2 DEF Ahead
  <2>6. CASE OnItsWay
    <3>1. Len(buffer') + Len(wire') <= total_consumed'
      <4>1. Len(buffer) + Len(wire) <= total_consumed /\ total_consumed' = total_consumed
        BY <1>2, <2>6 DEF OnItsWay
      <4> QED BY <1>3, <2>3, <2>4, <4>1
    <3>2. OnItsWay' BY <1>2, <1>6, <2>5, <2>6, <3>1 DEF OnItsWay
    <3> QED BY <1>5, <3>2 DEF InTurn
  <2>7. CASE Written
    <3>1. Written' BY <1>2, <2>5, <2>7 DEF Written
    <3> QED BY <1>5, <3>1 DEF InTurn
  <2> QED BY <1>8, <2>6, <2>7 DEF InTurn
<1> QED BY <1>7, <1>8

LEMMA InitLInv == ASSUME Init, TInv PROVE LInv
<1>1. InTurn BY InitInTurn
<1> QED BY <1>1 DEF Init, LInv

LEMMA NextLInv == ASSUME TInv, HistoryTypeOK, LInv, [Next]_vars PROVE LInv'
<1> SUFFICES ASSUME Clear' PROVE InTurn' /\ dropped' = 0 BY DEF LInv
<1>1. mode' = mode
  BY DEF Next, Writes, Reads, write, write_some, write_fails, read_until, read,
         read_dynamic, read_fails, Close, Break, vars
<1>2. crowded' = crowded \/ (write /\ crowded' = (crowded \/ (mode = "line" /\ Len(handed) # written)))
  BY DEF Next, Writes, Reads, write, write_some, write_fails, read_until, read,
         read_dynamic, read_fails, Close, Break, vars
<1>3. mode = "line" /\ ~crowded
  <2>1. mode' = "line" /\ ~crowded' BY DEF Clear
  <2>2. ~crowded
    <3>1. CASE crowded' = crowded BY <2>1, <3>1
    <3>2. CASE crowded' = (crowded \/ (mode = "line" /\ Len(handed) # written))
      BY <2>1, <3>2
    <3> QED BY <1>2, <3>1, <3>2
  <2> QED BY <1>1, <2>1, <2>2
<1>4. InTurn /\ dropped = 0 BY <1>3 DEF LInv, Clear
<1>5. CASE write
  <2>1. Len(handed) = written
    <3>1. ~crowded' BY DEF Clear
    <3>2. crowded' = (crowded \/ (mode = "line" /\ Len(handed) # written))
      BY <1>5 DEF write
    <3> QED BY <1>3, <3>1, <3>2
  <2>2. dropped' = dropped BY <1>5 DEF write, readerVars
  <2> QED BY <1>3, <1>4, <1>5, <2>1, <2>2, WriteInTurn
<1>6. ASSUME NEW n \in 1 .. MaxTransfer, write_some(n) PROVE InTurn' /\ dropped' = 0
  <2>1. dropped' = dropped BY <1>6 DEF write_some, readerVars
  <2> QED BY <1>3, <1>4, <1>6, <2>1, WriteSomeInTurn
<1>7. CASE write_fails
  <2>1. /\ writer = "writing" /\ writer' = "failed"
        /\ UNCHANGED <<mode, messages, written, total_consumed, wire, connection,
                       buffer, handed, dropped>>
    BY <1>7 DEF write_fails, readerVars
  <2>2. InOrder /\ OnItsWay BY <1>4, <2>1 DEF InTurn, Between, Written
  <2>3. InOrder' BY <2>1, <2>2 DEF InOrder
  <2>4. OnItsWay' BY <2>1, <2>2 DEF OnItsWay, Ahead, Current
  <2> QED BY <1>4, <2>1, <2>3, <2>4 DEF InTurn
<1>8. ASSUME NEW n \in 1 .. MaxTransfer, read_until(n) PROVE InTurn' /\ dropped' = 0
  BY <1>3, <1>4, <1>8, ReadUntilInTurn
<1>9. ASSUME NEW n \in 1 .. MaxTransfer, read(n) \/ read_dynamic(n)
      PROVE  InTurn' /\ dropped' = 0
  BY <1>3, <1>9 DEF read, read_dynamic
<1>10. CASE read_fails
  <2>1. dropped' = dropped BY <1>10 DEF read_fails
  <2> QED BY <1>3, <1>4, <1>10, <2>1, ReadFailsInTurn
<1>11. CASE Close
  <2>1. /\ writer = "idle"
        /\ UNCHANGED <<mode, messages, written, writer, total_consumed, wire, buffer, handed,
                       dropped>>
    BY <1>11 DEF Close, writerVars, readerVars
  <2>2. InOrder /\ (Between \/ Written) BY <1>4, <2>1 DEF InTurn, OnItsWay
  <2>3. InOrder' BY <2>1, <2>2 DEF InOrder
  <2>4. Between' \/ Written' BY <2>1, <2>2 DEF Between, Written, Ahead, Current
  <2> QED BY <1>4, <2>1, <2>3, <2>4 DEF InTurn
<1>12. CASE Break
  <2>1. dropped' = dropped BY <1>12 DEF Break, readerVars
  <2> QED BY <1>3, <1>4, <1>12, <2>1, BreakInTurn
<1>13. CASE UNCHANGED vars
  BY <1>4, <1>13 DEF vars, writerVars, readerVars, InTurn, InOrder, Between, OnItsWay,
     Written, Ahead, Current
<1> QED
  BY <1>5, <1>6, <1>7, <1>8, <1>9, <1>10, <1>11, <1>12, <1>13 DEF Next, Writes, Reads

-----------------------------------------------------------------------------
(* Induction.  The library states it for an operator; here it is for a     *)
(* set, from the least element that a set of numbers has.                  *)

Below == {p \in Nat \X Nat : p[1] < p[2]}

LEMMA Founded == IsWellFoundedOn(Below, Nat)
<1>1. Below = OpToRel(<, Nat) BY DEF Below, OpToRel
<1> QED BY <1>1, NatLessThanWellFounded, Zenon

LEMMA Induction ==
  ASSUME NEW S, 0 \in S, \A n \in Nat : n \in S => n + 1 \in S
  PROVE  Nat \subseteq S
<1> SUFFICES ASSUME Nat \ S # {} PROVE FALSE OBVIOUS
<1>1. PICK x \in Nat \ S : \A y \in Nat \ S : <<y, x>> \notin Below
  BY Founded, WFMin, Zenon
<1>2. x # 0 /\ x - 1 \in Nat /\ (x - 1) + 1 = x BY <1>1
<1>3. <<x - 1, x>> \in Below BY <1>1, <1>2 DEF Below
<1>4. x - 1 \in S BY <1>1, <1>2, <1>3
<1> QED BY <1>1, <1>2, <1>4

-----------------------------------------------------------------------------
(* What FlattenSeq of the community modules makes of pieces p: f is the    *)
(* sequence of what the first piece, the first two, ... make.              *)

Running(f, p, n) ==
  f = [i \in 1 .. n |-> IF i = 1 THEN p[i] ELSE f[i - 1] \o p[i]]

LEMMA RunningExists ==
  ASSUME NEW p, NEW m \in Nat
  PROVE  \E f : Running(f, p, m)
<1> DEFINE S == {n \in Nat : \E f : Running(f, p, n)}
<1>1. 0 \in S
  <2>1. Running([i \in 1 .. 0 |-> p], p, 0) BY DEF Running
  <2> QED BY <2>1
<1>2. ASSUME NEW n \in Nat, n \in S PROVE n + 1 \in S
  <2>1. PICK f : Running(f, p, n) BY <1>2
  <2> DEFINE x == IF n + 1 = 1 THEN p[1] ELSE f[n] \o p[n + 1]
             g == [i \in 1 .. (n + 1) |-> IF i = n + 1 THEN x ELSE f[i]]
  <2>2. \A i \in 1 .. n : f[i] = IF i = 1 THEN p[i] ELSE f[i - 1] \o p[i]
    BY <2>1 DEF Running
  <2>3. ASSUME NEW i \in 1 .. (n + 1)
        PROVE  g[i] = IF i = 1 THEN p[i] ELSE g[i - 1] \o p[i]
    <3>1. CASE i = n + 1
      <4>1. g[i] = x BY <3>1
      <4>2. CASE n = 0 BY <3>1, <4>1, <4>2
      <4>3. CASE n # 0
        <5>1. i # 1 /\ i - 1 = n /\ n \in 1 .. (n + 1) /\ n # n + 1 BY <3>1, <4>3
        <5>2. g[i - 1] = f[n] BY <5>1
        <5>3. x = IF n + 1 = 1 THEN p[1] ELSE f[n] \o p[n + 1] OBVIOUS
        <5>4. x = f[n] \o p[i]
          <6> HIDE DEF x
          <6>1. n + 1 # 1 BY <4>3
          <6> QED BY <3>1, <5>3, <6>1
        <5> HIDE DEF g, x
        <5> QED BY <4>1, <5>1, <5>2, <5>4
      <4> QED BY <4>2, <4>3
    <3>2. CASE i # n + 1
      <4>1. i \in 1 .. n /\ g[i] = f[i] BY <3>2
      <4>2. i # 1 => i - 1 \in 1 .. (n + 1) /\ i - 1 # n + 1 BY <4>1
      <4>3. i # 1 => g[i - 1] = f[i - 1] BY <4>2
      <4>4. f[i] = IF i = 1 THEN p[i] ELSE f[i - 1] \o p[i] BY <2>2, <4>1
      <4> HIDE DEF g
      <4> QED BY <4>1, <4>3, <4>4
    <3> QED BY <3>1, <3>2
  <2>4. g = [i \in 1 .. (n + 1) |-> g[i]] OBVIOUS
  <2> HIDE DEF g
  <2>5. Running(g, p, n + 1) BY <2>3, <2>4 DEF Running
  <2> QED BY <2>5
<1> HIDE DEF S
<1>3. Nat \subseteq S BY <1>1, <1>2, Induction
<1> QED BY <1>3 DEF S

(* One sequence for all beginnings: where pieces agree, so does what they  *)
(* make; and what byte sequences make is one.                              *)
LEMMA RunningSame ==
  ASSUME NEW B, NEW p, NEW q, NEW k \in Nat,
         \A i \in 1 .. k : p[i] = q[i] /\ p[i] \in Seq(B),
         NEW f, NEW g, Running(f, p, k), Running(g, q, k + 1)
  PROVE  \A i \in 1 .. k : f[i] = g[i] /\ f[i] \in Seq(B)
<1> DEFINE S == {j \in Nat : j \in 1 .. k => f[j] = g[j] /\ f[j] \in Seq(B)}
<1>1. 0 \in S OBVIOUS
<1>2. ASSUME NEW j \in Nat, j \in S PROVE j + 1 \in S
  <2>1. SUFFICES ASSUME j + 1 \in 1 .. k
                 PROVE  f[j + 1] = g[j + 1] /\ f[j + 1] \in Seq(B)
    OBVIOUS
  <2>2. j + 1 \in 1 .. k /\ j + 1 \in 1 .. (k + 1) BY <2>1
  <2>3. /\ f[j + 1] = IF j + 1 = 1 THEN p[j + 1] ELSE f[(j + 1) - 1] \o p[j + 1]
        /\ g[j + 1] = IF j + 1 = 1 THEN q[j + 1] ELSE g[(j + 1) - 1] \o q[j + 1]
    BY <2>2 DEF Running
  <2>4. p[j + 1] = q[j + 1] /\ p[j + 1] \in Seq(B) BY <2>1
  <2>5. CASE j = 0 BY <2>3, <2>4, <2>5
  <2>6. CASE j # 0
    <3>1. /\ j \in 1 .. k /\ (j + 1) - 1 = j /\ j + 1 # 1 BY <2>1, <2>6
    <3>2. f[j] = g[j] /\ f[j] \in Seq(B) BY <1>2, <3>1
    <3>3. f[j] \o p[j + 1] \in Seq(B) BY <2>4, <3>2, ConcatProperties
    <3> QED BY <2>3, <2>4, <3>1, <3>2, <3>3
  <2> QED BY <2>5, <2>6
<1> HIDE DEF S
<1>3. Nat \subseteq S BY <1>1, <1>2, Induction
<1> QED BY <1>3 DEF S

LEMMA FlatRuns ==
  ASSUME NEW B, NEW p \in Seq(Seq(B)), Len(p) # 0
  PROVE  \E f : Running(f, p, Len(p)) /\ FlattenSeq(p) = f[Len(p)]
<1> DEFINE f == CHOOSE f : f = [i \in 1 .. Len(p) |-> IF i = 1 THEN p[i] ELSE f[i - 1] \o p[i]]
<1>1. Len(p) \in Nat BY LenProperties
<1>2. \E g : g = [i \in 1 .. Len(p) |-> IF i = 1 THEN p[i] ELSE g[i - 1] \o p[i]]
  BY <1>1, RunningExists DEF Running
<1>3. f = [i \in 1 .. Len(p) |-> IF i = 1 THEN p[i] ELSE f[i - 1] \o p[i]] BY <1>2, Zenon
<1>4. FlattenSeq(p) = f[Len(p)] BY DEF FlattenSeq
<1> HIDE DEF f
<1> QED BY <1>3, <1>4 DEF Running

LEMMA FlatEmpty == FlattenSeq(<<>>) = <<>>
BY DEF FlattenSeq

(* One piece more is appended to what the others make. *)
LEMMA FlatAppend ==
  ASSUME NEW B, NEW p \in Seq(Seq(B)), NEW x \in Seq(B)
  PROVE  FlattenSeq(p) \in Seq(B) /\ FlattenSeq(Append(p, x)) = FlattenSeq(p) \o x
<1> DEFINE T == Seq(B)
<1>1. p \in Seq(T) /\ x \in T OBVIOUS
<1> HIDE DEF T
<1>2. PICK n \in Nat : n = Len(p) BY <1>1, LenProperties
<1>3. PICK q : q = Append(p, x) OBVIOUS
<1>8. /\ q \in Seq(T) /\ Len(q) = n + 1 /\ q[n + 1] = x
      /\ \A i \in 1 .. n : q[i] = p[i] /\ p[i] \in T
  <2>1. Append(p, x) \in Seq(T) BY <1>1, AppendProperties
  <2>2. Len(Append(p, x)) = Len(p) + 1 BY <1>1, AppendProperties
  <2>3. Append(p, x)[Len(p) + 1] = x BY <1>1, AppendProperties
  <2>4. \A i \in 1 .. Len(p) : Append(p, x)[i] = p[i] BY <1>1, AppendProperties
  <2>5. \A i \in 1 .. Len(p) : p[i] \in T BY <1>1, ElementOfSeq
  <2> QED BY <1>2, <1>3, <2>1, <2>2, <2>3, <2>4, <2>5
<1>4. PICK g : Running(g, q, n + 1) /\ FlattenSeq(q) = g[n + 1]
  <2>1. q \in Seq(Seq(B)) BY <1>8 DEF T
  <2>2. Len(q) # 0 /\ Len(q) = n + 1 BY <1>8
  <2> QED BY <2>1, <2>2, FlatRuns
<1>5. g[n + 1] = IF n + 1 = 1 THEN q[n + 1] ELSE g[(n + 1) - 1] \o q[n + 1]
  <2>1. n + 1 \in 1 .. (n + 1) OBVIOUS
  <2> QED BY <1>4, <2>1 DEF Running
<1>6. CASE n = 0
  <2>1. p = <<>> BY <1>1, <1>2, <1>6, EmptySeq
  <2>2. FlattenSeq(p) = <<>> BY <2>1, FlatEmpty
  <2>3. FlattenSeq(q) = x BY <1>8, <1>4, <1>5, <1>6
  <2>4. <<>> \o x = x /\ <<>> \in Seq(B) BY ConcatEmptySeq, EmptySeq
  <2> QED BY <1>3, <2>2, <2>3, <2>4
<1>7. CASE n # 0
  <2>1. PICK f : Running(f, p, n) /\ FlattenSeq(p) = f[n]
    BY <1>2, <1>7, FlatRuns
  <2>2. n <= n + 1 /\ n <= n /\ n \in 1 .. n /\ n + 1 # 1 /\ (n + 1) - 1 = n
    BY <1>7
  <2>3. \A i \in 1 .. n : p[i] = q[i] /\ p[i] \in Seq(B) BY <1>8 DEF T
  <2>4. \A i \in 1 .. n : f[i] = g[i] /\ f[i] \in Seq(B)
    <3>1. Running(f, p, n) BY <2>1
    <3>2. Running(g, q, n + 1) BY <1>4
    <3> QED BY <2>3, <3>1, <3>2, RunningSame, Zenon
  <2>5. f[n] = g[n] /\ f[n] \in Seq(B) BY <2>2, <2>4
  <2> QED BY <1>3, <1>8, <1>4, <1>5, <2>1, <2>2, <2>5
<1> QED BY <1>6, <1>7

(* The first k pieces make a beginning of what all make. *)
LEMMA FlatBeginning ==
  ASSUME NEW B, NEW p \in Seq(Seq(B)), NEW k \in 0 .. Len(p)
  PROVE  /\ SubSeq(p, 1, k) \in Seq(Seq(B))
         /\ k < Len(p) => SubSeq(p, 1, k + 1) = Append(SubSeq(p, 1, k), p[k + 1])
         /\ \E u \in Seq(B) : FlattenSeq(p) = FlattenSeq(SubSeq(p, 1, k)) \o u
<1> DEFINE T == Seq(B)
<1>1. p \in Seq(T) OBVIOUS
<1> HIDE DEF T
<1>2. PICK n \in Nat : n = Len(p) BY <1>1, LenProperties
<1>3. \A i \in 1 .. n : p[i] \in T BY <1>1, <1>2, ElementOfSeq
<1>4. ASSUME NEW j \in 0 .. n
      PROVE  /\ SubSeq(p, 1, j) \in Seq(T)
             /\ j < n => SubSeq(p, 1, j + 1) = Append(SubSeq(p, 1, j), p[j + 1])
  <2>1. 1 \in Int /\ j \in Int /\ \A i \in 1 .. j : p[i] \in T BY <1>3
  <2>2. SubSeq(p, 1, j) \in Seq(T) BY <2>1, SubSeqProperties
  <2>3. ASSUME j < n
        PROVE  SubSeq(p, 1, j + 1) = Append(SubSeq(p, 1, j), p[j + 1])
    <3>1. 1 \in 1 .. n /\ j + 1 \in 1 .. n /\ (j + 1) - 1 = j BY <2>3
    <3>2. SubSeq(p, 1, j + 1) = SubSeq(p, 1, (j + 1) - 1) \o <<p[j + 1]>>
      BY <1>1, <1>2, <3>1, SubSeqRecursiveSecond
    <3>3. p[j + 1] \in T BY <1>3, <3>1
    <3>4. Append(SubSeq(p, 1, j), p[j + 1]) = SubSeq(p, 1, j) \o <<p[j + 1]>>
      BY <2>2, <3>3, AppendIsConcat
    <3> QED BY <3>1, <3>2, <3>4
  <2> QED BY <2>2, <2>3
<1> DEFINE F(j) == FlattenSeq(SubSeq(p, 1, j))
           S == {j \in Nat : k + j <= n => \E u \in T : F(k + j) = F(k) \o u}
<1>5. ASSUME NEW j \in 0 .. n PROVE F(j) \in T /\ (j < n => F(j + 1) = F(j) \o p[j + 1])
  <2>1. SubSeq(p, 1, j) \in Seq(Seq(B)) BY <1>4 DEF T
  <2>2. FlattenSeq(SubSeq(p, 1, j)) \in Seq(B) BY <2>1, EmptySeq, FlatAppend
  <2>3. ASSUME j < n PROVE F(j + 1) = F(j) \o p[j + 1]
    <3>1. p[j + 1] \in Seq(B) BY <1>3, <2>3 DEF T
    <3>2. FlattenSeq(Append(SubSeq(p, 1, j), p[j + 1]))
            = FlattenSeq(SubSeq(p, 1, j)) \o p[j + 1]
      BY <2>1, <3>1, FlatAppend
    <3> QED BY <1>4, <2>3, <3>2
  <2> QED BY <2>2, <2>3 DEF T
<1> HIDE DEF F
<1>6. 0 \in S
  <2>1. k \in 0 .. n /\ k + 0 = k BY <1>2
  <2>2. F(k) \in T /\ <<>> \in T BY <1>5, <2>1, EmptySeq DEF T
  <2>3. F(k + 0) = F(k) \o <<>> BY <2>1, <2>2, ConcatEmptySeq DEF T
  <2> QED BY <2>2, <2>3
<1>7. ASSUME NEW j \in Nat, j \in S PROVE j + 1 \in S
  <2>1. SUFFICES ASSUME k + (j + 1) <= n
                 PROVE  \E u \in T : F(k + (j + 1)) = F(k) \o u
    <3>1. j + 1 \in Nat OBVIOUS
    <3> QED BY <3>1
  <2>2. /\ k + j \in 0 .. n /\ k + j < n /\ k + (j + 1) = (k + j) + 1
        /\ k \in 0 .. n /\ (k + j) + 1 \in 1 .. n
    BY <1>2, <2>1
  <2>3. PICK u \in T : F(k + j) = F(k) \o u
    <3>1. k + j <= n BY <2>2
    <3>2. k + j <= n => \E u \in T : F(k + j) = F(k) \o u BY <1>7
    <3> QED BY <3>1, <3>2
  <2>4. F(k + (j + 1)) = (F(k) \o u) \o p[(k + j) + 1] BY <1>5, <2>2, <2>3
  <2>5. p[(k + j) + 1] \in T /\ F(k) \in T BY <1>3, <1>5, <2>2
  <2>6. /\ u \o p[(k + j) + 1] \in T
        /\ (F(k) \o u) \o p[(k + j) + 1] = F(k) \o (u \o p[(k + j) + 1])
    <3>1. PICK v : v = p[(k + j) + 1] OBVIOUS
    <3>2. PICK w : w = F(k) OBVIOUS
    <3>3. u \in Seq(B) /\ v \in Seq(B) /\ w \in Seq(B) BY <2>5, <3>1, <3>2 DEF T
    <3>4. u \o v \in Seq(B) BY <3>3, ConcatProperties
    <3>5. (w \o u) \o v = w \o (u \o v) BY <3>3, ConcatAssociative
    <3> QED BY <3>1, <3>2, <3>4, <3>5 DEF T
  <2> QED BY <2>4, <2>6
<1> HIDE DEF S
<1>8. Nat \subseteq S BY <1>6, <1>7, Induction
<1>9. \E u \in Seq(B) : FlattenSeq(p) = FlattenSeq(SubSeq(p, 1, k)) \o u
  <2>1. n - k \in Nat /\ k + (n - k) = n BY <1>2
  <2>2. n - k \in S BY <1>8, <2>1
  <2>3. \E u \in T : F(k + (n - k)) = F(k) \o u
    <3>1. k + (n - k) <= n => \E u \in T : F(k + (n - k)) = F(k) \o u
      BY <2>2, Zenon DEF S
    <3>2. k + (n - k) <= n BY <2>1
    <3> QED BY <3>1, <3>2
  <2>4. F(n) = FlattenSeq(p) BY <1>1, <1>2, SubSeqFull DEF F
  <2>5. F(k) = FlattenSeq(SubSeq(p, 1, k)) BY DEF F
  <2> QED BY <2>1, <2>3, <2>4, <2>5 DEF T
<1> QED BY <1>2, <1>4, <1>9 DEF T

-----------------------------------------------------------------------------
(* While nothing was dropped, what was read and what is on its way are,    *)
(* one behind the other, what the writes gave to the kernel, or a          *)
(* beginning of it when the connection has broken; or has closed, for a    *)
(* read of lines that has ended.                                           *)

Intact == mode = "line" => dropped = 0

Link == IF mode = "line" /\ connection # "open" THEN "broken" ELSE connection

Given ==
  FlattenSeq(SubSeq(messages, 1, written)) \o
    (IF writer = "idle" THEN <<>> ELSE SubSeq(Data, 1, total_consumed))

Got == FlattenSeq(handed) \o buffer

Carried(g, s, c) ==
  /\ \E u \in Seq(Bytes) : g = s \o u
  /\ c # "broken" => g = s

FullBuffers ==
  mode = "upload" =>
    /\ Len(buffer) < BufferSize
    /\ \A i \in 1 .. Len(handed) :
         Len(handed[i]) = BufferSize \/ (i = Len(handed) /\ reader = "ended")

Stream ==
  /\ FullBuffers
  /\ writer # "idle" => total_consumed <= Len(Data)
  /\ mode = "line" => InOrder
  /\ Carried(Given, Got \o wire, Link)

BInv == Intact => Stream

LEMMA CarriedLess ==
  ASSUME NEW g \in Seq(Bytes), NEW t \in Seq(Bytes), NEW v \in Seq(Bytes), NEW c, NEW d,
         Carried(g, t \o v, c), d # "broken" => c # "broken" /\ v = <<>>
  PROVE  Carried(g, t, d)
<1>1. PICK u \in Seq(Bytes) : g = (t \o v) \o u BY DEF Carried
<1>2. v \o u \in Seq(Bytes) /\ g = t \o (v \o u)
  <2>1. v \o u \in Seq(Bytes) BY ConcatProperties
  <2>2. (t \o v) \o u = t \o (v \o u) BY ConcatAssociative
  <2> QED BY <1>1, <2>1, <2>2
<1>3. d # "broken" => g = t
  <2>1. t \o <<>> = t BY ConcatEmptySeq
  <2> QED BY <2>1 DEF Carried
<1> QED BY <1>2, <1>3 DEF Carried

LEMMA CarriedMore ==
  ASSUME NEW g \in Seq(Bytes), NEW s \in Seq(Bytes), NEW v \in Seq(Bytes), NEW c, NEW d,
         Carried(g, s, c), c # "broken"
  PROVE  Carried(g \o v, s \o v, d)
<1>1. g = s BY DEF Carried
<1>2. s \o v \in Seq(Bytes) BY ConcatProperties
<1>3. (s \o v) \o <<>> = s \o v /\ <<>> \in Seq(Bytes) BY <1>2, ConcatEmptySeq, EmptySeq
<1> QED BY <1>1, <1>3 DEF Carried

LEMMA Flat ==
  ASSUME NEW p \in Seq(Seq(Bytes))
  PROVE  FlattenSeq(p) \in Seq(Bytes)
<1>1. <<>> \in Seq(Bytes) BY EmptySeq
<1> QED BY <1>1, FlatAppend

LEMMA GivenGot ==
  ASSUME TInv
  PROVE  /\ FlattenSeq(handed) \in Seq(Bytes) /\ FlattenSeq(messages) \in Seq(Bytes)
         /\ SubSeq(messages, 1, written) \in Seq(Seq(Bytes))
         /\ FlattenSeq(SubSeq(messages, 1, written)) \in Seq(Bytes)
         /\ buffer \in Seq(Bytes) /\ wire \in Seq(Bytes)
         /\ Got \in Seq(Bytes) /\ Got \o wire \in Seq(Bytes)
         /\ writer # "idle" => Data \in Seq(Bytes) /\ Len(Data) \in Nat
<1>1. handed \in Seq(Seq(Bytes)) /\ buffer \in Seq(Bytes) /\ wire \in Seq(Bytes)
  BY DEF TInv, ConnectionTypeOK
<1>2. messages \in Seq(Seq(Bytes)) /\ written \in 0 .. Len(messages)
  BY Messages DEF TInv, ConnectionTypeOK
<1>3. FlattenSeq(handed) \in Seq(Bytes) BY <1>1, Flat
<1>4. FlattenSeq(messages) \in Seq(Bytes) BY <1>2, Flat
<1>5. SubSeq(messages, 1, written) \in Seq(Seq(Bytes)) BY <1>2, FlatBeginning
<1>6. FlattenSeq(SubSeq(messages, 1, written)) \in Seq(Bytes) BY <1>5, Flat
<1>7. Got \in Seq(Bytes) BY <1>1, <1>3, ConcatProperties DEF Got
<1>8. Got \o wire \in Seq(Bytes) BY <1>1, <1>7, ConcatProperties
<1>9. ASSUME writer # "idle" PROVE Data \in Seq(Bytes) /\ Len(Data) \in Nat
  <2>1. written + 1 \in 1 .. Len(messages)
    <3>1. Len(messages) \in Nat BY <1>2, LenProperties
    <3> QED BY <1>2, <1>9, <3>1 DEF TInv, Begun
  <2>2. Data \in Seq(Bytes) BY <1>2, <2>1, ElementOfSeq DEF Data
  <2> QED BY <2>2, LenProperties
<1> QED BY <1>1, <1>3, <1>4, <1>5, <1>6, <1>7, <1>8, <1>9

LEMMA GivenSeq ==
  ASSUME TInv, writer # "idle" => total_consumed <= Len(Data)
  PROVE  Given \in Seq(Bytes)
<1>1. PICK p \in Seq(Bytes) : p = FlattenSeq(SubSeq(messages, 1, written)) BY GivenGot
<1>2. CASE writer = "idle"
  <2>1. p \o <<>> = p BY ConcatEmptySeq
  <2> QED BY <1>1, <1>2, <2>1 DEF Given
<1>3. CASE writer # "idle"
  <2>1. Data \in Seq(Bytes) /\ Len(Data) \in Nat BY <1>3, GivenGot
  <2>2. total_consumed \in 0 .. Len(Data) BY <1>3, <2>1 DEF TInv, ConnectionTypeOK
  <2>3. SubSeq(Data, 1, total_consumed) \in Seq(Bytes) BY <2>1, <2>2, Beginning
  <2>4. Given = p \o SubSeq(Data, 1, total_consumed) BY <1>1, <1>3 DEF Given
  <2> QED BY <2>3, <2>4, ConcatProperties
<1> QED BY <1>2, <1>3

LEMMA InitStream == ASSUME Init, TInv PROVE Stream
<1>1. /\ written = 0 /\ writer = "idle" /\ wire = <<>> /\ buffer = <<>> /\ handed = <<>>
  BY DEF Init
<1>2. FullBuffers
  <2>1. Len(<<>>) = 0 BY EmptySeq
  <2>2. BufferSize > 0 BY ComposedAssumption
  <2> QED BY <1>1, <2>1, <2>2 DEF FullBuffers
<1>3. Given = <<>>
  <2>1. SubSeq(messages, 1, 0) = <<>> BY SubSeqEmpty
  <2> QED BY <1>1, <2>1, FlatEmpty, ConcatEmptySeq, EmptySeq DEF Given
<1>4. Got \o wire = <<>> BY <1>1, FlatEmpty, ConcatEmptySeq, EmptySeq DEF Got
<1>5. Carried(<<>>, <<>>, Link)
  <2>1. <<>> \in Seq(Bytes) /\ <<>> \o <<>> = <<>> BY EmptySeq, ConcatEmptySeq
  <2> QED BY <2>1 DEF Carried
<1>6. mode = "line" => InOrder
  <2>1. Len(messages) \in Nat BY Messages, LenProperties DEF TInv
  <2>2. Len(<<>>) = 0 OBVIOUS
  <2> QED BY <1>1, <2>1, <2>2 DEF InOrder
<1> QED BY <1>1, <1>2, <1>3, <1>4, <1>5, <1>6 DEF Stream

LEMMA WriteStream == ASSUME TInv, Stream, write PROVE Stream'
<1>1. /\ writer = "idle" /\ writer' = "writing" /\ total_consumed' = 0
      /\ UNCHANGED <<mode, messages, written, wire, connection, reader, buffer, handed>>
  BY DEF write, readerVars
<1>2. FullBuffers' BY <1>1 DEF Stream, FullBuffers
<1>3. total_consumed' <= Len(Data')
  <2>1. messages \in Seq(Seq(Bytes)) /\ Len(messages) \in Nat
    BY Messages, LenProperties DEF TInv
  <2>2. written + 1 \in 1 .. Len(messages) BY <2>1 DEF write, TInv, ConnectionTypeOK
  <2>3. messages[written + 1] \in Seq(Bytes) BY <2>1, <2>2, ElementOfSeq
  <2>4. Len(messages[written + 1]) \in Nat BY <2>3, LenProperties
  <2> QED BY <1>1, <2>4 DEF Data
<1>4. PICK p \in Seq(Bytes) : p = FlattenSeq(SubSeq(messages, 1, written)) BY GivenGot
<1>5. Given' = Given
  <2>1. Given = p \o <<>> BY <1>1, <1>4 DEF Given
  <2>2. SubSeq(Data', 1, 0) = <<>> BY SubSeqEmpty
  <2>3. Given' = p \o SubSeq(Data', 1, 0) BY <1>1, <1>4 DEF Given
  <2> QED BY <2>1, <2>2, <2>3
<1>6. (Got \o wire)' = Got \o wire BY <1>1 DEF Got
<1>7. Carried(Given', (Got \o wire)', Link')
  <2>1. Carried(Given, Got \o wire, Link) BY DEF Stream
  <2>2. Link' = Link BY <1>1 DEF Link
  <2> QED BY <1>5, <1>6, <2>1, <2>2
<1>8. mode' = "line" => InOrder' BY <1>1 DEF Stream, InOrder
<1> QED BY <1>2, <1>3, <1>7, <1>8 DEF Stream

LEMMA Associative ==
  \A x, y, z \in Seq(Bytes) : (x \o y) \o z = x \o (y \o z)
<1> SUFFICES ASSUME NEW x \in Seq(Bytes), NEW y \in Seq(Bytes), NEW z \in Seq(Bytes)
             PROVE  (x \o y) \o z = x \o (y \o z)
  OBVIOUS
<1> QED BY ConcatAssociative

LEMMA WriteSomeStream ==
  ASSUME TInv, Stream, NEW n \in 1 .. MaxTransfer, write_some(n)
  PROVE  Stream'
<1>1. /\ writer = "writing" /\ connection = "open" /\ n <= Len(Data) - total_consumed
      /\ wire' = wire \o SubSeq(Data, total_consumed + 1, total_consumed + n)
      /\ total_consumed' = total_consumed + n
      /\ IF total_consumed' >= Len(Data)
         THEN writer' = "idle" /\ written' = written + 1
         ELSE UNCHANGED <<writer, written>>
      /\ UNCHANGED <<mode, messages, connection, reader, buffer, handed>>
  BY DEF write_some, readerVars
<1>2. n \in Nat /\ total_consumed \in Nat /\ Data \in Seq(Bytes) /\ Len(Data) \in Nat
  BY <1>1, GivenGot, ComposedAssumption DEF TInv, ConnectionTypeOK
<1>3. FullBuffers' BY <1>1 DEF Stream, FullBuffers
<1>4. writer' # "idle" => total_consumed' <= Len(Data')
  BY <1>1, <1>2 DEF Data
<1>5. PICK c \in Seq(Bytes) : c = SubSeq(Data, 1, total_consumed)
  <2>1. total_consumed \in 0 .. Len(Data) BY <1>1, <1>2
  <2> QED BY <1>2, <2>1, Beginning
<1>6. PICK v \in Seq(Bytes) : v = SubSeq(Data, total_consumed + 1, total_consumed + n)
  <2>1. total_consumed + n <= Len(Data) BY <1>1, <1>2
  <2> QED BY <1>2, <2>1, Middle
<1>7. c \o v = SubSeq(Data, 1, total_consumed + n)
  <2>1. /\ 1 \in 1 .. (Len(Data) + 1) /\ total_consumed \in (1 - 1) .. Len(Data)
        /\ total_consumed + n \in total_consumed .. Len(Data)
    BY <1>1, <1>2
  <2> QED BY <1>2, <1>5, <1>6, <2>1, ConcatAdjacentSubSeq
<1>8. PICK p \in Seq(Bytes) : p = FlattenSeq(SubSeq(messages, 1, written)) BY GivenGot
<1>9. Given = p \o c BY <1>1, <1>5, <1>8 DEF Given
<1>10. (p \o c) \o v = p \o (c \o v) BY ConcatAssociative
<1>11. Given' = Given \o v
  <2>1. CASE total_consumed' >= Len(Data)
    <3>1. writer' = "idle" /\ written' = written + 1 /\ messages' = messages BY <1>1, <2>1
    <3>2. c \o v = Data
      <4>1. total_consumed + n = Len(Data) BY <1>1, <1>2, <2>1
      <4> QED BY <1>2, <1>7, <4>1, SubSeqFull
    <3>3. FlattenSeq(SubSeq(messages, 1, written + 1)) = p \o Data
      <4>1. messages \in Seq(Seq(Bytes)) BY Messages DEF TInv
      <4>2. written \in 0 .. Len(messages) /\ written < Len(messages)
        BY <1>1 DEF TInv, ConnectionTypeOK, Begun
      <4>3. SubSeq(messages, 1, written + 1) = Append(SubSeq(messages, 1, written), Data)
        BY <4>1, <4>2, FlatBeginning DEF Data
      <4>4. SubSeq(messages, 1, written) \in Seq(Seq(Bytes)) BY GivenGot
      <4>5. FlattenSeq(Append(SubSeq(messages, 1, written), Data))
              = FlattenSeq(SubSeq(messages, 1, written)) \o Data
        BY <1>2, <4>4, FlatAppend
      <4> QED BY <1>8, <4>3, <4>5
    <3>4. Given' = (p \o Data) \o <<>> BY <3>1, <3>3 DEF Given
    <3>5. p \o Data \in Seq(Bytes) BY <1>2, ConcatProperties
    <3>6. (p \o Data) \o <<>> = p \o Data BY <3>5, ConcatEmptySeq
    <3> QED BY <1>9, <1>10, <3>2, <3>4, <3>6
  <2>2. CASE ~(total_consumed' >= Len(Data))
    <3>1. /\ writer' = "writing" /\ written' = written /\ messages' = messages
          /\ total_consumed' = total_consumed + n
      BY <1>1, <2>2
    <3>2. Data' = Data BY <3>1 DEF Data
    <3>3. Given' = p \o SubSeq(Data, 1, total_consumed + n)
      BY <1>8, <3>1, <3>2 DEF Given
    <3> QED BY <1>7, <1>9, <1>10, <3>3
  <2> QED BY <2>1, <2>2
<1>12. Got \in Seq(Bytes) /\ wire \in Seq(Bytes) /\ Got \o wire \in Seq(Bytes) BY GivenGot
<1>13. (Got \o wire)' = (Got \o wire) \o v
  <2>1. (Got \o wire)' = Got \o (wire \o v) BY <1>1, <1>6 DEF Got
  <2>2. \A a, b \in Seq(Bytes) : (a \o b) \o v = a \o (b \o v) BY <1>6, Associative
  <2> QED BY <1>12, <2>1, <2>2
<1>14. Given \in Seq(Bytes) BY <1>9, ConcatProperties
<1>15. Carried(Given, Got \o wire, Link) BY DEF Stream
<1>16. Carried(Given \o v, (Got \o wire) \o v, Link')
  <2>1. Link # "broken" BY <1>1 DEF Link
  <2> QED BY <1>12, <1>14, <1>15, <2>1, CarriedMore
<1>17. mode' = "line" => InOrder' BY <1>1 DEF Stream, InOrder
<1> QED BY <1>3, <1>4, <1>11, <1>13, <1>16, <1>17 DEF Stream

LEMMA Moved ==
  ASSUME NEW h \in Seq(Bytes), NEW b \in Seq(Bytes), NEW v \in Seq(Bytes), NEW w \in Seq(Bytes)
  PROVE  (h \o (b \o v)) \o w = (h \o b) \o (v \o w)
<1>1. h \o (b \o v) = (h \o b) \o v BY ConcatAssociative
<1>2. h \o b \in Seq(Bytes) BY ConcatProperties
<1>3. ((h \o b) \o v) \o w = (h \o b) \o (v \o w) BY <1>2, ConcatAssociative
<1> QED BY <1>1, <1>3

LEMMA Cut ==
  ASSUME NEW w \in Seq(Bytes), NEW n \in 0 .. Len(w)
  PROVE  /\ SubSeq(w, 1, n) \in Seq(Bytes) /\ SubSeq(w, n + 1, Len(w)) \in Seq(Bytes)
         /\ w = SubSeq(w, 1, n) \o SubSeq(w, n + 1, Len(w))
<1>1. Len(w) \in Nat BY LenProperties
<1>2. /\ 1 \in 1 .. (Len(w) + 1) /\ n \in (1 - 1) .. Len(w) /\ Len(w) \in n .. Len(w)
  BY <1>1
<1>3. SubSeq(w, 1, n) \o SubSeq(w, n + 1, Len(w)) = SubSeq(w, 1, Len(w))
  BY <1>2, ConcatAdjacentSubSeq
<1>4. SubSeq(w, 1, Len(w)) = w BY SubSeqFull
<1>5. SubSeq(w, 1, n) \in Seq(Bytes) BY Beginning
<1>6. SubSeq(w, n + 1, Len(w)) \in Seq(Bytes) BY Rest
<1>7. w = SubSeq(w, 1, n) \o SubSeq(w, n + 1, Len(w)) BY <1>3, <1>4, Zenon
<1> QED BY <1>5, <1>6, <1>7

(* A read_some moves the first n bytes that have arrived to the buffer, or *)
(* hands them over with what was there.                                    *)
Moves(n) ==
  /\ n <= Len(wire) /\ wire' = SubSeq(wire, n + 1, Len(wire)) /\ reader = "reading"
  /\ \/ handed' = Append(handed, Take(n)) /\ buffer' = <<>>
     \/ buffer' = Take(n) /\ handed' = handed
  /\ UNCHANGED <<mode, messages, written, writer, total_consumed, connection, reader>>

LEMMA MovesCarried ==
  ASSUME TInv, Stream, NEW n \in 1 .. MaxTransfer, Moves(n)
  PROVE  /\ writer' # "idle" => total_consumed' <= Len(Data')
         /\ Carried(Given', (Got \o wire)', Link')
<1>1. /\ n <= Len(wire) /\ wire' = SubSeq(wire, n + 1, Len(wire)) /\ reader = "reading"
      /\ \/ handed' = Append(handed, Take(n)) /\ buffer' = <<>>
         \/ buffer' = Take(n) /\ handed' = handed
      /\ UNCHANGED <<mode, messages, written, writer, total_consumed, connection, reader>>
  BY DEF Moves
<1>2. wire \in Seq(Bytes) /\ n \in 0 .. Len(wire) /\ buffer \in Seq(Bytes)
  BY <1>1, GivenGot, LenProperties, ComposedAssumption
<1>3. PICK v : v = SubSeq(wire, 1, n) OBVIOUS
<1>4. PICK w : w = SubSeq(wire, n + 1, Len(wire)) OBVIOUS
<1>5. v \in Seq(Bytes) /\ w \in Seq(Bytes) /\ wire = v \o w BY <1>2, <1>3, <1>4, Cut
<1>6. PICK h \in Seq(Bytes) : h = FlattenSeq(handed) BY GivenGot
<1>7. Take(n) = buffer \o v /\ buffer \o v \in Seq(Bytes)
  BY <1>2, <1>3, <1>5, ConcatProperties DEF Take
<1>8. h \o (buffer \o v) \in Seq(Bytes) BY <1>7, ConcatProperties
<1>9. Got' = h \o (buffer \o v)
  <2>1. CASE handed' = Append(handed, Take(n)) /\ buffer' = <<>>
    <3>1. handed \in Seq(Seq(Bytes)) BY DEF TInv, ConnectionTypeOK
    <3>2. FlattenSeq(handed') = h \o (buffer \o v)
      BY <1>6, <1>7, <2>1, <3>1, FlatAppend
    <3> QED BY <1>8, <2>1, <3>2, ConcatEmptySeq DEF Got
  <2>2. CASE buffer' = Take(n) /\ handed' = handed BY <1>6, <1>7, <2>2 DEF Got
  <2> QED BY <1>1, <2>1, <2>2
<1>10. (Got \o wire)' = Got \o wire
  <2>1. Got = h \o buffer BY <1>6 DEF Got
  <2>2. (h \o (buffer \o v)) \o w = (h \o buffer) \o (v \o w)
    <3>1. \A b, x, y \in Seq(Bytes) : (h \o (b \o x)) \o y = (h \o b) \o (x \o y) BY Moved
    <3> QED BY <1>2, <1>5, <3>1, Zenon
  <2>3. (Got \o wire)' = (h \o (buffer \o v)) \o w BY <1>1, <1>4, <1>9
  <2> QED BY <1>5, <2>1, <2>2, <2>3
<1>11. Given' = Given BY <1>1 DEF Given, Data
<1>12. writer' # "idle" => total_consumed' <= Len(Data') BY <1>1 DEF Stream, Data
<1>13. Carried(Given', (Got \o wire)', Link')
  <2>1. Carried(Given, Got \o wire, Link) BY DEF Stream
  <2>2. Link' = Link BY <1>1 DEF Link
  <2> QED BY <1>10, <1>11, <2>1, <2>2
<1> QED BY <1>12, <1>13

LEMMA ReadStream ==
  ASSUME TInv, Stream, NEW n \in 1 .. MaxTransfer, read(n) \/ read_dynamic(n)
  PROVE  Stream'
<1>1. /\ n <= Len(wire) /\ reader = "reading"
      /\ UNCHANGED <<mode, reader>> /\ mode # "line"
  BY DEF read, read_dynamic, writerVars
<1>2. Moves(n) BY DEF read, read_dynamic, writerVars, Moves
<1>3. /\ writer' # "idle" => total_consumed' <= Len(Data')
      /\ Carried(Given', (Got \o wire)', Link')
  BY <1>2, MovesCarried
<1>4. wire \in Seq(Bytes) /\ n \in 0 .. Len(wire) /\ buffer \in Seq(Bytes)
  BY <1>1, GivenGot, LenProperties, ComposedAssumption
<1>5. Take(n) \in Seq(Bytes) /\ Len(Take(n)) = Len(buffer) + n
  BY <1>4, Joined DEF Take
<1>6. FullBuffers'
  <2>1. SUFFICES ASSUME mode = "upload" PROVE FullBuffers' BY <1>1 DEF FullBuffers
  <2>2. read(n) BY <2>1 DEF read_dynamic
  <2>3. /\ BufferSize \in Nat /\ BufferSize > 0 /\ n \in Nat /\ Len(buffer) \in Nat
        /\ Len(Take(n)) = Len(buffer) + n
    BY <1>4, <1>5, ComposedAssumption, LenProperties
  <2>4. \A i \in 1 .. Len(handed) : Len(handed[i]) = BufferSize
    BY <1>1, <2>1 DEF Stream, FullBuffers
  <2>5. CASE Len(Take(n)) >= BufferSize
    <3>0. /\ n <= BufferSize - Len(buffer)
          /\ handed' = Append(handed, Take(n)) /\ buffer' = <<>>
      BY <2>2, <2>5 DEF read
    <3>1. Len(Take(n)) = BufferSize
      <4>1. \A l, m, k, b \in Nat : l = k + m /\ m <= b - k /\ l >= b => l = b OBVIOUS
      <4>2. Len(Take(n)) \in Nat BY <1>5, LenProperties
      <4> QED BY <2>3, <2>5, <3>0, <4>1, <4>2
    <3>2. handed \in Seq(Seq(Bytes)) /\ Take(n) \in Seq(Bytes)
      BY <1>5 DEF TInv, ConnectionTypeOK
    <3>3. /\ Len(handed') = Len(handed) + 1 /\ handed'[Len(handed) + 1] = Take(n)
          /\ \A i \in 1 .. Len(handed) : handed'[i] = handed[i]
      <4>1. \A l \in Seq(Bytes) :
              /\ Len(Append(handed, l)) = Len(handed) + 1
              /\ Append(handed, l)[Len(handed) + 1] = l
              /\ \A i \in 1 .. Len(handed) : Append(handed, l)[i] = handed[i]
        BY <3>2, Handed
      <4> QED BY <3>0, <3>2, <4>1
    <3>4. Len(handed) \in Nat BY <3>2, LenProperties
    <3>5. \A i \in 1 .. (Len(handed) + 1) : i \in 1 .. Len(handed) \/ i = Len(handed) + 1
      BY <3>4
    <3>6. \A i \in 1 .. Len(handed') : Len(handed'[i]) = BufferSize
      BY <2>4, <3>1, <3>3, <3>5, Zenon
    <3>7. Len(buffer') < BufferSize BY <2>3, <3>0, EmptySeq
    <3> QED BY <3>6, <3>7 DEF FullBuffers
  <2>6. CASE ~(Len(Take(n)) >= BufferSize)
    <3>1. buffer' = Take(n) /\ handed' = handed BY <2>2, <2>6 DEF read
    <3>2. Len(buffer') < BufferSize BY <2>3, <2>6, <3>1
    <3> QED BY <2>4, <3>1, <3>2 DEF FullBuffers
  <2> QED BY <2>5, <2>6
<1> QED BY <1>1, <1>3, <1>6 DEF Stream

LEMMA ReadFailsStream == ASSUME TInv, Stream, read_fails PROVE Stream'
<1>1. /\ reader = "reading" /\ wire = <<>> /\ connection # "open"
      /\ reader' = "ended" /\ buffer' = <<>>
      /\ UNCHANGED <<mode, messages, written, writer, total_consumed, wire, connection>>
  BY DEF read_fails, writerVars
<1>2. \/ handed' = Append(handed, buffer)
      \/ /\ handed' = handed
         /\ ~(mode = "upload" /\ buffer # <<>>)
         /\ ~(mode = "listing" /\ connection = "closed")
  BY DEF read_fails
<1>3. handed \in Seq(Seq(Bytes)) /\ buffer \in Seq(Bytes) BY DEF TInv, ConnectionTypeOK
<1>4. PICK h \in Seq(Bytes) : h = FlattenSeq(handed) BY GivenGot
<1>5. Got \o wire = h \o buffer
  <2>1. h \o buffer \in Seq(Bytes) BY <1>3, ConcatProperties
  <2>2. (h \o buffer) \o <<>> = h \o buffer BY <2>1, ConcatEmptySeq
  <2> QED BY <1>1, <1>4, <2>2 DEF Got
<1>6. Given \in Seq(Bytes) BY GivenSeq DEF Stream
<1>7. Carried(Given, h \o buffer, Link) BY <1>5 DEF Stream
<1>8. Carried(Given, (Got \o wire)', Link)
  <2>1. CASE handed' = Append(handed, buffer)
    <3>1. FlattenSeq(handed') = h \o buffer BY <1>3, <1>4, <2>1, FlatAppend
    <3>2. h \o buffer \in Seq(Bytes) BY <1>3, ConcatProperties
    <3>3. (h \o buffer) \o <<>> = h \o buffer BY <3>2, ConcatEmptySeq
    <3>4. (Got \o wire)' = ((h \o buffer) \o <<>>) \o <<>> BY <1>1, <3>1 DEF Got
    <3> QED BY <1>7, <3>3, <3>4
  <2>2. CASE /\ handed' = handed
             /\ ~(mode = "upload" /\ buffer # <<>>)
             /\ ~(mode = "listing" /\ connection = "closed")
    <3>1. (Got \o wire)' = (h \o <<>>) \o <<>> BY <1>1, <1>4, <2>2 DEF Got
    <3>2. h \o <<>> = h BY ConcatEmptySeq
    <3>3. Link # "broken" => buffer = <<>>
      BY <1>1, <2>2 DEF TInv, ConnectionTypeOK, Link
    <3>4. Carried(Given, h, Link)
      BY <1>3, <1>6, <1>7, <3>3, CarriedLess
    <3> QED BY <3>1, <3>2, <3>4
  <2> QED BY <1>2, <2>1, <2>2
<1>9. FullBuffers'
  <2>1. SUFFICES ASSUME mode = "upload" PROVE FullBuffers' BY <1>1 DEF FullBuffers
  <2>2. \A i \in 1 .. Len(handed) : Len(handed[i]) = BufferSize
    BY <1>1, <2>1 DEF Stream, FullBuffers
  <2>3. Len(buffer') < BufferSize BY <1>1, EmptySeq, ComposedAssumption
  <2>4. CASE handed' = Append(handed, buffer)
    <3>1. /\ Len(handed') = Len(handed) + 1
          /\ \A i \in 1 .. Len(handed) : handed'[i] = handed[i]
      BY <1>3, <2>4, Handed
    <3>2. \A i \in 1 .. (Len(handed) + 1) : i \in 1 .. Len(handed) \/ i = Len(handed) + 1
      BY <1>3, LenProperties
    <3>3. \A i \in 1 .. Len(handed') : Len(handed'[i]) = BufferSize \/ i = Len(handed')
      BY <2>2, <3>1, <3>2, Zenon
    <3> QED BY <1>1, <2>3, <3>3 DEF FullBuffers
  <2>5. CASE handed' = handed BY <2>2, <2>3, <2>5 DEF FullBuffers
  <2> QED BY <1>2, <2>4, <2>5
<1>10. Given' = Given BY <1>1 DEF Given, Data
<1>11. writer' # "idle" => total_consumed' <= Len(Data') BY <1>1 DEF Stream, Data
<1>12. Link' = Link BY <1>1 DEF Link
<1>13. Carried(Given', (Got \o wire)', Link') BY <1>8, <1>10, <1>12
<1>14. mode' = "line" => InOrder'
  <2>1. mode = "line" => handed' = handed BY DEF read_fails
  <2> QED BY <1>1, <2>1 DEF Stream, InOrder
<1> QED BY <1>9, <1>11, <1>13, <1>14 DEF Stream

LEMMA BreakStream == ASSUME TInv, Stream, Break PROVE Stream'
<1>1. /\ connection' = "broken"
      /\ UNCHANGED <<mode, messages, written, writer, total_consumed, reader, buffer, handed>>
  BY DEF Break, writerVars, readerVars
<1>2. PICK n \in 0 .. Len(wire) : wire' = SubSeq(wire, 1, n) BY DEF Break
<1>3. Got \in Seq(Bytes) /\ wire \in Seq(Bytes) BY GivenGot
<1>4. PICK w : w = SubSeq(wire, n + 1, Len(wire)) OBVIOUS
<1>5. wire' \in Seq(Bytes) /\ w \in Seq(Bytes) /\ wire = wire' \o w
  BY <1>2, <1>3, <1>4, Cut
<1>6. PICK t : t = Got \o wire' OBVIOUS
<1>7. t \in Seq(Bytes) BY <1>3, <1>5, <1>6, ConcatProperties
<1>8. Got \o wire = t \o w
  <2>1. (Got \o wire') \o w = Got \o (wire' \o w) BY <1>3, <1>5, Associative
  <2> QED BY <1>5, <1>6, <2>1
<1>9. Given \in Seq(Bytes) BY GivenSeq DEF Stream
<1>10. Carried(Given, t \o w, Link) BY <1>8 DEF Stream
<1>11. Carried(Given, t, "broken") BY <1>5, <1>7, <1>9, <1>10, CarriedLess
<1>12. (Got \o wire)' = t BY <1>1, <1>6 DEF Got
<1>13. Given' = Given BY <1>1 DEF Given, Data
<1>14. FullBuffers' BY <1>1 DEF Stream, FullBuffers
<1>15. writer' # "idle" => total_consumed' <= Len(Data') BY <1>1 DEF Stream, Data
<1>16. Link' = "broken" BY <1>1 DEF Link
<1>17. mode' = "line" => InOrder' BY <1>1 DEF Stream, InOrder
<1> QED BY <1>11, <1>12, <1>13, <1>14, <1>15, <1>16, <1>17 DEF Stream

LEMMA StillStream ==
  ASSUME Stream, write_fails \/ Close \/ UNCHANGED vars
  PROVE  Stream'
<1>1. /\ connection # "broken" \/ connection' = "broken"
      /\ connection' = "open" => connection = "open"
      /\ writer = "idle" <=> writer' = "idle"
      /\ UNCHANGED <<mode, messages, written, total_consumed, wire, reader, buffer, handed>>
  BY DEF write_fails, Close, vars, writerVars, readerVars
<1>2. Given' = Given BY <1>1 DEF Given, Data
<1>3. (Got \o wire)' = Got \o wire BY <1>1 DEF Got
<1>4. FullBuffers' BY <1>1 DEF Stream, FullBuffers
<1>5. writer' # "idle" => total_consumed' <= Len(Data') BY <1>1 DEF Stream, Data
<1>6. Carried(Given, Got \o wire, Link')
  <2>1. Carried(Given, Got \o wire, Link) BY DEF Stream
  <2>2. Link' # "broken" => Link # "broken" BY <1>1 DEF Link
  <2> QED BY <2>1, <2>2 DEF Carried
<1>7. mode' = "line" => InOrder' BY <1>1 DEF Stream, InOrder
<1> QED BY <1>2, <1>3, <1>4, <1>5, <1>6, <1>7 DEF Stream

LEMMA PrefixOf ==
  ASSUME NEW s \in Seq(Bytes), NEW u \in Seq(Bytes)
  PROVE  IsPrefix(s, s \o u)
<1>1. Len(s) \in Nat /\ Len(u) \in Nat BY LenProperties
<1>2. Len(s \o u) = Len(s) + Len(u) BY ConcatProperties
<1>3. SubSeq(s, 1, Len(s)) = SubSeq(s \o u, 1, Len(s))
  <2>1. CASE Len(s) = 0
    <3>1. \A q : SubSeq(q, 1, 0) = <<>> BY SubSeqEmpty
    <3> QED BY <2>1, <3>1
  <2>2. CASE Len(s) # 0
    <3>1. 1 \in 1 .. Len(s) /\ Len(s) \in 1 .. Len(s) BY <1>1, <2>2
    <3> QED BY <3>1, SubSeqOfConcat1
  <2> QED BY <2>1, <2>2
<1> QED BY <1>1, <1>2, <1>3 DEF IsPrefix

(* What was given is a beginning of all messages, one behind the other.    *)
LEMMA GivenBegins ==
  ASSUME TInv, Stream
  PROVE  \E u \in Seq(Bytes) : FlattenSeq(messages) = Given \o u
<1>1. messages \in Seq(Seq(Bytes)) /\ written \in 0 .. Len(messages) /\ Len(messages) \in Nat
  BY Messages, LenProperties DEF TInv, ConnectionTypeOK
<1>2. PICK p \in Seq(Bytes) : p = FlattenSeq(SubSeq(messages, 1, written)) BY GivenGot
<1>3. CASE writer = "idle"
  <2>1. p \o <<>> = p BY ConcatEmptySeq
  <2>2. Given = p BY <1>2, <1>3, <2>1 DEF Given
  <2>3. \E u \in Seq(Bytes) : FlattenSeq(messages) = p \o u
    BY <1>1, <1>2, FlatBeginning
  <2> QED BY <2>2, <2>3
<1>4. CASE writer # "idle"
  <2>1. Data \in Seq(Bytes) /\ Len(Data) \in Nat BY <1>4, GivenGot
  <2>2. total_consumed \in 0 .. Len(Data) BY <1>4, <2>1 DEF Stream, TInv, ConnectionTypeOK
  <2>3. PICK c : c = SubSeq(Data, 1, total_consumed) OBVIOUS
  <2>4. PICK d : d = SubSeq(Data, total_consumed + 1, Len(Data)) OBVIOUS
  <2>5. c \in Seq(Bytes) /\ d \in Seq(Bytes) /\ Data = c \o d
    BY <2>1, <2>2, <2>3, <2>4, Cut
  <2>6. Given = p \o c BY <1>2, <1>4, <2>3 DEF Given
  <2>7. written < Len(messages) /\ written + 1 \in 0 .. Len(messages)
    BY <1>1, <1>4 DEF TInv, Begun
  <2>8. FlattenSeq(SubSeq(messages, 1, written + 1)) = p \o Data
    <3>1. SubSeq(messages, 1, written + 1) = Append(SubSeq(messages, 1, written), Data)
      BY <1>1, <2>7, FlatBeginning DEF Data
    <3>2. SubSeq(messages, 1, written) \in Seq(Seq(Bytes)) BY GivenGot
    <3>3. FlattenSeq(Append(SubSeq(messages, 1, written), Data))
            = FlattenSeq(SubSeq(messages, 1, written)) \o Data
      BY <2>1, <3>2, FlatAppend
    <3> QED BY <1>2, <3>1, <3>3
  <2>9. PICK u \in Seq(Bytes) : FlattenSeq(messages) = (p \o Data) \o u
    <3>1. \E u \in Seq(Bytes) :
            FlattenSeq(messages) = FlattenSeq(SubSeq(messages, 1, written + 1)) \o u
      BY <1>1, <2>7, FlatBeginning
    <3> QED BY <2>8, <3>1
  <2>10. p \o Data = (p \o c) \o d
    <3>1. (p \o c) \o d = p \o (c \o d) BY <2>5, ConcatAssociative
    <3> QED BY <2>5, <3>1
  <2>11. p \o c \in Seq(Bytes) BY <2>5, ConcatProperties
  <2>12. ((p \o c) \o d) \o u = (p \o c) \o (d \o u)
    <3>1. \A x, y, z \in Seq(Bytes) : (x \o y) \o z = x \o (y \o z) BY ConcatAssociative
    <3> QED BY <2>5, <2>9, <2>11, <3>1, Zenon
  <2>13. d \o u \in Seq(Bytes) BY <2>5, ConcatProperties
  <2>14. FlattenSeq(messages) = Given \o (d \o u) BY <2>6, <2>9, <2>10, <2>12
  <2> QED BY <2>13, <2>14
<1> QED BY <1>3, <1>4

LEMMA GotBegins ==
  ASSUME TInv, Stream
  PROVE  \E u \in Seq(Bytes) : FlattenSeq(messages) = (Got \o wire) \o u
<1>1. PICK g \in Seq(Bytes) : g = Got \o wire BY GivenGot
<1>2. PICK u \in Seq(Bytes) : Given = g \o u BY <1>1 DEF Stream, Carried
<1>3. PICK v \in Seq(Bytes) : FlattenSeq(messages) = Given \o v BY GivenBegins
<1>4. (g \o u) \o v = g \o (u \o v) /\ u \o v \in Seq(Bytes)
  BY ConcatAssociative, ConcatProperties
<1> QED BY <1>1, <1>2, <1>3, <1>4

LEMMA Cancelled ==
  ASSUME NEW h \in Seq(Bytes), NEW p \in Seq(Bytes), NEW q \in Seq(Bytes), h \o p = h \o q
  PROVE  p = q
<1>1. Len(h) \in Nat /\ Len(p) \in Nat /\ Len(q) \in Nat BY LenProperties
<1>2. /\ Len(h \o p) = Len(h) + Len(p) /\ Len(h \o q) = Len(h) + Len(q)
  BY ConcatProperties
<1>3. Len(p) = Len(q) BY <1>1, <1>2
<1>4. ASSUME NEW i \in 1 .. Len(p) PROVE p[i] = q[i]
  <2>1. (h \o p)[Len(h) + i] = p[i] /\ (h \o q)[Len(h) + i] = q[i]
    BY <1>1, <1>3, Behind
  <2> QED BY <2>1
<1> QED BY <1>3, <1>4, Same

(* Two lines that begin the same bytes are the same.                       *)
LEMMA ShorterLine ==
  ASSUME NEW p \in Seq(Bytes), NEW r \in Seq(Bytes), NEW q \in Seq(Bytes),
         NEW s \in Seq(Bytes), IsLine(p), IsLine(q), p \o r = q \o s, Len(p) <= Len(q)
  PROVE  p = q
<1>1. Len(p) \in Nat /\ Len(q) \in Nat /\ Len(Delim) \in Nat
  BY LenProperties, ComposedAssumption
<1>2. ASSUME NEW i \in 1 .. Len(p) PROVE p[i] = q[i]
  <2>1. i \in 1 .. Len(q) BY <1>1
  <2>2. (p \o r)[i] = p[i] /\ (q \o s)[i] = q[i] BY <2>1, Before
  <2> QED BY <2>2
<1>3. Len(p) >= Len(Delim) BY DEF IsLine
<1>4. PICK i \in Nat : i = Len(p) - Len(Delim)
  <2>1. Len(p) - Len(Delim) \in Nat BY <1>1, <1>3
  <2> QED BY <2>1
<1>5. i \in 0 .. (Len(p) - Len(Delim)) /\ i + Len(Delim) = Len(p) BY <1>1, <1>4
<1>6. Begins(p, i) BY <1>4, <1>5 DEF IsLine
<1>7. Full(p, i) BY <1>1, <1>5 DEF Full
<1>8. Len(p) = Len(q) BY <1>2, <1>6, <1>7, FoundAtEnd
<1> QED BY <1>2, <1>8, Same

LEMMA SameLine ==
  ASSUME NEW p \in Seq(Bytes), NEW r \in Seq(Bytes), NEW q \in Seq(Bytes),
         NEW s \in Seq(Bytes), IsLine(p), IsLine(q), p \o r = q \o s
  PROVE  p = q
<1>1. Len(p) \in Nat /\ Len(q) \in Nat BY LenProperties
<1>2. CASE Len(p) <= Len(q) BY <1>2, ShorterLine
<1>3. CASE ~(Len(p) <= Len(q))
  <2>1. Len(q) <= Len(p) BY <1>1, <1>3
  <2> QED BY <2>1, ShorterLine
<1> QED BY <1>2, <1>3

(* While all lines handed over are the first that were written, the next   *)
(* bytes of what was written that make a line are the next line.           *)
LEMMA NextLine ==
  ASSUME TInv, mode = "line", InOrder, NEW l \in Seq(Bytes), IsLine(l),
         NEW x \in Seq(Bytes), FlattenSeq(messages) = FlattenSeq(handed) \o (l \o x)
  PROVE  Len(handed) < Len(messages) /\ l = messages[Len(handed) + 1]
<1>1. /\ messages \in Seq(Seq(Bytes)) /\ Len(messages) \in Nat
      /\ handed \in Seq(Seq(Bytes)) /\ Len(handed) \in Nat
      /\ Len(handed) \in 0 .. Len(messages)
  BY Messages, LenProperties DEF TInv, ConnectionTypeOK, InOrder
<1>2. PICK k \in Nat : k = Len(handed) BY <1>1
<1>3. handed = SubSeq(messages, 1, k) BY <1>2, AsWritten
<1>4. PICK h \in Seq(Bytes) : h = FlattenSeq(handed) BY GivenGot
<1>5. l \o x \in Seq(Bytes) BY ConcatProperties
<1>6. k < Len(messages)
  <2>1. SUFFICES ASSUME k = Len(messages) PROVE FALSE BY <1>1, <1>2
  <2>2. handed = messages BY <1>1, <1>3, <2>1, SubSeqFull
  <2>3. h = h \o (l \o x) BY <1>4, <2>2
  <2>4. Len(h \o (l \o x)) = Len(h) + Len(l \o x) /\ Len(l \o x) = Len(l) + Len(x)
    BY <1>5, ConcatProperties
  <2>5. /\ Len(h) \in Nat /\ Len(l) \in Nat /\ Len(x) \in Nat /\ Len(Delim) \in Nat
        /\ Len(Delim) > 0 /\ Len(l) >= Len(Delim)
    BY LenProperties, ComposedAssumption, EmptySeq DEF IsLine
  <2>6. Len(h) = Len(h) + Len(l \o x) BY <2>3, <2>4
  <2>7. Len(h) = Len(h) + (Len(l) + Len(x)) BY <2>4, <2>6
  <2> QED BY <2>5, <2>7
<1>7. PICK m \in Seq(Bytes) : m = messages[k + 1] /\ IsLine(m)
  <2>1. k + 1 \in 1 .. Len(messages) BY <1>1, <1>6
  <2>2. messages[k + 1] \in Seq(Bytes) BY <1>1, <2>1, ElementOfSeq
  <2>3. IsLine(messages[k + 1]) BY <2>1, Messages DEF TInv
  <2> QED BY <2>2, <2>3
<1>8. SubSeq(messages, 1, k + 1) = Append(handed, m)
  <2>1. k \in 0 .. Len(messages) BY <1>1, <1>2
  <2> QED BY <1>1, <1>3, <1>6, <1>7, <2>1, FlatBeginning
<1>9. FlattenSeq(Append(handed, m)) = h \o m BY <1>1, <1>4, <1>7, FlatAppend
<1>10. PICK u \in Seq(Bytes) : FlattenSeq(messages) = (h \o m) \o u
  <2>1. k + 1 \in 0 .. Len(messages) BY <1>1, <1>6
  <2>2. \E u \in Seq(Bytes) :
          FlattenSeq(messages) = FlattenSeq(SubSeq(messages, 1, k + 1)) \o u
    BY <1>1, <2>1, FlatBeginning
  <2> QED BY <1>8, <1>9, <2>2
<1>11. h \o (l \o x) = h \o (m \o u)
  <2>1. (h \o m) \o u = h \o (m \o u) BY Associative
  <2> QED BY <1>4, <1>10, <2>1
<1>12. m \o u \in Seq(Bytes) BY <1>7, <1>10, ConcatProperties
<1>13. l \o x = m \o u BY <1>5, <1>11, <1>12, Cancelled
<1>14. l = m BY <1>7, <1>13, SameLine
<1> QED BY <1>2, <1>6, <1>7, <1>14

LEMMA ReadUntilStream ==
  ASSUME TInv, HistoryTypeOK, Searched, Stream, dropped = 0, dropped' = 0,
         NEW n \in 1 .. MaxTransfer, read_until(n)
  PROVE  Stream'
<1>1. /\ n <= Len(wire) /\ wire' = SubSeq(wire, n + 1, Len(wire)) /\ reader = "reading"
      /\ mode = "line" /\ mode' = "line"
      /\ UNCHANGED <<mode, messages, written, writer, total_consumed, connection, reader>>
  BY DEF read_until, writerVars
<1>2. PICK first \in search_position .. Len(Take(n)) :
        /\ partial_search(Take(n), search_position, first)
        /\ IF Full(Take(n), first)
           THEN /\ handed' = Append(handed, SubSeq(Take(n), 1, first + Len(Delim)))
                /\ dropped' = dropped + Len(Take(n)) - (first + Len(Delim))
                /\ buffer' = <<>>
           ELSE buffer' = Take(n) /\ handed' = handed
  BY DEF read_until
<1>3. /\ wire \in Seq(Bytes) /\ n \in 0 .. Len(wire) /\ buffer \in Seq(Bytes)
      /\ search_position \in Nat
  BY <1>1, GivenGot, LenProperties, ComposedAssumption DEF TInv, ConnectionTypeOK
<1>4. Take(n) \in Seq(Bytes) /\ Len(Take(n)) \in Nat
  BY <1>3, Joined, LenProperties DEF Take
<1>5. ASSUME Full(Take(n), first)
      PROVE  handed' = Append(handed, Take(n)) /\ buffer' = <<>> /\ IsLine(Take(n))
  <2>1. first + Len(Delim) = Len(Take(n))
    <3>1. first \in Nat /\ Len(Delim) \in Nat BY <1>3, LenProperties, ComposedAssumption
    <3>2. 0 = 0 + Len(Take(n)) - (first + Len(Delim)) BY <1>2, <1>5
    <3> QED BY <1>4, <3>1, <3>2
  <2>2. SubSeq(Take(n), 1, first + Len(Delim)) = Take(n) BY <1>4, <2>1, SubSeqFull
  <2>3. IsLine(SubSeq(Take(n), 1, first + Len(Delim))) BY <1>1, <1>2, <1>3, <1>5, FoundLine
  <2> QED BY <1>2, <1>5, <2>2, <2>3
<1>6. Moves(n)
  <2>1. \/ handed' = Append(handed, Take(n)) /\ buffer' = <<>>
        \/ buffer' = Take(n) /\ handed' = handed
    BY <1>2, <1>5
  <2> QED BY <1>1, <2>1 DEF Moves
<1>7. /\ writer' # "idle" => total_consumed' <= Len(Data')
      /\ Carried(Given', (Got \o wire)', Link')
  BY <1>6, MovesCarried
<1>8. InOrder BY <1>1 DEF Stream
<1>9. InOrder'
  <2>1. CASE ~Full(Take(n), first) BY <1>1, <1>2, <1>8, <2>1 DEF InOrder
  <2>2. CASE Full(Take(n), first)
    <3>1. PICK h \in Seq(Bytes) : h = FlattenSeq(handed) BY GivenGot
    <3>2. PICK v : v = SubSeq(wire, 1, n) OBVIOUS
    <3>3. PICK w : w = SubSeq(wire, n + 1, Len(wire)) OBVIOUS
    <3>4. v \in Seq(Bytes) /\ w \in Seq(Bytes) /\ wire = v \o w BY <1>3, <3>2, <3>3, Cut
    <3>5. Take(n) = buffer \o v BY <3>2 DEF Take
    <3>6. PICK u \in Seq(Bytes) : FlattenSeq(messages) = (Got \o wire) \o u BY GotBegins
    <3>7. Got \o wire = (h \o Take(n)) \o w
      <4>1. Got \o wire = (h \o buffer) \o (v \o w) BY <3>1, <3>4 DEF Got
      <4>2. (h \o (buffer \o v)) \o w = (h \o buffer) \o (v \o w)
        <5>1. \A b, x, y \in Seq(Bytes) : (h \o (b \o x)) \o y = (h \o b) \o (x \o y)
          BY Moved
        <5>2. buffer \in Seq(Bytes) BY <1>3
        <5>3. v \in Seq(Bytes) /\ w \in Seq(Bytes) BY <3>4
        <5> QED BY <5>1, <5>2, <5>3, Zenon
      <4>3. h \o (buffer \o v) = h \o Take(n) BY <3>5
      <4> QED BY <4>1, <4>2, <4>3
    <3>8. w \o u \in Seq(Bytes) BY <3>4, <3>6, ConcatProperties
    <3>9. FlattenSeq(messages) = FlattenSeq(handed) \o (Take(n) \o (w \o u))
      <4>1. h \o Take(n) \in Seq(Bytes) BY <1>4, <3>1, ConcatProperties
      <4>2. ((h \o Take(n)) \o w) \o u = (h \o Take(n)) \o (w \o u)
        BY <3>4, <3>6, <4>1, Associative
      <4>3. (h \o Take(n)) \o (w \o u) = h \o (Take(n) \o (w \o u))
        BY <1>4, <3>1, <3>8, Associative
      <4> QED BY <3>1, <3>6, <3>7, <4>2, <4>3
    <3>10. Len(handed) < Len(messages) /\ Take(n) = messages[Len(handed) + 1]
      BY <1>1, <1>4, <1>5, <1>8, <2>2, <3>8, <3>9, NextLine
    <3>11. /\ Len(handed') = Len(handed) + 1 /\ handed'[Len(handed) + 1] = Take(n)
           /\ \A i \in 1 .. Len(handed) : handed'[i] = handed[i]
      <4>1. handed \in Seq(Seq(Bytes)) /\ handed' = Append(handed, Take(n))
        BY <1>5, <2>2 DEF TInv, ConnectionTypeOK
      <4> QED BY <1>4, <4>1, Handed
    <3>12. Len(handed) \in Nat /\ Len(messages) \in Nat
      BY Messages, LenProperties DEF TInv, ConnectionTypeOK
    <3>13. Len(handed') <= Len(messages') BY <1>1, <3>10, <3>11, <3>12
    <3>14. \A i \in 1 .. (Len(handed) + 1) : i \in 1 .. Len(handed) \/ i = Len(handed) + 1
      BY <3>12
    <3>15. \A i \in 1 .. Len(handed') : handed'[i] = messages'[i]
      BY <1>1, <1>8, <3>10, <3>11, <3>14 DEF InOrder
    <3> QED BY <3>13, <3>15 DEF InOrder
  <2> QED BY <2>1, <2>2
<1> QED BY <1>1, <1>7, <1>9 DEF Stream, FullBuffers

LEMMA InitBInv == ASSUME Init, TInv PROVE BInv
BY InitStream DEF BInv

LEMMA NextBInv == ASSUME TInv, HistoryTypeOK, Searched, BInv, [Next]_vars PROVE BInv'
<1> SUFFICES ASSUME Intact' PROVE Stream' BY DEF BInv
<1>1. mode' = mode
  BY DEF Next, Writes, Reads, write, write_some, write_fails, read_until, read,
         read_dynamic, read_fails, Close, Break, vars
<1>2. ASSUME dropped' = dropped PROVE Stream
  BY <1>1, <1>2 DEF Intact, BInv
<1>3. CASE write
  <2>1. Stream BY <1>2, <1>3 DEF write, readerVars
  <2> QED BY <1>3, <2>1, WriteStream
<1>4. ASSUME NEW n \in 1 .. MaxTransfer, write_some(n) PROVE Stream'
  <2>1. Stream BY <1>2, <1>4 DEF write_some, readerVars
  <2> QED BY <1>4, <2>1, WriteSomeStream
<1>5. ASSUME NEW n \in 1 .. MaxTransfer, read_until(n) PROVE Stream'
  <2>1. mode = "line" BY <1>5 DEF read_until
  <2>2. dropped' = 0 BY <1>1, <2>1 DEF Intact
  <2>3. dropped = 0
    <3>1. PICK first \in search_position .. Len(Take(n)) :
            IF Full(Take(n), first)
            THEN dropped' = dropped + Len(Take(n)) - (first + Len(Delim))
            ELSE dropped' = dropped
      BY <1>5 DEF read_until
    <3>2. dropped \in Nat BY DEF HistoryTypeOK
    <3>3. Len(Take(n)) \in Nat /\ first \in Nat /\ Len(Delim) \in Nat
      <4>1. /\ wire \in Seq(Bytes) /\ n \in 0 .. Len(wire) /\ buffer \in Seq(Bytes)
            /\ search_position \in Nat
        BY <1>5, GivenGot, LenProperties, ComposedAssumption
           DEF read_until, TInv, ConnectionTypeOK
      <4>2. Take(n) \in Seq(Bytes) BY <4>1, Joined DEF Take
      <4>3. Len(Take(n)) \in Nat /\ Len(Delim) \in Nat
        BY <4>2, LenProperties, ComposedAssumption
      <4> QED BY <4>1, <4>3
    <3>4. CASE Full(Take(n), first)
      <4>1. first + Len(Delim) <= Len(Take(n)) BY <3>4 DEF Full
      <4>2. 0 = dropped + Len(Take(n)) - (first + Len(Delim)) BY <2>2, <3>1, <3>4
      <4>3. \A d, t, f, e \in Nat : f + e <= t /\ 0 = d + t - (f + e) => d = 0 OBVIOUS
      <4> QED BY <3>2, <3>3, <4>1, <4>2, <4>3
    <3>5. CASE ~Full(Take(n), first) BY <2>2, <3>1, <3>5
    <3> QED BY <3>4, <3>5
  <2>4. Stream BY <2>3 DEF Intact, BInv
  <2> QED BY <1>5, <2>2, <2>3, <2>4, ReadUntilStream
<1>6. ASSUME NEW n \in 1 .. MaxTransfer, read(n) \/ read_dynamic(n) PROVE Stream'
  <2>1. Stream BY <1>2, <1>6 DEF read, read_dynamic
  <2> QED BY <1>6, <2>1, ReadStream
<1>7. CASE read_fails
  <2>1. Stream BY <1>2, <1>7 DEF read_fails
  <2> QED BY <1>7, <2>1, ReadFailsStream
<1>8. CASE Break
  <2>1. Stream BY <1>2, <1>8 DEF Break, readerVars
  <2> QED BY <1>8, <2>1, BreakStream
<1>9. CASE write_fails \/ Close \/ UNCHANGED vars
  <2>1. Stream BY <1>2, <1>9 DEF write_fails, Close, vars, readerVars
  <2> QED BY <1>9, <2>1, StillStream
<1> QED BY <1>3, <1>4, <1>5, <1>6, <1>7, <1>8, <1>9 DEF Next, Writes, Reads

LEMMA ReadBegins ==
  ASSUME TInv, BInv
  PROVE  BuffersFull
<1>0. ASSUME mode # "line" PROVE Stream BY <1>0 DEF BInv, Intact
<1>1. ASSUME mode = "upload"
      PROVE  \A i \in DOMAIN handed :
               Len(handed[i]) = BufferSize \/ (i = Len(handed) /\ reader = "ended")
  <2>1. handed \in Seq(Seq(Bytes)) BY DEF TInv, ConnectionTypeOK
  <2>2. DOMAIN handed = 1 .. Len(handed) BY <2>1, LenProperties
  <2> SUFFICES ASSUME NEW i \in DOMAIN handed
               PROVE  Len(handed[i]) = BufferSize \/ (i = Len(handed) /\ reader = "ended")
    OBVIOUS
  <2>3. i \in 1 .. Len(handed) BY <2>2
  <2> QED BY <1>0, <1>1, <2>3 DEF Stream, FullBuffers
<1>2. ASSUME mode # "line"
      PROVE  IsPrefix(FlattenSeq(handed) \o buffer, FlattenSeq(messages))
  <2>1. PICK a \in Seq(Bytes) : a = FlattenSeq(handed) \o buffer BY GivenGot DEF Got
  <2>2. wire \in Seq(Bytes) BY GivenGot
  <2>3. Stream BY <1>0, <1>2
  <2>4. PICK u \in Seq(Bytes) : FlattenSeq(messages) = (a \o wire) \o u
    BY <2>1, <2>3, GotBegins DEF Got
  <2>5. (a \o wire) \o u = a \o (wire \o u) /\ wire \o u \in Seq(Bytes)
    BY <2>2, ConcatAssociative, ConcatProperties
  <2> QED BY <2>1, <2>4, <2>5, PrefixOf
<1> QED BY <1>1, <1>2 DEF BuffersFull

-----------------------------------------------------------------------------
(* The theorems.                                                           *)

(* The variables stay in their types; in particular the search never       *)
(* starts behind what has been read (impl/read_until.hpp).                 *)
THEOREM TypeCorrect == Spec => []TypeOK
<1>1. Init => TInv /\ HistoryTypeOK BY InitTInv, InitHistory
<1>2. TInv /\ HistoryTypeOK /\ [Next]_vars => (TInv /\ HistoryTypeOK)'
  BY NextTInv, NextHistory
<1>3. TInv /\ HistoryTypeOK => TypeOK BY DEF TInv, TypeOK
<1> QED BY <1>1, <1>2, <1>3, PTL DEF Spec

(* A read does not wait for more when its line is there, however the line  *)
(* was cut: impl/read_until.hpp searches on from where a delimiter may     *)
(* have begun.                                                             *)
THEOREM SearchSafe == Spec => []NoLineWaits
<1> DEFINE I == TInv /\ Searched /\ NoLineWaits
<1>1. Init => I BY InitTInv, InitSearched
<1>2. I /\ [Next]_vars => I' BY NextTInv, NextSearched
<1>3. I => NoLineWaits OBVIOUS
<1> QED BY <1>1, <1>2, <1>3, PTL DEF Spec

(* What a handler gets is a line, up to its first delimiter, whatever the  *)
(* short reads and writes of impl/write.hpp and impl/read_until.hpp and    *)
(* whatever FTPSession.cpp:139 or the string of recvFTPMsg drops behind    *)
(* another; until something is dropped it gets all lines, whole and in     *)
(* order; and nothing is dropped while a line is begun only when the one   *)
(* before was handed over.                                                 *)
THEOREM LinesSafe == Spec => []LinesArrive
<1> DEFINE I == TInv /\ HistoryTypeOK /\ Searched /\ NoLineWaits /\ Lined /\ LInv /\ BInv
<1>1. Init => I
  <2> SUFFICES ASSUME Init PROVE I OBVIOUS
  <2>1. TInv BY InitTInv
  <2>2. HistoryTypeOK /\ Lined
    <3>1. Len(<<>>) = 0 /\ handed = <<>> BY DEF Init
    <3>2. HistoryTypeOK BY InitHistory
    <3> QED BY <3>1, <3>2 DEF Lined
  <2> QED BY <2>1, <2>2, InitSearched, InitLInv, InitBInv
<1>2. I /\ [Next]_vars => I'
  <2> SUFFICES ASSUME I, [Next]_vars PROVE I' OBVIOUS
  <2> QED BY NextTInv, NextHistory, NextSearched, NextLined, NextLInv, NextBInv
<1>3. I => LinesArrive
  <2> SUFFICES ASSUME I, mode = "line" PROVE LinesArrive BY DEF LinesArrive
  <2>1. \A i \in DOMAIN handed : IsLine(handed[i])
    <3>1. DOMAIN handed = 1 .. Len(handed) BY LenProperties DEF TInv, ConnectionTypeOK
    <3> QED BY <3>1 DEF Lined
  <2>2. ASSUME dropped = 0
        PROVE  Len(handed) <= Len(messages) /\ handed = SubSeq(messages, 1, Len(handed))
    <3>1. InOrder BY <2>2 DEF BInv, Intact, Stream
    <3> QED BY <3>1, AsWritten DEF InOrder
  <2>3. ~crowded => dropped = 0 BY DEF LInv, Clear
  <2> QED BY <2>1, <2>2, <2>3 DEF LinesArrive
<1> QED BY <1>1, <1>2, <1>3, PTL DEF Spec

(* An upload is read in full buffers, the last excepted, and what was read *)
(* of an upload or a listing is a beginning of what was written, however   *)
(* impl/write.hpp and impl/read.hpp cut it and wherever it breaks.         *)
THEOREM UploadsSafe == Spec => []BuffersFull
<1> DEFINE I == TInv /\ HistoryTypeOK /\ Searched /\ NoLineWaits /\ BInv
<1>1. Init => I
  <2> SUFFICES ASSUME Init PROVE I OBVIOUS
  <2>1. TInv BY InitTInv
  <2>2. HistoryTypeOK BY InitHistory
  <2> QED BY <2>1, <2>2, InitSearched, InitBInv
<1>2. I /\ [Next]_vars => I'
  <2> SUFFICES ASSUME I, [Next]_vars PROVE I' OBVIOUS
  <2> QED BY NextTInv, NextHistory, NextSearched, NextBInv
<1>3. I => BuffersFull BY ReadBegins
<1> QED BY <1>1, <1>2, <1>3, PTL DEF Spec

=============================================================================
