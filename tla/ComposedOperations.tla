------------------------- MODULE ComposedOperations -------------------------
(***************************************************************************)
(* The operations that networking-ts-impl composes of several reads or     *)
(* writes of a socket, at the two ends of one connection.                  *)
(*                                                                         *)
(* A line of the control connection is written by impl/write.hpp, which    *)
(* goes on until all of it is written, and read by impl/read_until.hpp,    *)
(* which searches what has come so far for the delimiter and goes on with  *)
(* its search where a delimiter may have begun. The data of an upload or   *)
(* of a listing is written in the same way and read by impl/read.hpp: that *)
(* of an upload until a buffer is full (transfer_at_least its size), then  *)
(* into the next; a listing until the connection ends.                     *)
(*                                                                         *)
(* The kernel takes and gives any part of what it is offered. A line may   *)
(* be written when the write of the one before has completed: so           *)
(* startSendingMsgs writes the 226 of a transfer, whether or not the 150   *)
(* has been read. The other end keeps nothing of what came behind a line   *)
(* in the same read. The buffer of a line or a listing grows as it must:   *)
(* neither program sets a limit.                                           *)
(*                                                                         *)
(* crowded and dropped are history variables: no action asks for them.     *)
(***************************************************************************)
EXTENDS Naturals, Sequences, SequencesExt

CONSTANTS
  Bytes,       \* what messages are made of
  Delim,       \* the delimiter, \r\n in FTPSession and FTPClient
  Lines,       \* bound: the sequences of lines that may be written
  Blocks,      \* bound: the sequences of blocks of an upload or a listing
  MaxTransfer, \* default_max_transfer_size
  Room,        \* what the kernel holds
  BufferSize   \* of the buffers an upload is read into

(* Delim begins in b before position i + 1, as far as b goes. *)
Begins(b, i) ==
  \A k \in 1 .. Len(Delim) : i + k <= Len(b) => b[i + k] = Delim[k]

(* A line ends at the first delimiter in it. *)
IsLine(b) ==
  /\ Len(b) >= Len(Delim)
  /\ \A i \in 0 .. (Len(b) - Len(Delim)) :
       Begins(b, i) <=> i = Len(b) - Len(Delim)

ASSUME ComposedAssumption ==
  /\ Delim \in Seq(Bytes) \ {<<>>}
  /\ Lines \subseteq Seq({b \in Seq(Bytes) : IsLine(b)})
  /\ Blocks \subseteq Seq(Seq(Bytes) \ {<<>>})
  /\ MaxTransfer \in Nat \ {0} /\ Room \in Nat \ {0} /\ BufferSize \in Nat \ {0}

VARIABLES
  mode,            \* "line", "upload", "listing": what the connection is for
  messages,        \* what one end writes, one write for each
  written,         \* the number of writes that have completed
  writer,          \* "idle", "writing", "failed"
  total_consumed,  \* of the write's consuming_buffers
  wire,            \* the bytes in the kernel
  connection,      \* "open", "closed" by the writer, "broken"
  reader,          \* "reading", "ended"
  buffer,          \* what the read has got so far
  search_position, \* search_position_
  handed,          \* the lines or buffers given to the handlers, in order
  crowded,         \* a line was begun while one before was not handed over
  dropped          \* the bytes that were cleared behind a line

writerVars == <<messages, written, writer, total_consumed>>
readerVars == <<reader, buffer, search_position, handed, dropped>>
vars == <<mode, writerVars, crowded, wire, connection, readerVars>>

ConnectionTypeOK ==
  /\ mode \in {"line", "upload", "listing"}
  /\ messages \in (IF mode = "line" THEN Lines ELSE Blocks)
  /\ written \in 0 .. Len(messages)
  /\ writer \in {"idle", "writing", "failed"}
  /\ total_consumed \in Nat
  /\ wire \in Seq(Bytes)
  /\ connection \in {"open", "closed", "broken"}
  /\ reader \in {"reading", "ended"}
  /\ buffer \in Seq(Bytes)
  /\ search_position \in 0 .. Len(buffer)
  /\ handed \in Seq(Seq(Bytes))

HistoryTypeOK == crowded \in BOOLEAN /\ dropped \in Nat

TypeOK == ConnectionTypeOK /\ HistoryTypeOK

Init ==
  /\ \/ mode = "line" /\ messages \in Lines
     \/ mode \in {"upload", "listing"} /\ messages \in Blocks
  /\ written = 0
  /\ writer = "idle"
  /\ total_consumed = 0
  /\ wire = <<>>
  /\ connection = "open"
  /\ reader = "reading"
  /\ buffer = <<>>
  /\ search_position = 0
  /\ handed = <<>>
  /\ crowded = FALSE
  /\ dropped = 0

-----------------------------------------------------------------------------
(* Writes.                                                                 *)

(* What the write at hand is to write. *)
Data == messages[written + 1]

(* sendCmd, startSendingMsgs, sendData, writeDataToSocket.                 *)
write ==
  /\ writer = "idle" /\ connection # "closed"
  /\ written < Len(messages)
  /\ writer' = "writing"
  /\ total_consumed' = 0
  /\ crowded' = (crowded \/ (mode = "line" /\ Len(handed) # written))
  /\ UNCHANGED <<mode, messages, written, wire, connection, readerVars>>

(* Mutant: only the last write_some is counted. *)
ConsumeLast(n) ==
  /\ writer = "writing" /\ connection = "open"
  /\ n <= MaxTransfer /\ n <= Len(Data) - total_consumed /\ n <= Room - Len(wire)
  /\ wire' = wire \o SubSeq(Data, total_consumed + 1, total_consumed + n)
  /\ total_consumed' = n
  /\ IF total_consumed' >= Len(Data)
     THEN writer' = "idle" /\ written' = written + 1
     ELSE UNCHANGED <<writer, written>>
  /\ UNCHANGED <<mode, messages, crowded, connection, readerVars>>

(* One write_some: the kernel takes n bytes. *)
write_some(n) ==
  /\ writer = "writing" /\ connection = "open"
  /\ n <= MaxTransfer /\ n <= Len(Data) - total_consumed /\ n <= Room - Len(wire)
  /\ wire' = wire \o SubSeq(Data, total_consumed + 1, total_consumed + n)
  /\ total_consumed' = total_consumed + n
  /\ IF total_consumed' >= Len(Data)
     THEN writer' = "idle" /\ written' = written + 1
     ELSE UNCHANGED <<writer, written>>
  /\ UNCHANGED <<mode, messages, crowded, connection, readerVars>>

(* transfer_all ends the write at an error. *)
write_fails ==
  /\ writer = "writing" /\ connection = "broken"
  /\ writer' = "failed"
  /\ UNCHANGED <<mode, messages, written, total_consumed, crowded, wire, connection,
                 readerVars>>

-----------------------------------------------------------------------------
(* Reads.                                                                  *)

(* partial_search finds the first place, from start on, where the          *)
(* delimiter begins and is not contradicted by what follows, or else the   *)
(* end of b.                                                               *)
partial_search(b, start, first) ==
  /\ first \in start .. Len(b)
  /\ Begins(b, first)
  /\ \A i \in start .. (first - 1) : ~Begins(b, i)

(* The whole delimiter is there. *)
Full(b, first) == first + Len(Delim) <= Len(b)

Take(n) == buffer \o SubSeq(wire, 1, n)

(* Mutant: a delimiter that has only begun is forgotten. *)
ForgetPartial(n) ==
  /\ mode = "line" /\ reader = "reading"
  /\ n <= MaxTransfer /\ n <= Len(wire)
  /\ wire' = SubSeq(wire, n + 1, Len(wire))
  /\ \E first \in search_position .. Len(Take(n)) :
       /\ partial_search(Take(n), search_position, first)
       /\ IF Full(Take(n), first)
          THEN /\ handed' = Append(handed, SubSeq(Take(n), 1, first + Len(Delim)))
               /\ dropped' = dropped + Len(Take(n)) - (first + Len(Delim))
               /\ buffer' = <<>> /\ search_position' = 0
          ELSE /\ buffer' = Take(n) /\ search_position' = Len(buffer')
               /\ UNCHANGED <<handed, dropped>>
  /\ UNCHANGED <<mode, writerVars, crowded, connection, reader>>

(* One read_some of async_read_until, which goes on where the delimiter    *)
(* may have begun. Whoever reads takes the line and begins the next read   *)
(* with nothing, the session's handler as it clears cmdInputStr_, and      *)
(* recvFTPMsg with a string of its own: what came behind is dropped.       *)
read_until(n) ==
  /\ mode = "line" /\ reader = "reading"
  /\ n <= MaxTransfer /\ n <= Len(wire)
  /\ wire' = SubSeq(wire, n + 1, Len(wire))
  /\ \E first \in search_position .. Len(Take(n)) :
       /\ partial_search(Take(n), search_position, first)
       /\ IF Full(Take(n), first)
          THEN /\ handed' = Append(handed, SubSeq(Take(n), 1, first + Len(Delim)))
               /\ dropped' = dropped + Len(Take(n)) - (first + Len(Delim))
               /\ buffer' = <<>> /\ search_position' = 0
          ELSE /\ buffer' = Take(n) /\ search_position' = first
               /\ UNCHANGED <<handed, dropped>>
  /\ UNCHANGED <<mode, writerVars, crowded, connection, reader>>

(* Mutant: whatever the first read_some gives is handed over. *)
ReadSome(n) ==
  /\ mode = "upload" /\ reader = "reading"
  /\ n <= MaxTransfer /\ n <= Len(wire) /\ n <= BufferSize - Len(buffer)
  /\ wire' = SubSeq(wire, n + 1, Len(wire))
  /\ handed' = Append(handed, Take(n))
  /\ UNCHANGED <<mode, writerVars, crowded, connection, reader, buffer, search_position,
                 dropped>>

(* One read_some of async_read, which goes on until its buffer is full.    *)
(* receiveDataFromSocketAndWriteToFile then starts the next.               *)
read(n) ==
  /\ mode = "upload" /\ reader = "reading"
  /\ n <= MaxTransfer /\ n <= Len(wire) /\ n <= BufferSize - Len(buffer)
  /\ wire' = SubSeq(wire, n + 1, Len(wire))
  /\ IF Len(Take(n)) >= BufferSize
     THEN handed' = Append(handed, Take(n)) /\ buffer' = <<>>
     ELSE buffer' = Take(n) /\ UNCHANGED handed
  /\ UNCHANGED <<mode, writerVars, crowded, connection, reader, search_position, dropped>>

(* One read_some of recvListDir's read, which goes on until an error.      *)
read_dynamic(n) ==
  /\ mode = "listing" /\ reader = "reading"
  /\ n <= MaxTransfer /\ n <= Len(wire)
  /\ wire' = SubSeq(wire, n + 1, Len(wire))
  /\ buffer' = Take(n)
  /\ UNCHANGED <<mode, writerVars, crowded, connection, reader, search_position, handed,
                 dropped>>

(* A read_some that fails ends the read. Part of a line is dropped; what   *)
(* there is of an upload's buffer is handed over, and a listing that ended *)
(* with eof; recvListDir throws the other errors.                          *)
read_fails ==
  /\ reader = "reading" /\ wire = <<>> /\ connection # "open"
  /\ reader' = "ended"
  /\ buffer' = <<>> /\ search_position' = 0
  /\ IF \/ mode = "upload" /\ buffer # <<>>
        \/ mode = "listing" /\ connection = "closed"
     THEN handed' = Append(handed, buffer)
     ELSE UNCHANGED handed
  /\ UNCHANGED <<mode, writerVars, crowded, wire, connection, dropped>>

-----------------------------------------------------------------------------
(* The connection.                                                         *)

Close ==
  /\ connection = "open" /\ writer = "idle"
  /\ connection' = "closed"
  /\ UNCHANGED <<mode, writerVars, crowded, wire, readerVars>>

(* What has not arrived by then is lost. *)
Break ==
  /\ connection # "broken"
  /\ connection' = "broken"
  /\ \E n \in 0 .. Len(wire) : wire' = SubSeq(wire, 1, n)
  /\ UNCHANGED <<mode, writerVars, crowded, readerVars>>

Writes == write_fails \/ \E n \in 1 .. MaxTransfer : write_some(n)
Reads == read_fails \/ \E n \in 1 .. MaxTransfer : read_until(n) \/ read(n) \/ read_dynamic(n)
Next == write \/ Writes \/ Reads \/ Close \/ Break

Spec == Init /\ [][Next]_vars

(* The kernels carry what they are given; the io_context runs the          *)
(* operations again. Nobody need write or close.                           *)
FairSpec == Spec /\ WF_vars(Writes) /\ WF_vars(Reads)

-----------------------------------------------------------------------------
(* Properties.                                                             *)

(* However the network cuts the lines and whatever is dropped, what the    *)
(* handler gets ends at its first delimiter.  Until something is dropped   *)
(* it gets each line as it was written, from its first byte to its         *)
(* delimiter, and in order; and nothing is dropped while no line is begun  *)
(* before the one before was handed over.                                  *)
LinesArrive ==
  mode = "line" =>
    /\ \A i \in DOMAIN handed : IsLine(handed[i])
    /\ dropped = 0 => /\ Len(handed) <= Len(messages)
                      /\ handed = SubSeq(messages, 1, Len(handed))
    /\ ~crowded => dropped = 0

(* A read does not wait for more when its line is there: a delimiter that  *)
(* comes in two pieces is found although the search does not start again   *)
(* at the beginning.                                                       *)
NoLineWaits ==
  mode = "line" =>
    \A i \in 0 .. Len(buffer) : Full(buffer, i) => ~Begins(buffer, i)

(* An upload is read in full buffers, the last excepted; and what was read *)
(* of an upload or a listing is a beginning of what was written.           *)
BuffersFull ==
  /\ mode = "upload" =>
       \A i \in DOMAIN handed :
         Len(handed[i]) = BufferSize \/ (i = Len(handed) /\ reader = "ended")
  /\ mode # "line" => IsPrefix(FlattenSeq(handed) \o buffer, FlattenSeq(messages))

(* Unless the connection breaks, every write that was begun completes,     *)
(* every line that was written is handed over or something was dropped     *)
(* behind another, and the whole of an upload or a listing is handed over  *)
(* when its writer has closed.                                             *)
AllArrive ==
  /\ writer = "writing" ~> writer # "writing"
  /\ (mode = "line" /\ Len(handed) < written)
       ~> (Len(handed) = written \/ dropped > 0 \/ connection = "broken")
  /\ (mode # "line" /\ connection = "closed")
       ~> \/ connection = "broken"
          \/ FlattenSeq(handed) = FlattenSeq(SubSeq(messages, 1, written))

=============================================================================
