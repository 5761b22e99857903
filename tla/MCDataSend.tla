---------------------------- MODULE MCDataSend ----------------------------
(* A file of four full buffers, one of a single full buffer, so that there *)
(* are more buffers than reads in one and fewer in the other, and a         *)
(* listing.                                                                *)
EXTENDS DataSend

CONSTANTS big, small, list

MCBlocks(files) ==
  [t \in files |-> IF t = big THEN 4 ELSE 1]

(* One command after the other: both files and the listing. *)
MCTransfers == {big, small, list}
MCFiles == {big, small}
MCFilesBlocks == MCBlocks(MCFiles)

(* Commands that overlap: the short file and the listing. *)
MCShortTransfers == {small, list}
MCShortFiles == {small}
MCShortBlocks == MCBlocks(MCShortFiles)

=============================================================================
