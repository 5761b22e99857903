---------------------------- MODULE MCFTPClient ----------------------------
(* Four commands: two transfers and a command between or after them.       *)
EXTENDS FTPClient

=============================================================================
