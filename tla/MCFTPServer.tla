---------------------------- MODULE MCFTPServer ----------------------------
(* Two clients and two commands, of which a NOTI announces itself once and *)
(* a QUIT twice: two announce at the same time, one of them may connect or *)
(* reconnect meanwhile, and a write may be cut, its rest written behind a  *)
(* later write or over another connection.                                 *)
EXTENDS FTPServer

CONSTANTS s1, s2

MCSessions == {s1, s2}

=============================================================================
