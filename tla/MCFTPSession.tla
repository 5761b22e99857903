---------------------------- MODULE MCFTPSession ----------------------------
(* Two sessions; one named account beside the test account; the empty name *)
(* for the anonymous ones.                                                 *)
EXTENDS FTPSession

CONSTANTS s1, s2, empty, test, bob, right, wrong

MCSessions == {s1, s2}
MCNames == {empty, test, bob}
MCAnonymousNames == {empty}
MCPasswords == {right, wrong}

=============================================================================
