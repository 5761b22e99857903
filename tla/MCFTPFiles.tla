---------------------------- MODULE MCFTPFiles ----------------------------
(* One session and two files; the root directory of the accounts is h,     *)
(* with two names in it and directories nested in one of them only; i is   *)
(* behind h in the same directory, and g before it.  Every path in h is an *)
(* absolute parameter; b, "..", "", ../g and ../i are relative ones.       *)
EXTENDS FTPFiles

CONSTANTS s1, f, g

MCAlone == {s1}
MCContents == {f, g}
Absolute(paths) == {[abs |-> TRUE, names |-> p] : p \in paths}

Inside == {Root, <<"a">>, <<"b">>, <<"a", "b">>}
MCHome == <<"h">>
MCPaths == {Root, <<"i">>} \cup {MCHome \o p : p \in Inside}
MCNameOrder == {<<"g", "h">>, <<"g", "i">>, <<"h", "i">>, <<"a", "b">>}
MCParams ==
  Absolute(Inside) \cup {Up, Empty}
    \cup {[abs |-> FALSE, names |-> n] : n \in {<<"b">>, <<"..", "g">>, <<"..", "i">>}}

=============================================================================
