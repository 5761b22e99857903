--------------------------- MODULE MCDataReceive ---------------------------
(* Two sessions; s1 stores one buffer and, without waiting, appends two to *)
(* another file; s2 stores one to the file of s1, or to a file of its own. *)
EXTENDS DataReceive

CONSTANTS s1, s2, a, b, c, store1, append1, store2

MCSessions == {s1, s2}
MCUploads == {store1, append1, store2}
MCAppends == {append1}
MCOwner == [u \in MCUploads |-> IF u = store2 THEN s2 ELSE s1]
MCSize == [u \in MCUploads |-> IF u = append1 THEN 2 ELSE 1]

MCPaths == {a, b}
MCPath == [u \in MCUploads |-> IF u = append1 THEN b ELSE a]

MCOwnPaths == {a, b, c}
MCOwnPath ==
  [u \in MCUploads |-> IF u = append1 THEN b ELSE IF u = store1 THEN a ELSE c]

=============================================================================
