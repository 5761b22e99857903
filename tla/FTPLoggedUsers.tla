--------------------------- MODULE FTPLoggedUsers ---------------------------
(***************************************************************************)
(* The registry of sessions the server announces comings and goings to     *)
(* (FTP-Server/FTPLoggedUsers.hpp).  join and leave each hold mutex_       *)
(* throughout, so each is one atomic step.  The set holds shared_ptrs: a   *)
(* session that is in it is kept alive by it.                              *)
(***************************************************************************)

CONSTANTS
  Sessions,  \* the client connections, each with its FTPSession object
  NoNews     \* stands for "nothing announced yet"

VARIABLES
  loggedUsers,  \* logged_users_
  news          \* the last broadcast: what it says and of whom

News == [what : {"in", "out"}, by : Sessions]

LoggedUsersTypeOK ==
  /\ loggedUsers \subseteq Sessions
  /\ news \in News \cup {NoNews}

(* The broadcast itself, to whoever is registered after the insertion or   *)
(* the erasure; its delivery to each of them is not modelled.              *)
sendMsgToAllClient(what, s) == news' = [what |-> what, by |-> s]

(* Mutant: the announcement is made and the insertion forgotten. *)
joinOnlyAnnounces(s) ==
  /\ loggedUsers' = loggedUsers
  /\ sendMsgToAllClient("in", s)

join(s) ==
  /\ loggedUsers' = loggedUsers \cup {s}
  /\ sendMsgToAllClient("in", s)

leave(s) ==
  /\ loggedUsers' = loggedUsers \ {s}
  /\ sendMsgToAllClient("out", s)

=============================================================================
