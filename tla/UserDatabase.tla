---------------------------- MODULE UserDatabase ----------------------------
(***************************************************************************)
(* The account table of the server (FTP-Server/UserDatabase.cpp): a map    *)
(* from user names to accounts plus one optional anonymous account.  Both  *)
(* operations hold mutex_ from their first to their last statement, so     *)
(* each is one atomic step for every thread that calls it.                 *)
(*                                                                         *)
(* An FTPUser is identified with the key it is filed under: accounts are   *)
(* never removed and their password is const, so a shared_ptr to one is as *)
(* good as its key.  All accounts of this program have the same root       *)
(* directory (the server's current directory), which is not kept here.     *)
(***************************************************************************)

CONSTANTS
  Names,           \* the user names clients send, the empty name among them
  AnonymousNames,  \* those that denote the anonymous user
  Passwords,       \* the passwords clients send
  Anonymous,       \* the key of the anonymous account
  NoPass,          \* stands for the password of an account that is absent
  NoUser           \* the null shared_ptr<FTPUser>

ASSUME NamesAssumption ==
  /\ AnonymousNames \subseteq Names
  /\ Anonymous \notin Names
  /\ NoUser \notin Names \cup {Anonymous}
  /\ NoPass \notin Passwords

VARIABLE userDb  \* account key -> password, NoPass while there is no account

Accounts == (Names \ AnonymousNames) \cup {Anonymous}

(* What an empty userDb_ and a null anonymousUser_ hold. *)
NoAccounts == [a \in Accounts |-> NoPass]

UserDbTypeOK == userDb \in [Accounts -> Passwords \cup {NoPass}]

isUsernameAnonymousUser(name) == name \in AnonymousNames

(* The entry a name is looked up in: anonymousUser_ or the map's own entry. *)
AccountOf(name) == IF isUsernameAnonymousUser(name) THEN Anonymous ELSE name

Exists(acct) == userDb[acct] # NoPass

(* Mutant: a named account is handed out whatever the password is. *)
getUserAnyPassword(name, password) ==
  IF Exists(AccountOf(name)) THEN AccountOf(name) ELSE NoUser

(* The account that name and password open, or NoUser.  The anonymous      *)
(* account, if there is one, is opened by any password.                    *)
getUser(name, password) ==
  IF /\ Exists(AccountOf(name))
     /\ isUsernameAnonymousUser(name) \/ userDb[name] = password
  THEN AccountOf(name)
  ELSE NoUser

(* Mutant: the look-up before the insertion is forgotten. *)
addUserOverwrites(name, password) ==
  userDb' = [userDb EXCEPT ![AccountOf(name)] = password]

(* The insertion of addUser, which leaves an account that exists alone... *)
addUser(name, password) ==
  userDb' = IF Exists(AccountOf(name))
            THEN userDb
            ELSE [userDb EXCEPT ![AccountOf(name)] = password]

(* ...and what it returns: the new account, or NoUser if the name is taken. *)
addUserResult(name) ==
  IF Exists(AccountOf(name)) THEN NoUser ELSE AccountOf(name)

=============================================================================
