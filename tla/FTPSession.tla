----------------------------- MODULE FTPSession -----------------------------
(***************************************************************************)
(* The control side of FTP-Server/FTPSession.cpp: who is logged in on each *)
(* connection, which command came last, and what every command does to the *)
(* account table and to the registry of sessions.                          *)
(*                                                                         *)
(* The handlers of one session run one at a time, in its msgWriteStrand_;  *)
(* the strands of different sessions run on different threads.  A command  *)
(* takes two steps here, between which other sessions move: the handler    *)
(* proper (handleFTPCmdXXX), and what handleFTPCmd does with its reply     *)
(* (Finish), which has the second of the two accesses to the registry.     *)
(*                                                                         *)
(* Commands that only need a login, and those that answer with a fixed     *)
(* reply, are told apart by nothing in this module and share one verb.     *)
(***************************************************************************)
EXTENDS UserDatabase, FTPLoggedUsers, Naturals

CONSTANTS
  EmptyName,     \* the empty user name, an anonymous one
  TestName,      \* the account main() creates before it starts the server
  TestPassword,
  NoArg,         \* the argument of a command other than PASS, not kept
  NoReply        \* while no command is being answered

ASSUME SessionAssumption ==
  /\ EmptyName \in AnonymousNames
  /\ TestName \in Names \ AnonymousNames
  /\ TestPassword \in Passwords

VARIABLES
  phase,        \* what the session is doing, see Phases
  cmd,          \* the command its strand is executing
  reply,        \* the code of the reply it has computed for that command
  sessionUser,  \* sessionUser_
  username,     \* username_
  lastCmd       \* lastCmd_, "other" for a verb the code never compares it to

sessionVars == <<sessionUser, username, lastCmd>>
vars == <<userDb, loggedUsers, news, phase, cmd, reply, sessionVars>>

(* "none": no connection yet; "reading": async_read_until is pending;      *)
(* "handled": the handler has returned, its reply not sent yet; "ended":   *)
(* after QUIT, nothing is read any more; "lost": the read has failed.      *)
Phases == {"none", "reading", "handled", "ended", "lost"}

(* "other" is any verb of cmdMap that the code never compares lastCmd_ to, *)
(* "unknown" any verb that is not in cmdMap.                               *)
Verbs == {"none", "USER", "UADD", "PASS", "QUIT", "other", "unknown"}

(* The reply codes; OK also stands for the fixed replies of the commands   *)
(* that do nothing and for whatever a command with a login answers.        *)
OK                      == 200
CLOSING_CONTROL         == 221
USER_LOGGED_IN          == 230
USER_NAME_OK            == 331
SYNTAX_ERROR_COMMAND    == 500
SYNTAX_ERROR_PARAMETERS == 501
BAD_SEQUENCE            == 503
NOT_LOGGED_IN           == 530

Codes == {OK, CLOSING_CONTROL, USER_LOGGED_IN, USER_NAME_OK,
          SYNTAX_ERROR_COMMAND, SYNTAX_ERROR_PARAMETERS, BAD_SEQUENCE,
          NOT_LOGGED_IN}

Commands == [verb : Verbs, arg : Passwords \cup {NoArg}]
NoCmd == [verb |-> "none", arg |-> NoArg]

TypeOK ==
  /\ UserDbTypeOK
  /\ LoggedUsersTypeOK
  /\ phase \in [Sessions -> Phases]
  /\ cmd \in [Sessions -> Commands]
  /\ reply \in [Sessions -> Codes \cup {NoReply}]
  /\ sessionUser \in [Sessions -> Accounts \cup {NoUser}]
  /\ username \in [Sessions -> Names]
  /\ lastCmd \in [Sessions -> Verbs]

Init ==
  /\ userDb = [NoAccounts EXCEPT ![TestName] = TestPassword]
  /\ loggedUsers = {}
  /\ news = NoNews
  /\ phase = [s \in Sessions |-> "none"]
  /\ cmd = [s \in Sessions |-> NoCmd]
  /\ reply = [s \in Sessions |-> NoReply]
  /\ sessionUser = [s \in Sessions |-> NoUser]
  /\ username = [s \in Sessions |-> EmptyName]
  /\ lastCmd = [s \in Sessions |-> "none"]

-----------------------------------------------------------------------------
(* The parts the handlers are made of.                                     *)

(* acceptSession and start(): greet the client and read its first command. *)
Start(s) ==
  /\ phase[s] = "none"
  /\ phase' = [phase EXCEPT ![s] = "reading"]
  /\ UNCHANGED <<userDb, loggedUsers, news, cmd, reply, sessionVars>>

(* The handler of a command that readFTPCmd delivers returns this code.    *)
Answer(s, verb, arg, code) ==
  /\ phase[s] = "reading"
  /\ phase' = [phase EXCEPT ![s] = "handled"]
  /\ cmd' = [cmd EXCEPT ![s] = [verb |-> verb, arg |-> arg]]
  /\ reply' = [reply EXCEPT ![s] = code]

SetUser(s, acct) == sessionUser' = [sessionUser EXCEPT ![s] = acct]

(* Mutant: the user of an earlier login stays. *)
NewNameKeepsUser(s, name) ==
  /\ username' = [username EXCEPT ![s] = name]
  /\ UNCHANGED sessionUser

(* The assignments USER and UADD have in common. *)
NewName(s, name) ==
  /\ SetUser(s, NoUser)
  /\ username' = [username EXCEPT ![s] = name]

NameReply(name) ==
  IF name = EmptyName THEN SYNTAX_ERROR_PARAMETERS ELSE USER_NAME_OK

-----------------------------------------------------------------------------
(* The handlers.                                                           *)

HandleUSER(s, name) ==
  /\ Answer(s, "USER", NoArg, NameReply(name))
  /\ NewName(s, name)
  /\ UNCHANGED <<userDb, loggedUsers, news, lastCmd>>

HandleUADD(s, name) ==
  /\ Answer(s, "UADD", NoArg, NameReply(name))
  /\ NewName(s, name)
  /\ UNCHANGED <<userDb, loggedUsers, news, lastCmd>>

(* PASS after USER: log in on an account that exists. *)
PassLogsIn(s, pass) ==
  LET user == getUser(username[s], pass) IN
  /\ lastCmd[s] = "USER"
  /\ IF user # NoUser
     THEN /\ Answer(s, "PASS", pass, USER_LOGGED_IN)
          /\ SetUser(s, user)
     ELSE /\ Answer(s, "PASS", pass, NOT_LOGGED_IN)
          /\ UNCHANGED sessionUser
  /\ UNCHANGED <<userDb, loggedUsers, news, username, lastCmd>>

(* Mutant: whoever asks for a name gets it, taken or not. *)
PassSignsUpOnTakenName(s, pass) ==
  /\ lastCmd[s] = "UADD"
  /\ addUser(username[s], pass)
  /\ Answer(s, "PASS", pass, USER_LOGGED_IN)
  /\ SetUser(s, AccountOf(username[s]))
  /\ join(s)
  /\ UNCHANGED <<username, lastCmd>>

(* PASS after UADD: create the account and log in on it. *)
PassSignsUp(s, pass) ==
  LET user == addUserResult(username[s]) IN
  /\ lastCmd[s] = "UADD"
  /\ addUser(username[s], pass)
  /\ IF user # NoUser
     THEN /\ Answer(s, "PASS", pass, USER_LOGGED_IN)
          /\ SetUser(s, user)
          /\ join(s)
     ELSE /\ Answer(s, "PASS", pass, NOT_LOGGED_IN)
          /\ UNCHANGED <<sessionUser, loggedUsers, news>>
  /\ UNCHANGED <<username, lastCmd>>

(* PASS after any other command. *)
PassOutOfSequence(s, pass) ==
  /\ lastCmd[s] \notin {"USER", "UADD"}
  /\ Answer(s, "PASS", pass, BAD_SEQUENCE)
  /\ UNCHANGED <<userDb, loggedUsers, news, sessionVars>>

HandlePASS(s, pass) ==
  \/ PassLogsIn(s, pass)
  \/ PassSignsUp(s, pass)
  \/ PassOutOfSequence(s, pass)

(* QUIT.  thisClientUploading_ is never true here: it is set and cleared   *)
(* within one handler of this same strand.                                 *)
HandleQUIT(s) ==
  /\ Answer(s, "QUIT", NoArg, CLOSING_CONTROL)
  /\ SetUser(s, NoUser)
  /\ leave(s)
  /\ UNCHANGED <<userDb, username, lastCmd>>

(* A command with a fixed reply: ACCT PORT STRU MODE STOU ALLO SITE REIN   *)
(* REST ABOR STAT HELP SYST NOOP.                                          *)
HandleFixed(s) ==
  /\ Answer(s, "other", NoArg, OK)
  /\ UNCHANGED <<userDb, loggedUsers, news, sessionVars>>

(* A command that needs a login; what it does is not this module's.        *)
HandleService(s) ==
  /\ Answer(s, "other", NoArg,
            IF sessionUser[s] = NoUser THEN NOT_LOGGED_IN ELSE OK)
  /\ UNCHANGED <<userDb, loggedUsers, news, sessionVars>>

(* A verb that cmdMap does not have. *)
HandleUnrecognized(s) ==
  /\ Answer(s, "unknown", NoArg, SYNTAX_ERROR_COMMAND)
  /\ UNCHANGED <<userDb, loggedUsers, news, sessionVars>>

(* Mutant: lastCmd_ is not brought up to date after a PASS. *)
RememberAllButPASS(s) ==
  lastCmd' = [lastCmd EXCEPT
                ![s] = IF cmd[s].verb = "PASS" THEN @ ELSE cmd[s].verb]

Remember(s) == lastCmd' = [lastCmd EXCEPT ![s] = cmd[s].verb]

(* What handleFTPCmd does once it has a reply: it sends it; if it knew the *)
(* verb, it registers the session and remembers the verb; and unless       *)
(* lastCmd_ is now QUIT it reads the next command.  (After QUIT the code   *)
(* makes a bound executor that would close the socket and drops it, so     *)
(* that nothing happens.)                                                  *)
Finish(s) ==
  /\ phase[s] = "handled"
  /\ IF cmd[s].verb = "unknown"
     THEN UNCHANGED <<loggedUsers, news, lastCmd>>
     ELSE join(s) /\ Remember(s)
  /\ phase' = [phase EXCEPT
                 ![s] = IF lastCmd'[s] = "QUIT" THEN "ended" ELSE "reading"]
  /\ cmd' = [cmd EXCEPT ![s] = NoCmd]
  /\ reply' = [reply EXCEPT ![s] = NoReply]
  /\ UNCHANGED <<userDb, sessionUser, username>>

(* The read completes with an error: the client is gone.  The handler      *)
(* only logs it.                                                           *)
ReadFails(s) ==
  /\ phase[s] = "reading"
  /\ phase' = [phase EXCEPT ![s] = "lost"]
  /\ UNCHANGED <<userDb, loggedUsers, news, cmd, reply, sessionVars>>

-----------------------------------------------------------------------------

Handle(s) ==
  \/ \E name \in Names : HandleUSER(s, name) \/ HandleUADD(s, name)
  \/ \E pass \in Passwords : HandlePASS(s, pass)
  \/ HandleQUIT(s)
  \/ HandleFixed(s)
  \/ HandleService(s)
  \/ HandleUnrecognized(s)

Next ==
  \E s \in Sessions : Start(s) \/ Handle(s) \/ Finish(s) \/ ReadFails(s)

Spec == Init /\ [][Next]_vars

-----------------------------------------------------------------------------
(* Properties.                                                             *)

(* A command is being executed that lastCmd_ will be set to... *)
Remembering(s) == phase[s] = "handled" /\ cmd[s].verb # "unknown"

(* ...and the verb the next PASS will be checked against. *)
LatestVerb(s) == IF Remembering(s) THEN cmd[s].verb ELSE lastCmd[s]

(* A session is logged in on the account its own username_ names, and that *)
(* account exists: no sequence of USER, UADD, PASS and foreign commands    *)
(* leaves sessionUser_ and username_ talking about different people.       *)
LoginMatchesName ==
  \A s \in Sessions : sessionUser[s] # NoUser =>
    /\ sessionUser[s] = AccountOf(username[s])
    /\ Exists(sessionUser[s])

(* While a session owes the password of a new name, it is nobody: the user *)
(* of an earlier login is gone by the time PASS can be accepted.           *)
NobodyUntilPassword ==
  \A s \in Sessions : LatestVerb(s) \in {"USER", "UADD"} => sessionUser[s] = NoUser

(* A PASS that was answered with 230 gave the password of the account the  *)
(* session is now on, unless that is the anonymous one, and it still does  *)
(* when the reply goes out, whatever other sessions did meanwhile.         *)
PasswordChecked ==
  \A s \in Sessions :
    phase[s] = "handled" /\ cmd[s].verb = "PASS" /\ reply[s] = USER_LOGGED_IN
      => /\ sessionUser[s] \in Accounts
         /\ sessionUser[s] # Anonymous =>
              userDb[sessionUser[s]] = cmd[s].arg

(* A session that is logged in is in the registry, so that it hears what   *)
(* the others do, except while the command is executed that will put it    *)
(* there: neither a foreign QUIT nor an unknown verb loses it.             *)
LoggedInIsRegistered ==
  \A s \in Sessions :
    sessionUser[s] # NoUser => s \in loggedUsers \/ Remembering(s)

(* An account, once there, keeps its password: signing up on a taken name  *)
(* never takes it over.                                                    *)
AccountsPermanent ==
  [][\A a \in Accounts : Exists(a) => userDb'[a] = userDb[a]]_vars

(* Two clients that sign up on the same name never both succeed: the 230   *)
(* of a sign-up goes to a session whose account did not exist before.      *)
SignUpIsFresh ==
  [][\A s \in Sessions :
       /\ phase[s] = "reading" /\ phase'[s] = "handled"
       /\ lastCmd[s] = "UADD" /\ reply'[s] = USER_LOGGED_IN
       => ~Exists(AccountOf(username[s]))]_vars

=============================================================================
