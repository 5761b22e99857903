------------------------- MODULE FTPSession_proofs -------------------------
(***************************************************************************)
(* Proofs about FTPSession, for any sets of sessions, names and passwords: *)
(* its state invariants, by the inductive invariant IInv, and what a step  *)
(* may never do to the account table.                                      *)
(***************************************************************************)
EXTENDS FTPSession, TLAPS

(* The conjuncts of the inductive invariant; the session run checks each.  *)
IInv ==
  /\ TypeOK
  /\ LoginMatchesName
  /\ NobodyUntilPassword
  /\ LoggedInIsRegistered
  /\ PasswordChecked

(* AccountOf in UserDatabase: every name denotes one account, and the null *)
(* pointer is none of them.                                                *)
LEMMA AccountFacts ==
  /\ NoUser \notin Accounts
  /\ \A name \in Names : AccountOf(name) \in Accounts
  /\ \A name \in Names : AccountOf(name) # Anonymous =>
       AccountOf(name) = name /\ name \notin AnonymousNames
  /\ TestName \in Accounts
BY NamesAssumption, SessionAssumption
   DEF Accounts, AccountOf, isUsernameAnonymousUser

(* What addUser does to the table: no account changes or goes away, and    *)
(* the name has one afterwards, with this password if it had none before.  *)
LEMMA AddUserEffect ==
  ASSUME UserDbTypeOK, NEW name \in Names, NEW password \in Passwords,
         addUser(name, password)
  PROVE  /\ UserDbTypeOK'
         /\ \A a \in Accounts : Exists(a) => userDb'[a] = userDb[a]
         /\ userDb'[AccountOf(name)] # NoPass
         /\ ~Exists(AccountOf(name)) => userDb'[AccountOf(name)] = password
BY NamesAssumption, AccountFacts DEF UserDbTypeOK, addUser, Exists

(* getUser hands out an account that exists, and a named one only for its  *)
(* own password.                                                           *)
LEMMA GetUserResult ==
  ASSUME NEW name \in Names, NEW password \in Passwords,
         getUser(name, password) # NoUser
  PROVE  /\ getUser(name, password) = AccountOf(name)
         /\ Exists(AccountOf(name))
         /\ AccountOf(name) # Anonymous => userDb[AccountOf(name)] = password
BY AccountFacts DEF getUser, AccountOf, isUsernameAnonymousUser

-----------------------------------------------------------------------------

LEMMA InitIInv == Init => IInv
<1> SUFFICES ASSUME Init PROVE IInv
  OBVIOUS
<1>1. UserDbTypeOK
  BY SessionAssumption, AccountFacts DEF Init, UserDbTypeOK, NoAccounts
<1>2. cmd \in [Sessions -> Commands]
  BY DEF Init, NoCmd, Commands, Verbs
<1>3. TypeOK
  BY <1>1, <1>2, SessionAssumption, NamesAssumption
     DEF Init, TypeOK, LoggedUsersTypeOK, Phases, Verbs
<1>4. LoginMatchesName /\ NobodyUntilPassword /\ LoggedInIsRegistered
      /\ PasswordChecked
  BY DEF Init, LoginMatchesName, NobodyUntilPassword, LoggedInIsRegistered,
         PasswordChecked, LatestVerb, Remembering
<1> QED
  BY <1>3, <1>4 DEF IInv

(* What a handler leaves of its answer is of the right type. *)
LEMMA AnswerType ==
  ASSUME TypeOK, NEW s \in Sessions, NEW verb \in Verbs,
         NEW arg \in Passwords \cup {NoArg}, NEW code \in Codes,
         Answer(s, verb, arg, code)
  PROVE  /\ phase' \in [Sessions -> Phases]
         /\ cmd' \in [Sessions -> Commands]
         /\ reply' \in [Sessions -> Codes \cup {NoReply}]
<1>1. [verb |-> verb, arg |-> arg] \in Commands
  BY DEF Commands
<1> QED
  BY <1>1 DEF TypeOK, Answer, Phases

(* No step of any session, PASS included, breaks a type. *)
LEMMA StepTypeOK == TypeOK /\ [Next]_vars => TypeOK'
<1> SUFFICES ASSUME TypeOK, [Next]_vars PROVE TypeOK'
  OBVIOUS
<1> USE DEF UserDbTypeOK, LoggedUsersTypeOK, News
<1>c. /\ \A name \in Names : NameReply(name) \in Codes
      /\ {OK, CLOSING_CONTROL, USER_LOGGED_IN, SYNTAX_ERROR_COMMAND,
          BAD_SEQUENCE, NOT_LOGGED_IN} \subseteq Codes
  BY DEF NameReply, Codes
<1>v. {"USER", "UADD", "PASS", "QUIT", "other", "unknown"} \subseteq Verbs
  BY DEF Verbs
<1>1. ASSUME NEW s \in Sessions, Start(s) PROVE TypeOK'
  BY <1>1 DEF TypeOK, Start, sessionVars, Phases
<1>2. ASSUME NEW s \in Sessions, NEW name \in Names,
             HandleUSER(s, name) \/ HandleUADD(s, name)
      PROVE  TypeOK'
  <2>1. /\ phase' \in [Sessions -> Phases]
        /\ cmd' \in [Sessions -> Commands]
        /\ reply' \in [Sessions -> Codes \cup {NoReply}]
    BY <1>2, <1>c, <1>v, AnswerType DEF HandleUSER, HandleUADD
  <2> QED
    BY <1>2, <2>1 DEF TypeOK, HandleUSER, HandleUADD, NewName, SetUser
<1>3. ASSUME NEW s \in Sessions, NEW pass \in Passwords, PassLogsIn(s, pass)
      PROVE  TypeOK'
  <2>1. getUser(username[s], pass) \in Accounts \cup {NoUser}
    BY AccountFacts DEF TypeOK, getUser
  <2>2. /\ phase' \in [Sessions -> Phases]
        /\ cmd' \in [Sessions -> Commands]
        /\ reply' \in [Sessions -> Codes \cup {NoReply}]
    BY <1>3, <1>c, <1>v, AnswerType DEF PassLogsIn
  <2> QED
    BY <1>3, <2>1, <2>2 DEF TypeOK, PassLogsIn, SetUser
<1>4. ASSUME NEW s \in Sessions, NEW pass \in Passwords, PassSignsUp(s, pass)
      PROVE  TypeOK'
  <2>1. username[s] \in Names
    BY DEF TypeOK
  <2>2. UserDbTypeOK'
    BY <1>4, <2>1, AddUserEffect DEF TypeOK, PassSignsUp
  <2>3. addUserResult(username[s]) \in Accounts \cup {NoUser}
    BY <2>1, AccountFacts DEF addUserResult
  <2>4. LoggedUsersTypeOK'
    BY <1>4 DEF TypeOK, PassSignsUp, join, sendMsgToAllClient
  <2>5. /\ phase' \in [Sessions -> Phases]
        /\ cmd' \in [Sessions -> Commands]
        /\ reply' \in [Sessions -> Codes \cup {NoReply}]
    BY <1>4, <1>c, <1>v, AnswerType DEF PassSignsUp
  <2> QED
    BY <1>4, <2>2, <2>3, <2>4, <2>5 DEF TypeOK, PassSignsUp, SetUser
<1>5. ASSUME NEW s \in Sessions, NEW pass \in Passwords,
             PassOutOfSequence(s, pass)
      PROVE  TypeOK'
  <2>1. /\ phase' \in [Sessions -> Phases]
        /\ cmd' \in [Sessions -> Commands]
        /\ reply' \in [Sessions -> Codes \cup {NoReply}]
    BY <1>5, <1>c, <1>v, AnswerType DEF PassOutOfSequence
  <2> QED
    BY <1>5, <2>1 DEF TypeOK, PassOutOfSequence, sessionVars
<1>6. ASSUME NEW s \in Sessions, HandleQUIT(s) PROVE TypeOK'
  <2>1. /\ phase' \in [Sessions -> Phases]
        /\ cmd' \in [Sessions -> Commands]
        /\ reply' \in [Sessions -> Codes \cup {NoReply}]
    BY <1>6, <1>c, <1>v, AnswerType DEF HandleQUIT
  <2> QED
    BY <1>6, <2>1 DEF TypeOK, HandleQUIT, SetUser, leave, sendMsgToAllClient
<1>7. ASSUME NEW s \in Sessions,
             HandleFixed(s) \/ HandleService(s) \/ HandleUnrecognized(s)
      PROVE  TypeOK'
  <2>1. /\ phase' \in [Sessions -> Phases]
        /\ cmd' \in [Sessions -> Commands]
        /\ reply' \in [Sessions -> Codes \cup {NoReply}]
    BY <1>7, <1>c, <1>v, AnswerType
       DEF HandleFixed, HandleService, HandleUnrecognized
  <2> QED
    BY <1>7, <2>1
       DEF TypeOK, HandleFixed, HandleService, HandleUnrecognized, sessionVars
<1>8. ASSUME NEW s \in Sessions, Finish(s) PROVE TypeOK'
  <2>1. cmd[s].verb \in Verbs /\ NoCmd \in Commands
    BY DEF TypeOK, Commands, NoCmd, Verbs
  <2>2. lastCmd' \in [Sessions -> Verbs] /\ LoggedUsersTypeOK'
    BY <1>8, <2>1 DEF TypeOK, Finish, join, sendMsgToAllClient, Remember
  <2> QED
    BY <1>8, <2>1, <2>2 DEF TypeOK, Finish, Phases
<1>9. ASSUME NEW s \in Sessions, ReadFails(s) PROVE TypeOK'
  BY <1>9 DEF TypeOK, ReadFails, sessionVars, Phases
<1>10. CASE UNCHANGED vars
  BY <1>10 DEF TypeOK, vars, sessionVars
<1> QED
  BY <1>1, <1>2, <1>3, <1>4, <1>5, <1>6, <1>7, <1>8, <1>9, <1>10
     DEF Next, Handle, HandlePASS

(* The account table only grows, whoever steps. *)
LEMMA StepAccounts ==
  TypeOK /\ [Next]_vars =>
    \A a \in Accounts : Exists(a) => userDb'[a] = userDb[a]
<1> SUFFICES ASSUME TypeOK, [Next]_vars
             PROVE  \A a \in Accounts : Exists(a) => userDb'[a] = userDb[a]
  OBVIOUS
<1>1. ASSUME NEW s \in Sessions, NEW pass \in Passwords, PassSignsUp(s, pass)
      PROVE  \A a \in Accounts : Exists(a) => userDb'[a] = userDb[a]
  BY <1>1, AddUserEffect DEF PassSignsUp, TypeOK
<1>2. CASE UNCHANGED userDb
  BY <1>2
<1>3. \/ \E s \in Sessions, pass \in Passwords : PassSignsUp(s, pass)
      \/ UNCHANGED userDb
  BY DEF Next, Handle, HandlePASS, Start, HandleUSER, HandleUADD, PassLogsIn,
         PassOutOfSequence, HandleQUIT, HandleFixed, HandleService,
         HandleUnrecognized, Finish, ReadFails, vars
<1> QED
  BY <1>1, <1>2, <1>3

(* A step is one of these; those that change neither the table nor who is  *)
(* logged in on which name come last.                                      *)
LEMMA StepKinds ==
  [Next]_vars =>
    \/ \E s \in Sessions, name \in Names : HandleUSER(s, name) \/ HandleUADD(s, name)
    \/ \E s \in Sessions, pass \in Passwords : PassLogsIn(s, pass)
    \/ \E s \in Sessions, pass \in Passwords : PassSignsUp(s, pass)
    \/ \E s \in Sessions : HandleQUIT(s)
    \/ UNCHANGED <<userDb, sessionUser, username>>
BY DEF Next, Handle, HandlePASS, Start, PassOutOfSequence, HandleFixed,
       HandleService, HandleUnrecognized, Finish, ReadFails, vars, sessionVars

(* LoginMatchesName is inductive with the types and the permanence of the  *)
(* accounts: a login stays on an account that stays.                       *)
LEMMA StepLogin ==
  TypeOK /\ LoginMatchesName /\ [Next]_vars => LoginMatchesName'
<1> SUFFICES ASSUME TypeOK, LoginMatchesName, [Next]_vars,
                    NEW t \in Sessions, sessionUser'[t] # NoUser
             PROVE  /\ sessionUser'[t] = AccountOf(username'[t])
                    /\ userDb'[sessionUser'[t]] # NoPass
  BY DEF LoginMatchesName, Exists, AccountOf, isUsernameAnonymousUser
<1>a. \A a \in Accounts : userDb[a] # NoPass => userDb'[a] # NoPass
  BY StepAccounts DEF Exists
<1>b. sessionUser[t] \in Accounts \cup {NoUser} /\ username[t] \in Names
  BY DEF TypeOK
<1>1. ASSUME sessionUser'[t] = sessionUser[t], username'[t] = username[t]
      PROVE  /\ sessionUser'[t] = AccountOf(username'[t])
             /\ userDb'[sessionUser'[t]] # NoPass
  BY <1>a, <1>b, <1>1 DEF LoginMatchesName, Exists
<1>2. CASE \E s \in Sessions, name \in Names :
             HandleUSER(s, name) \/ HandleUADD(s, name)
  BY <1>1, <1>2 DEF TypeOK, HandleUSER, HandleUADD, NewName, SetUser
<1>3. ASSUME NEW s \in Sessions, NEW pass \in Passwords, PassLogsIn(s, pass)
      PROVE  /\ sessionUser'[t] = AccountOf(username'[t])
             /\ userDb'[sessionUser'[t]] # NoPass
  <2>1. CASE t = s /\ getUser(username[s], pass) # NoUser
    <3>1. sessionUser'[s] = getUser(username[s], pass)
          /\ UNCHANGED <<userDb, username>>
      BY <1>3, <2>1 DEF TypeOK, PassLogsIn, SetUser
    <3> QED
      BY <1>b, <2>1, <3>1, GetUserResult DEF Exists
  <2>2. CASE t # s \/ getUser(username[s], pass) = NoUser
    BY <1>1, <1>3, <2>2 DEF TypeOK, PassLogsIn, SetUser
  <2> QED
    BY <2>1, <2>2
<1>4. ASSUME NEW s \in Sessions, NEW pass \in Passwords, PassSignsUp(s, pass)
      PROVE  /\ sessionUser'[t] = AccountOf(username'[t])
             /\ userDb'[sessionUser'[t]] # NoPass
  <2>1. CASE t = s /\ addUserResult(username[s]) # NoUser
    <3>1. sessionUser'[s] = AccountOf(username[s]) /\ UNCHANGED username
      BY <1>4, <2>1 DEF TypeOK, PassSignsUp, SetUser, addUserResult
    <3>2. userDb'[AccountOf(username[s])] # NoPass
      BY <1>4, <1>b, <2>1, AddUserEffect DEF PassSignsUp, TypeOK
    <3> QED
      BY <2>1, <3>1, <3>2
  <2>2. CASE t # s \/ addUserResult(username[s]) = NoUser
    BY <1>1, <1>4, <2>2 DEF TypeOK, PassSignsUp, SetUser
  <2> QED
    BY <2>1, <2>2
<1>5. CASE \E s \in Sessions : HandleQUIT(s)
  BY <1>1, <1>5 DEF TypeOK, HandleQUIT, SetUser
<1>6. CASE UNCHANGED <<userDb, sessionUser, username>>
  BY <1>1, <1>6
<1> QED
  BY <1>2, <1>3, <1>4, <1>5, <1>6, StepKinds

(* NobodyUntilPassword is inductive with the types: the handlers of USER   *)
(* and UADD make the session nobody, and only a PASS logs it in.           *)
LEMMA StepNobody ==
  TypeOK /\ NobodyUntilPassword /\ [Next]_vars => NobodyUntilPassword'
<1> SUFFICES ASSUME TypeOK, NobodyUntilPassword, [Next]_vars
             PROVE  NobodyUntilPassword'
  OBVIOUS
<1> USE DEF NobodyUntilPassword, LatestVerb, Remembering
<1>1. ASSUME NEW s \in Sessions, Start(s) \/ ReadFails(s)
      PROVE  NobodyUntilPassword'
  BY <1>1 DEF TypeOK, Start, ReadFails, sessionVars
<1>2. ASSUME NEW s \in Sessions, NEW name \in Names,
             HandleUSER(s, name) \/ HandleUADD(s, name)
      PROVE  NobodyUntilPassword'
  BY <1>2 DEF TypeOK, HandleUSER, HandleUADD, NewName, SetUser, Answer
<1>3. ASSUME NEW s \in Sessions, NEW pass \in Passwords, PassLogsIn(s, pass)
      PROVE  NobodyUntilPassword'
  BY <1>3 DEF TypeOK, PassLogsIn, SetUser, Answer
<1>4. ASSUME NEW s \in Sessions, NEW pass \in Passwords, PassSignsUp(s, pass)
      PROVE  NobodyUntilPassword'
  BY <1>4 DEF TypeOK, PassSignsUp, SetUser, Answer
<1>5. ASSUME NEW s \in Sessions, NEW pass \in Passwords,
             PassOutOfSequence(s, pass)
      PROVE  NobodyUntilPassword'
  BY <1>5 DEF TypeOK, PassOutOfSequence, sessionVars, Answer
<1>6. ASSUME NEW s \in Sessions, HandleQUIT(s) PROVE NobodyUntilPassword'
  BY <1>6 DEF TypeOK, HandleQUIT, SetUser, Answer
<1>7. ASSUME NEW s \in Sessions,
             HandleFixed(s) \/ HandleService(s) \/ HandleUnrecognized(s)
      PROVE  NobodyUntilPassword'
  BY <1>7 DEF TypeOK, HandleFixed, HandleService, HandleUnrecognized,
              sessionVars, Answer
<1>8. ASSUME NEW s \in Sessions, Finish(s) PROVE NobodyUntilPassword'
  BY <1>8 DEF TypeOK, Finish, Remember
<1>9. CASE UNCHANGED vars
  BY <1>9 DEF vars, sessionVars
<1> QED
  BY <1>1, <1>2, <1>3, <1>4, <1>5, <1>6, <1>7, <1>8, <1>9
     DEF Next, Handle, HandlePASS

(* LoggedInIsRegistered is inductive with the types: only its own QUIT     *)
(* takes a session off the registry, and that one logs it out as well.     *)
LEMMA StepRegistered ==
  TypeOK /\ LoggedInIsRegistered /\ [Next]_vars => LoggedInIsRegistered'
<1> SUFFICES ASSUME TypeOK, LoggedInIsRegistered, [Next]_vars
             PROVE  LoggedInIsRegistered'
  OBVIOUS
<1> USE DEF LoggedInIsRegistered, Remembering
<1>1. ASSUME NEW s \in Sessions, Start(s) \/ ReadFails(s)
      PROVE  LoggedInIsRegistered'
  BY <1>1 DEF TypeOK, Start, ReadFails, sessionVars
<1>2. ASSUME NEW s \in Sessions, NEW name \in Names,
             HandleUSER(s, name) \/ HandleUADD(s, name)
      PROVE  LoggedInIsRegistered'
  BY <1>2 DEF TypeOK, HandleUSER, HandleUADD, NewName, SetUser, Answer
<1>3. ASSUME NEW s \in Sessions, NEW pass \in Passwords, PassLogsIn(s, pass)
      PROVE  LoggedInIsRegistered'
  BY <1>3 DEF TypeOK, PassLogsIn, SetUser, Answer
<1>4. ASSUME NEW s \in Sessions, NEW pass \in Passwords, PassSignsUp(s, pass)
      PROVE  LoggedInIsRegistered'
  BY <1>4 DEF TypeOK, PassSignsUp, SetUser, Answer, join
<1>5. ASSUME NEW s \in Sessions, NEW pass \in Passwords,
             PassOutOfSequence(s, pass)
      PROVE  LoggedInIsRegistered'
  BY <1>5 DEF TypeOK, PassOutOfSequence, sessionVars, Answer
<1>6. ASSUME NEW s \in Sessions, HandleQUIT(s) PROVE LoggedInIsRegistered'
  BY <1>6 DEF TypeOK, HandleQUIT, SetUser, Answer, leave
<1>7. ASSUME NEW s \in Sessions,
             HandleFixed(s) \/ HandleService(s) \/ HandleUnrecognized(s)
      PROVE  LoggedInIsRegistered'
  BY <1>7 DEF TypeOK, HandleFixed, HandleService, HandleUnrecognized,
              sessionVars, Answer
<1>8. ASSUME NEW s \in Sessions, Finish(s) PROVE LoggedInIsRegistered'
  BY <1>8 DEF TypeOK, Finish, join
<1>9. CASE UNCHANGED vars
  BY <1>9 DEF vars, sessionVars
<1> QED
  BY <1>1, <1>2, <1>3, <1>4, <1>5, <1>6, <1>7, <1>8, <1>9
     DEF Next, Handle, HandlePASS

(* PasswordChecked is inductive with the types and LoginMatchesName: the   *)
(* account a PASS was accepted for keeps its password until the reply.     *)
LEMMA StepPassword ==
  TypeOK /\ LoginMatchesName /\ PasswordChecked /\ [Next]_vars
    => PasswordChecked'
<1> SUFFICES ASSUME TypeOK, LoginMatchesName, PasswordChecked, [Next]_vars
             PROVE  PasswordChecked'
  OBVIOUS
<1> DEFINE Passed(t) == phase[t] = "handled" /\ cmd[t].verb = "PASS"
                        /\ reply[t] = USER_LOGGED_IN
           Checked(t) == /\ sessionUser[t] \in Accounts
                         /\ sessionUser[t] # Anonymous =>
                              userDb[sessionUser[t]] = cmd[t].arg
           OtherCodes == {CLOSING_CONTROL, USER_NAME_OK, SYNTAX_ERROR_PARAMETERS,
                        BAD_SEQUENCE, NOT_LOGGED_IN}
<1> SUFFICES ASSUME NEW t \in Sessions, Passed(t)' PROVE Checked(t)'
  BY DEF PasswordChecked
<1>d. USER_LOGGED_IN \notin OtherCodes
  BY DEF USER_LOGGED_IN, CLOSING_CONTROL, USER_NAME_OK,
         SYNTAX_ERROR_PARAMETERS, BAD_SEQUENCE, NOT_LOGGED_IN
<1>e. Checked(t) /\ sessionUser[t] # NoUser
        => userDb'[sessionUser[t]] = userDb[sessionUser[t]]
  BY StepAccounts DEF LoginMatchesName
<1>1. ASSUME Passed(t), sessionUser'[t] = sessionUser[t], cmd'[t] = cmd[t]
      PROVE  Checked(t)'
  BY <1>1, <1>e, AccountFacts DEF PasswordChecked
<1>2. ASSUME NEW s \in Sessions, Start(s) \/ ReadFails(s) PROVE Checked(t)'
  BY <1>1, <1>2 DEF TypeOK, Start, ReadFails, sessionVars
<1>3. ASSUME NEW s \in Sessions, NEW name \in Names,
             HandleUSER(s, name) \/ HandleUADD(s, name)
      PROVE  Checked(t)'
  BY <1>1, <1>3 DEF TypeOK, HandleUSER, HandleUADD, NewName, SetUser, Answer
<1>4. ASSUME NEW s \in Sessions, NEW pass \in Passwords, PassLogsIn(s, pass)
      PROVE  Checked(t)'
  <2>0. username[s] \in Names
    BY DEF TypeOK
  <2>1. CASE t = s /\ getUser(username[s], pass) # NoUser
    <3>1. /\ sessionUser'[s] = getUser(username[s], pass)
          /\ cmd'[s].arg = pass
          /\ UNCHANGED userDb
      BY <1>4, <2>1 DEF TypeOK, PassLogsIn, SetUser, Answer
    <3>2. /\ getUser(username[s], pass) = AccountOf(username[s])
          /\ AccountOf(username[s]) # Anonymous =>
               userDb[AccountOf(username[s])] = pass
      BY <2>0, <2>1, GetUserResult
    <3> QED
      BY <2>0, <2>1, <3>1, <3>2, AccountFacts
  <2>2. CASE t = s /\ getUser(username[s], pass) = NoUser
    BY <1>4, <1>d, <2>2 DEF TypeOK, PassLogsIn, Answer
  <2>3. CASE t # s
    BY <1>1, <1>4, <2>3 DEF TypeOK, PassLogsIn, SetUser, Answer
  <2> QED
    BY <2>1, <2>2, <2>3
<1>5. ASSUME NEW s \in Sessions, NEW pass \in Passwords, PassSignsUp(s, pass)
      PROVE  Checked(t)'
  <2>0. username[s] \in Names
    BY DEF TypeOK
  <2>1. CASE t = s /\ addUserResult(username[s]) # NoUser
    <3>1. /\ sessionUser'[s] = AccountOf(username[s])
          /\ ~Exists(AccountOf(username[s]))
          /\ cmd'[s].arg = pass
      BY <1>5, <2>1 DEF TypeOK, PassSignsUp, SetUser, Answer, addUserResult
    <3>2. userDb'[AccountOf(username[s])] = pass
      BY <1>5, <2>0, <3>1, AddUserEffect DEF PassSignsUp, TypeOK
    <3> QED
      BY <2>0, <2>1, <3>1, <3>2, AccountFacts
  <2>2. CASE t = s /\ addUserResult(username[s]) = NoUser
    BY <1>5, <1>d, <2>2 DEF TypeOK, PassSignsUp, Answer
  <2>3. CASE t # s
    BY <1>1, <1>5, <2>3 DEF TypeOK, PassSignsUp, SetUser, Answer
  <2> QED
    BY <2>1, <2>2, <2>3
<1>6. ASSUME NEW s \in Sessions, NEW pass \in Passwords,
             PassOutOfSequence(s, pass)
      PROVE  Checked(t)'
  BY <1>1, <1>6, <1>d DEF TypeOK, PassOutOfSequence, sessionVars, Answer
<1>7. ASSUME NEW s \in Sessions, HandleQUIT(s) PROVE Checked(t)'
  BY <1>1, <1>7 DEF TypeOK, HandleQUIT, SetUser, Answer
<1>8. ASSUME NEW s \in Sessions,
             HandleFixed(s) \/ HandleService(s) \/ HandleUnrecognized(s)
      PROVE  Checked(t)'
  BY <1>1, <1>8 DEF TypeOK, HandleFixed, HandleService, HandleUnrecognized,
                    sessionVars, Answer
<1>9. ASSUME NEW s \in Sessions, Finish(s) PROVE Checked(t)'
  BY <1>1, <1>9 DEF TypeOK, Finish
<1>10. CASE UNCHANGED vars
  BY <1>1, <1>10 DEF vars, sessionVars
<1> QED
  BY <1>2, <1>3, <1>4, <1>5, <1>6, <1>7, <1>8, <1>9, <1>10
     DEF Next, Handle, HandlePASS

-----------------------------------------------------------------------------

(* IInv is an inductive invariant of the specification. *)
THEOREM Invariance == Spec => []IInv
<1>1. IInv /\ [Next]_vars => IInv'
  BY StepTypeOK, StepLogin, StepNobody, StepRegistered, StepPassword DEF IInv
<1> QED
  BY InitIInv, <1>1, PTL DEF Spec

(* Type correctness. *)
THEOREM TypeCorrect == Spec => []TypeOK
<1>1. IInv => TypeOK
  BY DEF IInv
<1> QED
  BY <1>1, Invariance, PTL

(* A session is only ever logged in on the account of its username_        *)
(* (handleFTPCmdUSER, UADD, PASS), and that account exists.                *)
THEOREM LoginSafe == Spec => []LoginMatchesName
<1>1. IInv => LoginMatchesName
  BY DEF IInv
<1> QED
  BY <1>1, Invariance, PTL

(* From USER or UADD to the PASS that follows (handleFTPCmdUSER, UADD) a   *)
(* session is logged in as nobody, whatever it was before.                 *)
THEOREM NobodySafe == Spec => []NobodyUntilPassword
<1>1. IInv => NobodyUntilPassword
  BY DEF IInv
<1> QED
  BY <1>1, Invariance, PTL

(* PASS answers 230 only to the password of the account it logs in on.     *)
THEOREM PasswordSafe == Spec => []PasswordChecked
<1>1. IInv => PasswordChecked
  BY DEF IInv
<1> QED
  BY <1>1, Invariance, PTL

(* A logged-in session is in the registry (contactHandler_ in              *)
(* handleFTPCmd), however the joins and leaves of sessions interleave.     *)
THEOREM RegistrySafe == Spec => []LoggedInIsRegistered
<1>1. IInv => LoggedInIsRegistered
  BY DEF IInv
<1> QED
  BY <1>1, Invariance, PTL

(* No step of any session takes an account away or changes its password    *)
(* (UserDatabase::addUser).                                                *)
THEOREM AccountsSafe == Spec => AccountsPermanent
<1>1. TypeOK /\ [Next]_vars =>
        [\A a \in Accounts : Exists(a) => userDb'[a] = userDb[a]]_vars
  BY StepAccounts
<1> QED
  BY <1>1, TypeCorrect, PTL DEF Spec, AccountsPermanent

(* A sign-up that is answered 230 created its account: of two sessions     *)
(* that ask for the same name, the second is refused.                      *)
THEOREM SignUpSafe == Spec => SignUpIsFresh
<1> DEFINE Fresh == \A s \in Sessions :
             /\ phase[s] = "reading" /\ phase'[s] = "handled"
             /\ lastCmd[s] = "UADD" /\ reply'[s] = USER_LOGGED_IN
             => ~Exists(AccountOf(username[s]))
<1>1. TypeOK /\ [Next]_vars => [Fresh]_vars
  <2> SUFFICES ASSUME TypeOK, [Next]_vars, NEW t \in Sessions,
                      phase[t] = "reading", phase'[t] = "handled",
                      lastCmd[t] = "UADD", reply'[t] = USER_LOGGED_IN
               PROVE  ~Exists(AccountOf(username[t]))
    OBVIOUS
  <2> USE DEF USER_LOGGED_IN, USER_NAME_OK, SYNTAX_ERROR_PARAMETERS,
              SYNTAX_ERROR_COMMAND, BAD_SEQUENCE, NOT_LOGGED_IN,
              CLOSING_CONTROL, OK
  <2>1. ASSUME NEW s \in Sessions, NEW pass \in Passwords, PassSignsUp(s, pass)
        PROVE  ~Exists(AccountOf(username[t]))
    BY <2>1 DEF TypeOK, PassSignsUp, Answer, addUserResult
  <2>2. ASSUME NEW s \in Sessions, NEW pass \in Passwords,
               PassLogsIn(s, pass) \/ PassOutOfSequence(s, pass)
        PROVE  FALSE
    BY <2>2 DEF TypeOK, PassLogsIn, PassOutOfSequence, Answer
  <2>3. ASSUME NEW s \in Sessions, NEW name \in Names,
               HandleUSER(s, name) \/ HandleUADD(s, name)
        PROVE  FALSE
    BY <2>3 DEF TypeOK, HandleUSER, HandleUADD, NameReply, Answer
  <2>4. ASSUME NEW s \in Sessions,
               \/ HandleQUIT(s) \/ HandleFixed(s) \/ HandleService(s)
               \/ HandleUnrecognized(s)
        PROVE  FALSE
    BY <2>4 DEF TypeOK, HandleQUIT, HandleFixed, HandleService,
                HandleUnrecognized, Answer
  <2>5. ASSUME NEW s \in Sessions, Start(s) \/ Finish(s) \/ ReadFails(s)
        PROVE  FALSE
    BY <2>5 DEF TypeOK, Start, Finish, ReadFails
  <2> QED
    BY <2>1, <2>2, <2>3, <2>4, <2>5 DEF Next, Handle, HandlePASS, vars
<1> QED
  BY <1>1, TypeCorrect, PTL DEF Spec, SignUpIsFresh

=============================================================================
