CONSTANTS
  s1 = s1
  s2 = s2
  empty = empty
  test = test
  bob = bob
  right = right
  wrong = wrong
  Sessions <- MCSessions
  Names <- MCNames
  AnonymousNames <- MCAnonymousNames
  Passwords <- MCPasswords
  EmptyName = empty
  TestName = test
  TestPassword = right
  Anonymous = Anonymous
  NoPass = NoPass
  NoUser = NoUser
  NoNews = NoNews
  NoArg = NoArg
  NoReply = NoReply
SPECIFICATION Spec
CHECK_DEADLOCK FALSE
INVARIANTS
  LoginMatchesName
  NobodyUntilPassword
  PasswordChecked
  LoggedInIsRegistered
PROPERTIES
  AccountsPermanent
  SignUpIsFresh
