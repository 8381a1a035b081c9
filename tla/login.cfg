SPECIFICATION Spec
CONSTANTS
  phone = phone
  l1 = l1
  l2 = l2
  l3 = l3
  out = out
  auth = auth
  NoToken = NoToken
  Phones <- MCPhones
  Logins <- MCLogins
  LoginPhone <- MCLoginPhone
  Calls <- MCCalls
  CallKind <- MCCallKind
  MaxFail = 2
  Ttl = 1
  MaxTime = 1
  RedisFails = TRUE
  DbFails = TRUE
SYMMETRY Symmetry
INVARIANTS GuessesAreBounded LockedOutStaysOut RevokedStaysOut TokensAreHonored
PROPERTY LocksAreEarned
CHECK_DEADLOCK FALSE
