SPECIFICATION Spec
CONSTANTS
  phone = phone
  ip = ip
  s1 = s1
  s2 = s2
  r1 = r1
  r2 = r2
  r3 = r3
  r4 = r4
  NoCode = NoCode
  Nobody = Nobody
  Phones <- MCPhones
  Sends <- MCSends
  SendPhone <- MCSendPhone
  Requests <- MCRequests
  PhoneOf <- MCPhoneOf
  Ips <- MCIps
  IpOf <- MCIpOf
  RequireSms = TRUE
  MaxAttempts = 2
  DailyLimit = 1
  MaxDays = 1
  MaxPerIp = 1
  RedisFails = TRUE
  DbFails = TRUE
SYMMETRY Symmetry
INVARIANT VoidAfterTries
CHECK_DEADLOCK FALSE
