SPECIFICATION AccessSpec
CONSTANTS
  ip = ip
  ada = ada
  kim = kim
  p1 = p1
  p2 = p2
  p3 = p3
  h1 = h1
  h2 = h2
  bug = bug
  billing = billing
  r1 = r1
  r2 = r2
  x1 = x1
  x2 = x2
  Null = Null
  TooBig = TooBig
  Clients = {ip}
  Emails = {ada, kim}
  Passwords <- MCPasswords
  HashOf <- MCHashOf
  Names = {bug, billing}
  InitialUsers <- MCUsers
  InitialTags <- MCTags
  InitialLinks <- OneLink
  AuthRequests = {r1, r2}
  AuthCalls <- MCAuthCalls
  TagRequests = {x1, x2}
  TagCalls <- AllTagCalls
  GeneralLimit = 1
  AuthLimit = 1
  Window = 0
  TokenLife = 1
  MaxClock = 0
  MaxUsers = 3
  MaxTags = 2
  MaxFaults = 1
  MaxRestarts = 0
SYMMETRY AccessSymmetry
PROPERTIES
  AccessErrorsExplained
