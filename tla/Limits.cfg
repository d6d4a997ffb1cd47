SPECIFICATION AccessSpec
CONSTANTS
  ip = ip
  ada = ada
  kim = kim
  p1 = p1
  p2 = p2
  p3 = p3
  h1 = h1
  h2 = h2
  bug = bug
  billing = billing
  r1 = r1
  r2 = r2
  x1 = x1
  x2 = x2
  Null = Null
  TooBig = TooBig
  Clients = {ip}
  Emails = {ada, kim}
  Passwords <- MCPasswords
  HashOf <- MCHashOf
  Names = {bug, billing}
  InitialUsers <- MCUsers
  InitialTags <- MCTags
  InitialLinks <- NoLinks
  AuthRequests = {r1}
  AuthCalls <- TwoAuthCalls
  TagRequests = {x1}
  TagCalls <- OneTagCall
  GeneralLimit = 4
  AuthLimit = 2
  Window = 2
  TokenLife = 2
  MaxClock = 3
  MaxUsers = 3
  MaxTags = 1
  MaxFaults = 0
  MaxRestarts = 1
INVARIANTS
  AuthAttemptsBounded
  LockedOutOnlyWhenSpent
PROPERTIES
  TagsChangedByStaff
