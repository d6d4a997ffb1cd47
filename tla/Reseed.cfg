SPECIFICATION SeedSpec
CONSTANTS
  ip = ip
  casey = casey
  alex = alex
  p1 = p1
  p2 = p2
  h1 = h1
  h2 = h2
  bug = bug
  billing = billing
  r1 = r1
  x1 = x1
  x2 = x2
  Null = Null
  TooBig = TooBig
  Clients = {ip}
  Emails = {casey, alex}
  Passwords <- MCPasswords
  HashOf <- MCHashOf
  Names = {bug, billing}
  InitialUsers <- MCUsers
  InitialTags <- MCTags
  InitialLinks <- MCLinks
  AuthRequests = {r1}
  AuthCalls <- MCAuthCalls
  TagRequests = {x1}
  TagCalls <- MCTagCalls
  GeneralLimit = 1
  AuthLimit = 1
  Window = 0
  TokenLife = 1
  MaxClock = 0
  MaxUsers = 5
  MaxTags = 4
  MaxTickets = 3
  MaxFaults = 1
  MaxRestarts = 0
  MaxSeeds = 1
  ScriptUsers <- MCScriptUsers
  ScriptTags = {bug, billing}
  Customer = casey
  Agent = alex
INVARIANTS
  SeedTypeOK
  TokensNameTheirHolder
  SafeToRerun
PROPERTIES
  TokensAreEarned
