SPECIFICATION ListSpec
CONSTANTS
  c1 = c1
  a1 = a1
  a2 = a2
  m1 = m1
  r1 = r1
  d1 = d1
  Null = Null
  TooBig = TooBig
  Undefined = Undefined
  Customers <- MCCustomers
  Agents <- MCAgents
  Admins <- MCAdmins
  Strangers <- NoLinks
  Requests = {r1}
  Readers = {d1}
  SeedTickets <- SeedThree
  SeedComments <- NoRows
  TicketTag <- NoLinks
  TicketWatcher <- NoLinks
  TicketCalls <- MCWrites
  ListQueries <- MCQueries
  CreatedAts <- MCCreatedAts
  MaxFaults = 1
  MaxTickets = 4
  MaxComments = 0
  MaxCrashes = 1
INVARIANTS
  ListTypeOK
  WalkMissesNothing
  WalkRepeatsNothing
  PageAndTotalAgree
