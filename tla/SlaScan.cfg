SPECIFICATION SlaFairSpec
CONSTANTS
  c1 = c1
  a1 = a1
  m1 = m1
  r1 = r1
  w1 = w1
  Null = Null
  TooBig = TooBig
  Undefined = Undefined
  Customers <- MCCustomers
  Agents <- MCAgents
  Admins <- MCAdmins
  Strangers <- NoLinks
  Requests = {r1}
  Workers = {w1}
  Attempts = 3
  SeedTickets <- SeedThree
  SeedComments <- NoSeedComments
  TicketTag <- NoLinks
  TicketWatcher <- NoLinks
  TicketCalls <- MCTicketCalls
  MaxTickets = 3
  MaxComments = 0
  MaxFaults = 1
  MaxCrashes = 1
  MaxWorkerCrashes = 1
INVARIANTS
  SlaTypeOK
  EscalatedAtMostOnce
  MarkedMeansAnnounced
PROPERTY
  OverdueIsNoticed
  EscalationKeepsPromise
