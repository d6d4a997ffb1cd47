SPECIFICATION Spec
CONSTANTS
  c1 = c1
  a1 = a1
  a2 = a2
  m1 = m1
  nobody = nobody
  r1 = r1
  r2 = r2
  Null = Null
  TooBig = TooBig
  Undefined = Undefined
  Customers <- MCCustomers
  Agents <- MCAgents
  Admins <- MCAdmins
  Strangers <- MCStrangers
  Requests = {r1, r2}
  SeedTickets <- SeedOne
  SeedComments <- NoSeedComments
  TicketTag <- NoLinks
  TicketWatcher <- NoLinks
  TicketCalls <- WriterCalls
  MaxFaults = 0
  MaxTickets = 1
  MaxComments = 0
  MaxCrashes = 0
INVARIANT
  OnlyGenuineAnnouncements
