SPECIFICATION Spec
CONSTANTS
  c1 = c1
  a1 = a1
  a2 = a2
  m1 = m1
  nobody = nobody
  r1 = r1
  r2 = r2
  Null = Null
  TooBig = TooBig
  Undefined = Undefined
  Customers <- MCCustomers
  Agents <- MCAgents
  Admins <- MCAdmins
  Strangers <- MCStrangers
  Requests = {r1, r2}
  SeedTickets <- SeedTwo
  SeedComments <- CommentOnTwo
  TicketTag <- NoLinks
  TicketWatcher <- NoLinks
  TicketCalls <- LongSubjects
  MaxFaults = 0
  MaxTickets = 3
  MaxComments = 1
  MaxCrashes = 0
INVARIANT
  NoInternalError
