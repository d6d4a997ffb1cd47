SPECIFICATION DeliverySpec
CONSTANTS
  c1 = c1
  a1 = a1
  a2 = a2
  m1 = m1
  nobody = nobody
  r1 = r1
  r2 = r2
  Null = Null
  TooBig = TooBig
  Undefined = Undefined
  Customers <- MCCustomers
  Agents <- MCAgents
  Admins <- MCAdmins
  Strangers <- MCStrangers
  Requests = {r1, r2}
  SeedTickets <- SeedOne
  SeedComments <- Empty
  TicketTag <- NoLinks
  TicketWatcher <- NoLinks
  TicketCalls <- MCCalls
  Wordy <- MCWordy
  MaxFaults = 1
  MaxTickets = 2
  MaxComments = 0
  MaxCrashes = 1
  MaxEvents = 4
  MaxTaskFaults = 1
  MaxMishaps = 1
CHECK_DEADLOCK FALSE
INVARIANTS
  LastStatusReachesCustomer
  AgentNotified
  NoTransitionToldTwice
PROPERTIES
  TicketsFeedNotify
  ResolutionArrives
