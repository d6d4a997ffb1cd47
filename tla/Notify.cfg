SPECIFICATION NotifySpec
CONSTANTS
  c1 = c1
  c2 = c2
  a1 = a1
  m1 = m1
  s1 = s1
  Null = Null
  Customers <- MCCustomers
  Agents <- MCAgents
  Admins <- MCAdmins
  Sockets = {s1}
  Events <- MCEvents
  MaxEvents = 2
  MaxFaults = 1
  MaxCrashes = 1
INVARIANTS
  NotifyTypeOK
  ChannelsIsolated
  ChannelsAgree
  PushedOnce
