SPECIFICATION CommentFairSpec
CONSTANTS
  c1 = c1
  c2 = c2
  a1 = a1
  m1 = m1
  r1 = r1
  q1 = q1
  q2 = q2
  Null = Null
  TooBig = TooBig
  Undefined = Undefined
  Customers <- MCCustomers
  Agents <- MCAgents
  Admins <- MCAdmins
  Strangers <- NoLinks
  Requests = {r1}
  CommentRequests = {q1, q2}
  SeedTickets <- SeedTwo
  SeedComments <- CommentOnTwo
  TicketTag <- NoLinks
  TicketWatcher <- MCWatchers
  TicketCalls <- DeleteCalls
  CommentCalls <- MCCommentCalls
  MaxTickets = 2
  MaxComments = 3
  MaxFaults = 1
  MaxCrashes = 1
INVARIANTS
  CommentTypeOK
  NoOrphanComments
  EveryCommentTold
PROPERTIES
  CommentChangesAuthorized
  CommittedMeansCreated
  CommentsAnswered
