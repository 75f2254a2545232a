SPECIFICATION FairSpec
CONSTANTS
  SalesKeys = {"search"}
  OrderKeys = {"order"}
  TicketKeys = {"ticket"}
  MaxIterations = 2
  Drafts <- MCDrafts
  VerifierSound = TRUE
INVARIANTS
  HonestReply
  MishapsReported
  FlaggedEscalated
  TicketsDisclosed
  AnonymousDegrades
PROPERTIES
  TurnEnds
