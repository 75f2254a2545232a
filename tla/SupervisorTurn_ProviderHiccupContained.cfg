SPECIFICATION Spec
CONSTANTS
  SalesKeys = {"search"}
  OrderKeys = {"order"}
  TicketKeys = {"ticket"}
  MaxIterations = 2
  Drafts <- MCDrafts
  VerifierSound = TRUE
INVARIANT
  ProviderHiccupContained
