SPECIFICATION Spec
CONSTANTS
  Consumers = {1, 2}
  Saving <- EverySaves
  Joins <- JoinsResume
  MaxTokens = 3
  MaxNow = 2
  MaxGen = 2
  MaxVersion = 0
  Capacity = 2
  MaxCalls <- ResumerAndARival
  OfferTTL = 2
  GrantTTL = 2
  RequestTTL = 1
INVARIANTS
  OneGrant
  
PROPERTIES
  GrantBounded
  OnlyAcceptGives
