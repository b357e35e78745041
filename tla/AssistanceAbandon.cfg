SPECIFICATION Spec
CONSTANTS
  Consumers = {1}
  Saving <- EverySaves
  Joins <- JoinsAct
  MaxTokens = 2
  MaxNow = 2
  MaxGen = 1
  MaxVersion = 1
  Capacity = 2
  MaxCalls <- ActsTwice
  OfferTTL = 2
  GrantTTL = 2
  RequestTTL = 1
INVARIANTS
  UnresolvedBlocks
