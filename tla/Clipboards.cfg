SPECIFICATION Spec
CONSTANTS
  Texts = {"a", "b"}
  LargeTexts = {"b"}
  ReplyTimeout = 1
  TransferLimit = 2
  MaxChunks = 2
  MaxAsked = 1
  MaxQueued = 1
  MaxTicks = 5
  IdleTimeout = 2
  PipeLimit = 3
  MaxBytes = 2
  MaxSources = 2
  MaxOffers = 3
  MaxEvents = 4
INVARIANTS TypeOK ReadIsSelection CharactersAreKept TextIsDecoded OwnershipKnown DeadlinesKept OffersFollowSelection
CHECK_DEADLOCK FALSE
