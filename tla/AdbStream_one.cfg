CONSTANTS
  MaxId = 1
  MaxUnits = 2
  MaxPayload = 2
  MaxLinks = 1
SPECIFICATION FairSpec
INVARIANTS TypeOK CreditKept
PROPERTIES PipeSpec StreamsEnd Delivered
CHECK_DEADLOCK FALSE
