SPECIFICATION Spec
CONSTANTS
  Class = {1, 2}
  MaxEvents = 2
  SeqModulus = 16
  MaxRetries = 1
  MaxChunk = 2
  MaxInFlight = 2
  Setups <- OnlyLate
INVARIANTS NoSilentLoss
CHECK_DEADLOCK FALSE
