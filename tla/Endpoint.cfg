SPECIFICATION Spec
CONSTANTS
  Payloads <- MCPayloads
  Reads = 2
  Writes = 2
  Inbound = 2
  Handshakes = 1
  Room = 2
INVARIANTS BytesInOrder RetryIsSame WaitTogether
CHECK_DEADLOCK FALSE
