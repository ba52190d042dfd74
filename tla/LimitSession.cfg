SPECIFICATION Spec
CONSTANTS
  h1 = h1
  h2 = h2
  h3 = h3
  r1 = r1
  r2 = r2
  Handlers = {h1, h2, h3}
  Resources = {r1, r2}
  Messages <- AllMessages
  MaxMsgs = 2
SYMMETRY Symmetry
INVARIANTS OneEventPerHandler OneAcceptor AcksMatchMessages BillIsHistory
PROPERTY ImplementsLedger
CHECK_DEADLOCK FALSE
