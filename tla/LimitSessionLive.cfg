SPECIFICATION FairSpec
CONSTANTS
  h1 = h1
  h2 = h2
  h3 = h3
  r1 = r1
  r2 = r2
  Handlers = {h1, h2, h3}
  Resources = {r1, r2}
  Messages <- LiveMessages
  MaxMsgs = 2
PROPERTY SessionsEnd
CHECK_DEADLOCK FALSE
