SPECIFICATION Spec
CONSTANTS
  h1 = h1
  h2 = h2
  h3 = h3
  alice = alice
  bob = bob
  carol = carol
  Handlers = {h1, h2, h3}
  Peers = {alice, bob, carol}
  Known = {alice, bob}
  Self = Self
  NoPeer = NoPeer
  NoHandler = NoHandler
  NoMsg = NoMsg
  Messages <- MCMessages
  MaxMsgs = 3
SYMMETRY Symmetry
INVARIANT RegistryKnowsOpenStreams
CHECK_DEADLOCK FALSE
