SPECIFICATION Spec
CONSTANTS
  h1 = h1
  h2 = h2
  h3 = h3
  h4 = h4
  h5 = h5
  Write = Write
  Read = Read
  NoService = NoService
  Handlers = {h1, h2, h3, h4, h5}
  Services = {Write, Read}
SYMMETRY Symmetry
INVARIANT EventOrDestroyed
CHECK_DEADLOCK FALSE
