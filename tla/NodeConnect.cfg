SPECIFICATION Spec
CONSTANTS
  s1 = s1
  s2 = s2
  s3 = s3
  c1 = c1
  c2 = c2
  c3 = c3
  NoFd = NoFd
  Fds = {s1, s2, s3}
  Conns = {c1, c2, c3}
  MaxStarts = 2
SYMMETRY Symmetry
INVARIANTS OneOwner AnswerFindsSocket ResolvedOnce AnsweredOnce
  TrackerIsRunning
CHECK_DEADLOCK FALSE
