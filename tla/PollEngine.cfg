SPECIFICATION Spec
CONSTANTS
  f1 = f1
  w1 = w1
  w2 = w2
  w3 = w3
  t1 = t1
  t2 = t2
  Fds = {f1}
  Watchers = {w1, w2, w3}
  Pollers = {t1, t2}
  Batch = 2
SYMMETRY Symmetry
INVARIANTS CalledOnce LostOnlyBesideOther
CHECK_DEADLOCK FALSE
