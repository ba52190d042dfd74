SPECIFICATION Spec
CONSTANTS
  p1 = p1
  p2 = p2
  a1 = a1
  a2 = a2
  k1 = k1
  k2 = k2
  k3 = k3
  t1 = t1
  t2 = t2
  Peers = {p1, p2}
  Authorities = {a1, a2}
  Keys = {k1, k2, k3}
  Threads = {t1, t2}
  NoKey = NoKey
  NoCert = NoCert
SYMMETRY Symmetry
INVARIANTS AdmittedByAuthority 
