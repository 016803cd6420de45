SPECIFICATION Spec
CONSTANTS
  MaxPfn = 3
  CacheMaxOrder = 2
  Page = {p1, p2}
  NoPage = NoPage
  r1 = r1
  r2 = r2
  w1 = w1
  w2 = w2
  Rq = {r1}
  Wqe = {w1}
  RqOf <- Single
  PagesPerWqe = 2
  CacheSize = 1
  Faults = {"map"}
  Xdp = TRUE
  Shampo = FALSE
SYMMETRY PageSymmetry
INVARIANTS PageInOnePlace IotlbCoherent
