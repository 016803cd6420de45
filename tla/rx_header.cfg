SPECIFICATION Spec
CONSTANTS
  MaxPfn = 5
  CacheMaxOrder = 2
  Page = {p1, p2, p3}
  NoPage = NoPage
  r1 = r1
  r2 = r2
  w1 = w1
  w2 = w2
  Rq = {r1}
  Wqe = {w1}
  RqOf <- Single
  PagesPerWqe = 2
  CacheSize = 1
  Faults = {}
  Xdp = FALSE
  Shampo = TRUE
SYMMETRY PageSymmetry
INVARIANTS SubtractsToBeginning
