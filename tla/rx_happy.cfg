SPECIFICATION FairSpec
CONSTANTS
  MaxPfn = 6
  CacheMaxOrder = 2
  Page = {p1, p2, p3, p4}
  NoPage = NoPage
  r1 = r1
  r2 = r2
  w1 = w1
  w2 = w2
  Rq = {r1, r2}
  Wqe = {w1, w2}
  RqOf <- OneEach
  PagesPerWqe = 2
  CacheSize = 1
  Faults = {}
  Xdp = FALSE
  Shampo = FALSE
INVARIANTS TypeOK PostedMapped FaultFreeInv MappedIsAllocated ProtectedAtRest NoIovaLeak UnmapsOwnRange
PROPERTIES ExposureEnds KeepsStrictPromise
