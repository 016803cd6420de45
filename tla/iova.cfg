SPECIFICATION Spec
CONSTANTS
  MaxPfn = 8
  CacheMaxOrder = 3
  Sizes = {1, 3, 4}
INVARIANTS TypeOK NoDoubleOwner Consistent NoLostBlock
PROPERTIES KeepsPromise
