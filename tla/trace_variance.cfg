SPECIFICATION Spec
CONSTANTS
  task = task
  idle1 = idle1
  idle2 = idle2
  own = own
  shared = shared
  fn = fn
  Ctx <- MCCtx
  Keys <- MCKeys
  KeyOf <- MCKeyOf
  Funcs = {fn}
  MaxEntries = 1
  US = 2
  Buckets = 2
  MaxClock = 4
  MaxDepth <- MCMaxDepth
  MaxSamples = 1
CHECK_DEADLOCK FALSE
INVARIANT VarianceNotNegative
