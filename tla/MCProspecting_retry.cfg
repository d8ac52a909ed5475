SPECIFICATION Spec
CONSTANTS
  Items = {p}
  Operations = {a, b}
  Requests = {r1, r2}
  Chunk = 1
  Listed = {p}
  Later = {}
  MaxVersion = 3
  MaxLosses = 0
  MaxOverruns = 0
PROPERTY RetryExcludesSettled
CHECK_DEADLOCK FALSE
