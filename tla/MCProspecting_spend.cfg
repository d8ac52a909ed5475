SPECIFICATION MCFairSpec
CONSTANTS
  Items = {p, q}
  Operations = {a, b}
  Later = {b}
  Requests = {r1, r2}
  Chunk = 1
  Listed = {p}
  MaxVersion = 3
  MaxLosses = 1
  MaxOverruns = 1
INVARIANTS
  TypeOK
  ChargedOnce
  ChunksRunSerially
  PageShowsNoMore
PROPERTIES
  OutcomesStand
  GateReopens
CHECK_DEADLOCK FALSE
