SPECIFICATION FairSpec
CONSTANTS
  Messages = {a, b}
  Templated = {}
  Texts = {hello}
  Addresses = {home}
  Requests = {r1, r2}
  Commands = {"draft", "ready", "send"}
  Limit = 1
  Window = 1
  MaxClock = 2
  MaxVersion = 2
  MaxLosses = 0
INVARIANTS
  HourlyLimit
PROPERTIES
  EveryClaimIsSettled
