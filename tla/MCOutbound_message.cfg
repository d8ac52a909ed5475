SPECIFICATION Spec
CONSTANTS
  Messages = {m}
  Templated = {m}
  Texts = {hello, revised}
  Addresses = {home}
  Requests = {r1, r2}
  Commands = {"draft", "edit", "schedule", "ready", "cancel", "send"}
  Limit = 1
  Window = 1
  MaxClock = 2
  MaxVersion = 3
  MaxLosses = 1
SYMMETRY Interchangeable
INVARIANTS
  SubmittedAsReviewed
  HistoryTellsEveryVersion
PROPERTIES
  KeepsThePromise
