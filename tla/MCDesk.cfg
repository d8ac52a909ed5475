CONSTANTS
  Suppliers = {x}
  Rfqs = {q}
  Offers = {o1, o2}
  Scenarios = {s1, s2}
  Terms = {t1, t2}
  Handlers = {h1, h2}
  MaxLead = 6
  Overlaps = 1
  Purchases = {"p"}
  Movements = {"m1", "m2", "m3"}
  Bills = {"b1", "b2"}
  Payments = {"y1", "y2"}
  Numbers = {"n1", "n2"}
  Partners = {"order"}
  Shipments = {"ship"}
  Managers = {"mo", "max"}
  Quantities = {1, 2}
  Cents = {1, 2}
  Ordered = 2
  Total = 2
  Clerks = {h1, h2}
SPECIFICATION MCSpec
SYMMETRY Interchangeable
INVARIANTS
  SeriesIsWhole
  QuotedAsReviewed
  LedgerAddsUp
  LedgerStands
PROPERTIES
  KeepsTheBook
