SPECIFICATION MCFairSpec
CONSTANTS
  Tickets = {ticket}
  Quotations = {}
  Leads = {lead}
  Workers = {w1, w2}
  TaskIds = {a, b}
  MaxAttempts = 2
  MaxDay = 1
  Lookback = 1
  MaxLosses = 1
INVARIANTS
  OneTaskPerKey
  HistoryTellsTheTruth
PROPERTIES
  SettledUnlessLost
  ToldUnlessLost
