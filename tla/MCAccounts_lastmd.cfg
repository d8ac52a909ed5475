CONSTANTS
  People = {"mo", "max", "ivy"}
  FirstRole <- RoleOf
  Ids = {i1}
  Links = {}
  Requests = {w1, w2}
  Doable = {"sign in", "demote"}
  Told = {"access"}
SPECIFICATION MCSpec
INVARIANT AnMDRemains
