CONSTANTS
  People = {"mo", "ivy"}
  FirstRole <- RoleOf
  Ids = {i1, i2, i3}
  Links = {l1, l2}
  Requests = {w1, w2}
  Doable = {"sign in", "refresh", "sign out", "everywhere", "promote", "demote", "reactivate",
            "deactivate", "issue", "confirm"}
  Told = {"devices", "access"}
SPECIFICATION MCSpec
SYMMETRY Interchangeable
INVARIANTS
  OneRenewalPerDevice
  OneSessionPerDevice
  LinkIsSpentOnce
