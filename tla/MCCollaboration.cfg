CONSTANTS
  Meetings = {a, b}
  Requests = {1, 2}
  MaxMoves = 1
  MaxLosses = 1
  People = {"ann", "bob", "cas"}
  Visits = {1, 2}
  RoomMemberMax = 3
  MaxGone = 1
  MaxWishes = 4
  Ids = {"i1", "i2"}
  Keys = {"k1", "k2"}
  Files = {f}
  Tabs = {1, 2}
  MaxFaults = 1
  Sockets = {s1, s2}
  Heartbeat = 2
  StaleAfter = 5
  Ttl = 6
  Told = {"one meeting", "one request", "people", "words", "files", "presence"}
SPECIFICATION MCFairSpec
INVARIANTS
  CollabTypeOK
  RoomKeepsAnOwner
  OneMessagePerKey
  DeletedIsErased
  NobodyLingers
  ConnectedIsShown
PROPERTIES
  SentFilesStay
  EveryMeetingSettles
