SPECIFICATION Spec
CONSTANTS
  s1 = s1  s2 = s2  u = u
  Threads = {s1, s2, u}
  Ids = {"x", "y"}
  NoId = NoId
  MaxDepth = 2  MaxAdds = 2  MaxInfos = 1
  TopOps <- SpinnersAndUser
  NestedOps = {"removeByID", "callOne"}
  CallResults = {"Success", "TryAgain", "Throw"}
CHECK_DEADLOCK FALSE
INVARIANTS QueueConsistent LockCountsCalls CallerIsInnermost
