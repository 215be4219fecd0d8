SPECIFICATION FairSpec
CONSTANTS
  s1 = s1  s2 = s2  u = u
  Threads = {s1, s2, u}
  Ids = {"x", "y"}
  NoId = NoId
  MaxDepth = 1  MaxAdds = 2  MaxInfos = 1
  TopOps <- SpinnersAndRemover
  NestedOps = {}
  CallResults = {"Success", "TryAgain"}
INVARIANTS IdleMeansEmpty
PROPERTIES RemovalReturns EveryCallbackHandled
