SPECIFICATION FairSpec
CONSTANTS
  a = a  b = b  p1 = p1  p2 = p2  q1 = q1  q2 = q2
  NoThread = NoThread  NoHandle = NoHandle  AnyType = AnyType
  Threads = {a, b}  Closers = {b}
  Publishers = {p1, p2}  Subscribers = {q1, q2}
  Owner <- PubsAndSubs
  Type <- OneAndAny
  MaxPubs = 2  MaxSubs = 2  MasterMayFail = FALSE
CHECK_DEADLOCK FALSE
INVARIANTS SubscribersServed
 
