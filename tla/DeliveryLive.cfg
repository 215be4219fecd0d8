SPECIFICATION FairSpec
CONSTANTS
  c1 = c1  c2 = c2  c3 = c3  l1 = l1  l2 = l2  t1 = t1  t2 = t2
  NoThread = NoThread  NoSub = NoSub  NoMsg = NoMsg  AnyMd5 = "*"
  Subs = {c1, c2}  Links = {l1}  Latched = {l1}  Intraprocess = {}
  Threads = {t1, t2}  Spinners = {t1, t2}
  Concurrent = {}  Tracked = {}
  Size <- SizesOneAndMany  Md5 <- SameType
  Removers <- OutsideRemover
  MaxNest = 1  MaxMsgs = 3  Admin = FALSE
CHECK_DEADLOCK FALSE
INVARIANTS NoStranded
PROPERTIES ImplementsChannel EveryMessageLeaves RemovalReturns
