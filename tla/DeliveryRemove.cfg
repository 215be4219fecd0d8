SPECIFICATION Spec
CONSTANTS
  c1 = c1  c2 = c2  c3 = c3  l1 = l1  l2 = l2  t1 = t1  t2 = t2
  NoThread = NoThread  NoSub = NoSub  NoMsg = NoMsg  AnyMd5 = "*"
  Subs = {c1, c2, c3}  Links = {l1}  Latched = {l1}  Intraprocess = {l1}
  Threads = {t1, t2}  Spinners = {t1, t2}
  Concurrent = {c2}  Tracked = {c1}
  Size <- SizesOfThree  Md5 <- OneOfAnotherType
  Removers <- AnyRemover
  MaxNest = 2  MaxMsgs = 2  Admin = TRUE
CHECK_DEADLOCK FALSE
INVARIANTS QuietAfterRemoval OneThreadAtATime OneType
