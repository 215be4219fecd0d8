SPECIFICATION Spec
CHECK_DEADLOCK FALSE
CONSTANTS
  a = a
  b = b
  t1 = t1
  t2 = t2
  Proc = {a, b, t1, t2}
  NameOf <- MCNameOf
  Kinds <- MCKinds
  Killer = {k1}
  NoProc = NoProc
  ListenerRaises = {FALSE, TRUE}
  MaxSpawn = 2
  MaxKills = 1
  Attempt <- MCAttempt
  Retries = {0, 1}
INVARIANTS WatchedToTheEnd SuccessIsEarned
PROPERTIES EverythingEnds
