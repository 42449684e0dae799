SPECIFICATION Spec
CONSTANTS
  a = a
  b = b
  c = c
  p = p
  q = q
  s1 = s1
  s2 = s2
  x1 = x1
  x2 = x2
  y1 = y1
  Thread = {a, b}
  TS = {s1}
  Tuple = {x1}
  Process = {p, q}
  UTS = UTS
  Worker = {w1}
  watcher = watcher
  NoCall = NoCall
  NoProcess = NoProcess
  MayDieInCall = TRUE
  ValueOf <- MCValueOf
  Template <- MCTemplate
  proc <- MCProc
  Calls <- DeathCalls
INVARIANT NoGhostWaiters
CHECK_DEADLOCK FALSE
