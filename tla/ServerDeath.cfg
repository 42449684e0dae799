SPECIFICATION Spec
CONSTANTS
  a = a
  b = b
  c = c
  p = p
  q = q
  s1 = s1
  s2 = s2
  x1 = x1
  x2 = x2
  y1 = y1
  Thread = {b, c}
  TS = {s1}
  Tuple = {x1}
  Process = {q}
  UTS = UTS
  Worker = {w1, w2}
  watcher = watcher
  NoCall = NoCall
  NoProcess = NoProcess
  MayDieInCall = TRUE
  ValueOf <- MCValueOf
  Template <- MCTemplate
  proc <- MCProc
  Calls <- DeathCalls
INVARIANTS  WaitersListed
PROPERTY ImplementsLinda
SYMMETRY Interchangeable
CHECK_DEADLOCK FALSE
