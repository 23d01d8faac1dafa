CONSTANTS
  r1 = r1
  stranger = stranger
  p1 = p1
  c1 = c1
  c2 = c2
  Requests <- OneRequest
  Strangers <- OneStranger
  Pids <- OnePid
  Callers <- TwoThreads
  MaxTick = 1
  MaxCrashes = 1
SPECIFICATION Spec
SYMMETRY Threads
CHECK_DEADLOCK FALSE
INVARIANT KillsHitTheirTarget
PROPERTY AnswersAreTrue
PROPERTY OnlyACrashLosesAProcess
