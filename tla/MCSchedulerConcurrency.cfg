SPECIFICATION Spec
CONSTANTS
  web = web
  db = db
  Targets = {web, db}
  TCPTargets = {db}
  CertWatched = {}
  Timeout <- MCTimeout
  MaxAttempts = 2
  InitialWait = 1
  MaxWait = 2
  MultNum = 2
  MultDen = 1
  DurationMax = 127
  Concurrency = 1
  Interval <- MCShortInterval
  JitterDiv = 2
  ReminderMultiplier = 1
  AlertFanoutTimeout = 1
INVARIANT ProbesWithinConcurrency
