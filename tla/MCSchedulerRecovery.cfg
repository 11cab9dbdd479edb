SPECIFICATION Spec
CONSTANTS
  web = web
  db = db
  Targets = {web}
  TCPTargets = {}
  CertWatched = {web}
  Timeout <- MCTimeout
  MaxAttempts = 2
  InitialWait = 1
  MaxWait = 2
  MultNum = 2
  MultDen = 1
  DurationMax = 127
  Concurrency = 1
  Interval <- MCInterval
  JitterDiv = 2
  ReminderMultiplier = 2
  AlertFanoutTimeout = 1
PROPERTY RecoveryIsHeard
