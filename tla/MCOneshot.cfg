SPECIFICATION Spec
CONSTANTS
  web = web
  db = db
  List <- MCList
  Targets = {web, db}
  TCPTargets = {db}
  CertWatched = {web}
  Timeout <- MCTimeout
  MaxAttempts = 2
  InitialWait = 1
  MaxWait = 2
  MultNum = 2
  MultDen = 1
  DurationMax = 127
  Concurrency = 1
  AlertFanoutTimeout = 1
INVARIANTS
  TypeOK
  ProbesWithinConcurrency
  EveryTargetHasAVerdict
  EveryFailureIsRaised
  HeardFailuresAreReal
  
PROPERTY ProcessExits
