SPECIFICATION CheckSpec
CONSTANTS
  web = web
  db = db
  Targets <- MCTargets
  TCPTargets <- MCTCPTargets
  CertWatched <- MCCertWatched
  Timeout <- MCTimeout
  MaxAttempts = 4
  InitialWait = 1
  MaxWait = 3
  MultNum = 4
  MultDen = 1
  DurationMax = 7
INVARIANT BackoffWithinCap
