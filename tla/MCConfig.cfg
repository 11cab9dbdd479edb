SPECIFICATION Spec
CONSTANTS
  Targets <- MCTargets
  Alerters <- MCAlerters
  Garbage = Garbage
INVARIANTS
  
  NoTCPThroughHTTPProxy
  WindowIsInheritedOrOff
  DefaultsAreNeverRefused
