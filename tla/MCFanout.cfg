SPECIFICATION Spec
CONSTANTS
  tg = tg
  mm = mm
  ops = ops
  dev = dev
  acme = acme
  globex = globex
  s1 = s1
  s2 = s2
  Senders = {s1, s2}
  Channels = {tg, mm}
  Telegram = {tg}
  Kinds = {"failure", "recovery"}
  Companies = {acme, globex}
  Allowed <- MCAllowed
  RequestTimeout <- MCRequestTimeout
  AlertFanoutTimeout = 2
  MaxAlerts = 2
INVARIANTS
  TypeOK
  NothingLostSilently
  OthersAreTried
  CountersAreHonest
PROPERTIES
  DeliverySpec
  EverySendEnds
CHECK_DEADLOCK FALSE
