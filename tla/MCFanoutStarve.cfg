SPECIFICATION PromptSpec
CONSTANTS
  tg = tg
  mm = mm
  ops = ops
  dev = dev
  acme = acme
  globex = globex
  s1 = s1
  s2 = s2
  Senders = {s1}
  Channels = {tg, mm, ops, dev}
  Telegram = {tg, ops}
  Kinds = {"failure", "recovery"}
  Companies = {acme, globex}
  Allowed <- MCAllowed
  RequestTimeout <- MCUnitTimeout
  AlertFanoutTimeout = 3
  MaxAlerts = 1
INVARIANT EveryChannelIsTried
CHECK_DEADLOCK FALSE
