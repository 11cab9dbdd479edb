------------------------------ MODULE MCFanout ------------------------------
EXTENDS Fanout, TLC
CONSTANTS s1, s2, tg, mm, ops, dev, acme, globex
MCAllowed == [c \in Channels |-> IF c = mm THEN {acme} ELSE {}]
MCUnitTimeout == [c \in Channels |-> 1]
MCRequestTimeout == [c \in Channels |-> IF c = tg THEN 2 ELSE 1]
=============================================================================
