--------------------------- MODULE MCRateHandler ---------------------------
EXTENDS RateHandler

CONSTANTS d1, d2, s1, s2

MCDevices1 == {d1}
MCDevices2 == {d1, d2}
MCSessions1 == {s1}
MCSessions2 == {s1, s2}
\* A device clock that may repeat a timestamp, advance, or step back two ticks.
MCTsBackTwo == {-2, 0, 1}
=============================================================================
