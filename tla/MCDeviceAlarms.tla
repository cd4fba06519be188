---------------------------- MODULE MCDeviceAlarms ----------------------------
EXTENDS DeviceAlarms, TLC

CONSTANTS d1, h1, h2

OneDevice   == {d1}
TwoHandlers == {h1, h2}

\* Three moves: an outage and what an operator makes of it, or alarm events and
\* an acknowledgement, or two of them with a fault.
Moves == [m \in Move |-> 2]

=============================================================================
