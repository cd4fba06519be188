--------------------------- MODULE MCWebSocketHub ---------------------------
EXTENDS WebSocketHub, TLC

CONSTANTS c1, c2

TwoClients == {c1, c2}


=============================================================================
