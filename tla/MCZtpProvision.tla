--------------------------- MODULE MCZtpProvision ---------------------------
EXTENDS ZtpProvision, TLC

CONSTANTS h1, h2

TwoHandlers == {h1, h2}

=============================================================================
