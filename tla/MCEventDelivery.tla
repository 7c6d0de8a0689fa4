--------------------------- MODULE MCEventDelivery ---------------------------
EXTENDS EventDelivery, TLC

CONSTANTS o1, o2, u1, w1
=============================================================================
