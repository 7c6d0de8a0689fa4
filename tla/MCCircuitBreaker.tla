--------------------------- MODULE MCCircuitBreaker ---------------------------
EXTENDS CircuitBreaker, TLC

CONSTANTS c1, c2, c3

=============================================================================
