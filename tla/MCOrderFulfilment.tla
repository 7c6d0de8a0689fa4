-------------------------- MODULE MCOrderFulfilment --------------------------
(* Small instances of OrderFulfilment for TLC.                             *)
EXTENDS OrderFulfilment

CONSTANTS v1, v2, p1, p2

\* Each of two products is sold by a vendor of its own.
MCVendorOf == [p \in Products |-> IF p = p1 THEN v1 ELSE v2]
=============================================================================
