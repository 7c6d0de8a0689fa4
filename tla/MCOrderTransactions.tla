------------------------- MODULE MCOrderTransactions -------------------------
(* Small instances of OrderTransactions for TLC: the requests of one order  *)
(* are model values, everything else is a number or a flag.                 *)
EXTENDS OrderTransactions
=============================================================================
