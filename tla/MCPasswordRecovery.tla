------------------------- MODULE MCPasswordRecovery -------------------------
(* A small instance of PasswordRecovery for TLC.                           *)
EXTENDS PasswordRecovery
=============================================================================
